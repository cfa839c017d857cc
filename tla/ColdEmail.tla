------------------------------ MODULE ColdEmail ------------------------------
(***************************************************************************)
(* The cold emails of an application: drafted by the /cold-email skill,    *)
(* edited and approved by the user.  SentEmail adds what sends them.       *)
(*                                                                         *)
(* The completion callback upserts a draft per email type.  It looks the   *)
(* initial draft up, appends a copy to the IMAP Drafts folder, looks the   *)
(* follow-ups up and commits everything at once: seconds go by between the *)
(* first query and the commit, without a lock.  The user's handlers query  *)
(* one row and commit, and are one action each.                            *)
(***************************************************************************)
EXTENDS AgentJobs

CONSTANTS
    EmailTypes,   \* "initial" and the follow-ups
    Asked,        \* what users ask for: "all" of them, or one type
    Results,      \* the sets of types a result of the skill may have a body for
    MaxTwins,     \* bound: rows with one application and email type
    Callbacks,    \* threads that may be inside a cold_email completion at once
    Versions,     \* the texts a user may type into one draft
    HasContact    \* the applications with a contact_email

ASSUME ColdEmailAssumption ==
    /\ MaxTwins \in Nat \ {0}
    /\ "initial" \in EmailTypes
    /\ Results \subseteq SUBSET EmailTypes
    /\ Asked \subseteq EmailTypes \union {"all"}
    /\ "cold_email" \in JobTypes
    /\ Versions \subseteq Nat
    /\ HasContact \subseteq Applications

VARIABLES
    drafts,     \* the email_drafts table
    cb,         \* each callback thread's place in complete_job
    folder,     \* the texts in the IMAP Drafts folder
    want,       \* history: the email type each job was asked for, or "all"
    crossed,    \* history: the applications with two completions at once
    raced       \* history: the drafts last approved while a completion held them

draftVars == <<jobs, procs, drafts, cb, folder, want, crossed, raced>>

-----------------------------------------------------------------------------

\* subject and body: which job or which edit they come from.
Text == [by: {"skill", "user"}, n: Nat]

NoText == [by |-> "nobody"]

Drafted(j) == [by |-> "skill", n |-> j]

Typed(v) == [by |-> "user", n |-> v]

\* A row is known by its application, its type and its rank among the rows with both.
Twins == 1 .. MaxTwins

DraftIds == Applications \X EmailTypes \X Twins

DraftStatuses == {"draft", "edited", "approved", "sent"}

\* imap: the copy imap_message_id names.
Draft == [text: Text, status: DraftStatuses, imap: Text \union {NoText}]

NoDraft == [status |-> "absent"]

Idle == [pc |-> "idle"]

\* What a query by application and type finds: the rank of the row (0: none), and the row.
Hits == [rank: Twins \union {0}, row: Draft \union {NoDraft}]

Nothing == [rank |-> 0, row |-> NoDraft]

(***************************************************************************)
(* A completion under way: the types its result has a body for, what it    *)
(* has found for them, the job's status as it loaded it, and the copy it   *)
(* has appended.                                                           *)
(***************************************************************************)
Filling == [pc: {"imap", "find", "save"}, job: JobIds, types: Results,
            hits: [EmailTypes -> Hits], jobWas: JobStatuses,
            imap: Text \union {NoText}]

DraftTypeOK ==
    /\ JobsTypeOK
    /\ drafts \in [DraftIds -> Draft \union {NoDraft}]
    /\ cb \in [Callbacks -> Filling \union {Idle}]
    /\ folder \subseteq Text
    /\ want \in [JobIds -> Asked \union {"all"}]
    /\ crossed \subseteq Applications
    /\ raced \subseteq DraftIds

DraftInit ==
    /\ JobsInit
    /\ drafts = [d \in DraftIds |-> NoDraft]
    /\ cb = [t \in Callbacks |-> Idle]
    /\ folder = {}
    /\ want = [j \in JobIds |-> "all"]
    /\ crossed = {}
    /\ raced = {}

Ranks(app, type) == {n \in Twins : drafts[<<app, type, n>>] # NoDraft}

Hit(app, type) ==
    IF Ranks(app, type) = {} THEN Nothing
    ELSE LET n == CHOOSE n \in Ranks(app, type) : TRUE
         IN  [rank |-> n, row |-> drafts[<<app, type, n>>]]

\* one_or_none does not raise.
AtMostOne(app, types) ==
    \A type \in types, m, n \in Twins :
        m \in Ranks(app, type) /\ n \in Ranks(app, type) => m = n

\* Where a completion goes on once the initial draft is dealt with.
Onward(types) == IF types \ {"initial"} = {} THEN "save" ELSE "find"

Busy(t) == cb[t] # Idle

AppOf(t) == jobs[cb[t].job].ref

-----------------------------------------------------------------------------
(***************************************************************************)
(* POST /api/emails/generate and /generate-followup: both spawn the same   *)
(* skill with the same arguments; the type asked for goes nowhere.         *)
(***************************************************************************)

GenerateEmails(j, app, type) ==
    /\ InsertJob(j, "cold_email", app)
    /\ want' = [want EXCEPT ![j] = type]
    /\ UNCHANGED <<drafts, cb, folder, crossed, raced>>

SpawnEnds(j) ==
    /\ Launch(j) \/ LaunchFails(j)
    /\ UNCHANGED <<drafts, cb, folder, want, crossed, raced>>

\* What the skill does beside completing its job.
SkillElse(j) ==
    /\ \/ \E pct \in Progress : PutProgress(j, pct)
       \/ CompleteFailed(j)
       \/ Exit(j)
    /\ UNCHANGED <<drafts, cb, folder, want, crossed, raced>>

-----------------------------------------------------------------------------
(***************************************************************************)
(* PUT /api/callbacks/complete/{id} with status "completed".               *)
(***************************************************************************)

(***************************************************************************)
(* Up to the query for the initial draft.  With two of them one_or_none    *)
(* raises: 500, nothing is changed and the job stays as it is.             *)
(***************************************************************************)
BeginFill(t, j, types) ==
    /\ ~Busy(t)
    /\ MayCallBack(j)
    /\ LET app == jobs[j].ref
           now == types \intersect {"initial"}
       IN  /\ AtMostOne(app, now)
           /\ cb' = [cb EXCEPT ![t] =
                [pc |-> IF now # {} /\ app \in HasContact THEN "imap" ELSE Onward(types),
                 job |-> j, types |-> types,
                 hits |-> [type \in EmailTypes |->
                             IF type \in now THEN Hit(app, type) ELSE Nothing],
                 jobWas |-> jobs[j].status, imap |-> NoText]]
           /\ crossed' = IF \E u \in Callbacks : Busy(u) /\ AppOf(u) = app
                         THEN crossed \union {app} ELSE crossed
    /\ UNCHANGED <<jobs, procs, drafts, folder, want, raced>>

\* append_draft, outside the transaction.
AppendDraft(t) ==
    /\ cb[t].pc = "imap"
    /\ folder' = folder \union {Drafted(cb[t].job)}
    /\ cb' = [cb EXCEPT ![t].pc = Onward(cb[t].types), ![t].imap = Drafted(cb[t].job)]
    /\ UNCHANGED <<jobs, procs, drafts, want, crossed, raced>>

\* Mutant: the link is noted although the append failed.
AppendFailsNoted(t) ==
    /\ "mail_fails" \in Faults
    /\ cb[t].pc = "imap"
    /\ folder' \in {folder, folder \union {Drafted(cb[t].job)}}
    /\ cb' = [cb EXCEPT ![t].pc = Onward(cb[t].types), ![t].imap = Drafted(cb[t].job)]
    /\ UNCHANGED <<jobs, procs, drafts, want, crossed, raced>>

\* MailerDisabled or MailerError: logged and passed over.  The connection may have broken
\* after the server had stored the copy.
AppendFails(t) ==
    /\ "mail_fails" \in Faults
    /\ cb[t].pc = "imap"
    /\ folder' \in {folder, folder \union {Drafted(cb[t].job)}}
    /\ cb' = [cb EXCEPT ![t].pc = Onward(cb[t].types)]
    /\ UNCHANGED <<jobs, procs, drafts, want, crossed, raced>>

FollowUps(t) == cb[t].types \ {"initial"}

FindFollowUps(t) ==
    /\ cb[t].pc = "find"
    /\ AtMostOne(AppOf(t), FollowUps(t))
    /\ cb' = [cb EXCEPT ![t].pc = "save",
                        ![t].hits = [type \in EmailTypes |->
                           IF type \in FollowUps(t) THEN Hit(AppOf(t), type) ELSE @[type]]]
    /\ UNCHANGED <<jobs, procs, drafts, folder, want, crossed, raced>>

\* Two rows for a follow-up: the transaction is rolled back, status and all.
FindRaises(t) ==
    /\ cb[t].pc = "find"
    /\ ~AtMostOne(AppOf(t), FollowUps(t))
    /\ cb' = [cb EXCEPT ![t] = Idle]
    /\ UNCHANGED <<jobs, procs, drafts, folder, want, crossed, raced>>

\* The rows an upsert of this type may write to: the one found, or else a new one.
Slots(t, type) ==
    LET found == cb[t].hits[type].rank
    IN  IF found # 0 THEN {found} ELSE Twins \ Ranks(AppOf(t), type)

Target(t, type) == CHOOSE n \in Slots(t, type) : \A m \in Slots(t, type) : n <= m

NewDraft(text, imap) ==
    [text |-> text, status |-> "draft", imap |-> imap]

\* Mutant: regenerating a draft leaves its status alone.
OverwrittenKeepingStatus(row, was, text, imap) ==
    [row EXCEPT !.text = Written(@, was.text, text),
                !.imap = IF imap = NoText THEN @ ELSE imap]

\* Whatever its status, approved and sent included, a row is a draft again.
Overwritten(row, was, text, imap) ==
    [row EXCEPT !.text = Written(@, was.text, text),
                !.status = Written(@, was.status, "draft"),
                !.imap = IF imap = NoText THEN @ ELSE imap]

\* Mutant: no lookup, a completion always inserts.
InsertedAlways(t, d) ==
    LET text == Drafted(cb[t].job)
        free == Twins \ Ranks(AppOf(t), d[2])
    IN  IF d[3] \in free /\ \A n \in free : d[3] <= n
        THEN NewDraft(text, cb[t].imap) ELSE drafts[d]

Upserted(t, d) ==
    LET text == Drafted(cb[t].job)
        imap == IF d[2] = "initial" THEN cb[t].imap ELSE NoText
        hit  == cb[t].hits[d[2]]
    IN  IF d[3] # Target(t, d[2]) THEN drafts[d]
        ELSE IF hit.rank = 0 THEN NewDraft(text, imap)
        ELSE Overwritten(drafts[d], hit.row, text, imap)

\* The one commit.  MaxTwins bounds the inserts.
CommitFill(t) ==
    /\ cb[t].pc = "save"
    /\ \A type \in cb[t].types : Slots(t, type) # {}
    /\ drafts' = [d \in DraftIds |->
                    IF d[1] = AppOf(t) /\ d[2] \in cb[t].types
                    THEN Upserted(t, d) ELSE drafts[d]]
    /\ CompleteLate(cb[t].job, cb[t].jobWas)
    /\ cb' = [cb EXCEPT ![t] = Idle]
    /\ UNCHANGED <<folder, want, crossed, raced>>

-----------------------------------------------------------------------------
(***************************************************************************)
(* The user's handlers.                                                    *)
(***************************************************************************)

\* PUT /api/emails/{id}: the text may stay as it is; no status is protected.
EditEmail(d, text) ==
    /\ drafts[d] # NoDraft
    /\ drafts' = [drafts EXCEPT ![d].text = text, ![d].status = "edited"]
    /\ UNCHANGED <<jobs, procs, cb, folder, want, crossed, raced>>

Held(d) ==
    \E t \in Callbacks :
        Busy(t) /\ AppOf(t) = d[1] /\ cb[t].hits[d[2]].rank = d[3]

ApproveEmail(d) ==
    /\ drafts[d] # NoDraft
    /\ drafts' = [drafts EXCEPT ![d].status = "approved"]
    /\ raced' = IF Held(d) THEN raced \union {d} ELSE raced \ {d}
    /\ UNCHANGED <<jobs, procs, cb, folder, want, crossed>>

\* POST /{id}/sent, and what POST /{id}/send writes to the draft.
MarkSent(d) ==
    /\ drafts[d] # NoDraft
    /\ drafts' = [drafts EXCEPT ![d].status = "sent"]
    /\ UNCHANGED <<jobs, procs, cb, folder, want, crossed, raced>>

\* The container restarts: threads and subprocesses die, the tables and the mailbox stay.
Restart ==
    /\ KillAll
    /\ cb' = [t \in Callbacks |-> Idle]
    /\ UNCHANGED <<drafts, folder, want, crossed, raced>>

-----------------------------------------------------------------------------

Skill(j) ==
    \/ \E app \in Applications, type \in Asked : GenerateEmails(j, app, type)
    \/ SpawnEnds(j)
    \/ SkillElse(j)

Fill(t) ==
    \/ \E j \in JobIds, types \in Results : BeginFill(t, j, types)
    \/ AppendDraft(t) \/ AppendFails(t)
    \/ FindFollowUps(t) \/ FindRaises(t)
    \/ CommitFill(t)

\* What an edit may leave in the row: the text that is there, or one the user types.
Edits(d) == {drafts[d].text} \union {Typed(v) : v \in Versions}

User(d) ==
    \/ drafts[d] # NoDraft /\ \E text \in Edits(d) : EditEmail(d, text)
    \/ ApproveEmail(d)
    \/ MarkSent(d)

DraftNext ==
    \/ \E j \in JobIds : Skill(j)
    \/ \E t \in Callbacks : Fill(t)
    \/ \E d \in DraftIds : User(d)
    \/ Restart

DraftSpec == DraftInit /\ [][DraftNext]_draftVars

-----------------------------------------------------------------------------
(***************************************************************************)
(* Safety                                                                  *)
(***************************************************************************)

(***************************************************************************)
(* Regenerating the emails of an application replaces its drafts: there is *)
(* one row per type, unless two completions for the application were under *)
(* way at the same time.  Then each finds no row and inserts its own.      *)
(***************************************************************************)
OneDraftPerType == \A app \in Applications \ crossed : AtMostOne(app, EmailTypes)

(***************************************************************************)
(* No step changes what an approved draft says and leaves it approved,     *)
(* unless a completion had loaded the draft when it was approved: that one *)
(* saw "draft", assigns "draft", and so commits its text but no status.    *)
(***************************************************************************)
ApprovalCoversText ==
    [][\A d \in DraftIds \ raced :
          /\ drafts[d] # NoDraft
          /\ drafts[d].status = "approved"
          /\ drafts'[d].text # drafts[d].text
          => drafts'[d].status # "approved"]_drafts

(***************************************************************************)
(* A draft's imap_message_id names a copy that is in the Drafts folder,    *)
(* though the append precedes the commit and either may fail.              *)
(***************************************************************************)
ImapLinkHasCopy ==
    \A d \in DraftIds :
        drafts[d] # NoDraft /\ drafts[d].imap # NoText => drafts[d].imap \in folder

(***************************************************************************)
(* A draft filled by a job that was asked for one type is of that type:    *)
(* "the callback handler will target only the requested email_type row".   *)
(* The handler does not know the type and overwrites all of them.          *)
(***************************************************************************)
FollowUpTargetsOneRow ==
    \A d \in DraftIds :
        drafts[d] # NoDraft /\ drafts[d].text.by = "skill" =>
            want[drafts[d].text.n] \in {d[2], "all"}
=============================================================================
