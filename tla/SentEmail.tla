------------------------------ MODULE SentEmail ------------------------------
(***************************************************************************)
(* Sending a cold email, and the application it belongs to.                *)
(*                                                                         *)
(* POST /api/emails/{id}/send reads the draft, hands it to SMTP, and then  *)
(* commits in one transaction the draft at "sent", sent_at, the            *)
(* application's email_sent_at and its transition to "applied".  Meanwhile *)
(* the draft may be edited, approved, regenerated or sent once more.       *)
(***************************************************************************)
EXTENDS ColdEmail

CONSTANTS
    AppStatuses,    \* applications.status
    MaxMails,       \* bound: mails SMTP accepts per draft
    Senders         \* threads that may be inside send_email at once

ASSUME SentEmailAssumption ==
    /\ {"targeting", "applied", "email_sent"} \subseteq AppStatuses
    /\ MaxMails \in Nat

VARIABLES
    apps,     \* the applications: status, and whether email_sent_at is set
    out,      \* the columns of email_drafts for sending: recipient_email and sent_at
    snd,      \* each sender's place in send_email
    mails,    \* how many mails of each draft SMTP has accepted
    cut       \* history: the drafts with a mail whose reply was lost, or a restart
              \* between SMTP and the commit

sendVars == <<apps, out, snd, mails, cut>>

vars == <<jobs, procs, drafts, cb, folder, want, crossed, raced,
          apps, out, snd, mails, cut>>

Sending == [pc: {"smtp", "save"}, draft: DraftIds, was: DraftStatuses]

TypeOK ==
    /\ DraftTypeOK
    /\ apps \in [Applications -> [status: AppStatuses, emailSentAt: BOOLEAN]]
    /\ out \in [DraftIds -> [to: BOOLEAN, sentAt: BOOLEAN]]
    /\ snd \in [Senders -> Sending \union {Idle}]
    /\ mails \in [DraftIds -> 0 .. MaxMails]
    /\ cut \subseteq DraftIds

Init ==
    /\ DraftInit
    /\ apps = [a \in Applications |-> [status |-> "targeting", emailSentAt |-> FALSE]]
    /\ out = [d \in DraftIds |-> [to |-> FALSE, sentAt |-> FALSE]]
    /\ snd = [s \in Senders |-> Idle]
    /\ mails = [d \in DraftIds |-> 0]
    /\ cut = {}

AtCommit(s, d) == snd[s].pc = "save" /\ snd[s].draft = d

-----------------------------------------------------------------------------

\* PUT /api/emails/{id} with a recipient, or clearing it, with a text or without.
EditRecipient(d, text, to) ==
    /\ EditEmail(d, text)
    /\ out' = [out EXCEPT ![d].to = to]
    /\ UNCHANGED <<apps, snd, mails, cut>>

\* POST /{id}/sent: the user says it is sent; the application is not touched.
NoteSent(d) ==
    /\ MarkSent(d)
    /\ out' = [out EXCEPT ![d].sentAt = TRUE]
    /\ UNCHANGED <<apps, snd, mails, cut>>

\* Answers 422 without a recipient.  A draft already sent is sent again.
OpenSend(s, d) ==
    /\ snd[s] = Idle
    /\ drafts[d] # NoDraft
    /\ out[d].to
    /\ snd' = [snd EXCEPT ![s] = [pc |-> "smtp", draft |-> d, was |-> drafts[d].status]]
    /\ UNCHANGED <<draftVars, apps, out, mails, cut>>

SmtpAccepts(s) ==
    /\ snd[s].pc = "smtp"
    /\ mails[snd[s].draft] < MaxMails
    /\ mails' = [mails EXCEPT ![snd[s].draft] = @ + 1]
    /\ snd' = [snd EXCEPT ![s].pc = "save"]
    /\ UNCHANGED <<draftVars, apps, out, cut>>

\* MailerError: the request ends and the tables are as they were.
SmtpFails(s) ==
    /\ "mail_fails" \in Faults
    /\ snd[s].pc = "smtp"
    /\ snd' = [snd EXCEPT ![s] = Idle]
    /\ UNCHANGED <<draftVars, apps, out, mails, cut>>

\* The same when the connection breaks after the server has taken the mail.
SmtpReplyLost(s) ==
    /\ "mail_fails" \in Faults
    /\ snd[s].pc = "smtp"
    /\ mails[snd[s].draft] < MaxMails
    /\ mails' = [mails EXCEPT ![snd[s].draft] = @ + 1]
    /\ snd' = [snd EXCEPT ![s] = Idle]
    /\ cut' = cut \union {snd[s].draft}
    /\ UNCHANGED <<draftVars, apps, out>>

\* transition_status: nothing to do at the same status; "email_sent" sets email_sent_at.
Transitioned(app, status) ==
    IF app.status = status THEN app
    ELSE [app EXCEPT !.status = status, !.emailSentAt = @ \/ status = "email_sent"]

\* Mutant: email_sent_at is left to transition_status, which only sets applied_at.
RecordLessApp(d) ==
    /\ out' = [out EXCEPT ![d].sentAt = TRUE]
    /\ apps' = [apps EXCEPT ![d[1]] = Transitioned(@, "applied")]

\* Mutant: the application gets the status of the draft.
RecordAsSent(d) ==
    /\ out' = [out EXCEPT ![d].sentAt = TRUE]
    /\ apps' = [apps EXCEPT ![d[1]] =
                  Transitioned([@ EXCEPT !.emailSentAt = TRUE], "sent")]

\* What send_email assigns to the draft, beside its status, and to the application.
Record(d) ==
    /\ out' = [out EXCEPT ![d].sentAt = TRUE]
    /\ apps' = [apps EXCEPT ![d[1]] =
                  Transitioned([@ EXCEPT !.emailSentAt = TRUE], "applied")]

CommitSend(s) ==
    LET d == snd[s].draft
    IN  /\ snd[s].pc = "save"
        /\ drafts' = [drafts EXCEPT ![d].status = Written(@, snd[s].was, "sent")]
        /\ Record(d)
        /\ snd' = [snd EXCEPT ![s] = Idle]
        /\ UNCHANGED <<jobs, procs, cb, folder, want, crossed, raced, mails, cut>>

\* PATCH /api/applications/{id}: any status to any other.
MoveApplication(app, status) ==
    /\ apps' = [apps EXCEPT ![app] = Transitioned(@, status)]
    /\ UNCHANGED <<draftVars, out, snd, mails, cut>>

RestartAll ==
    /\ Restart
    /\ snd' = [s \in Senders |-> Idle]
    /\ cut' = cut \union {d \in DraftIds : \E s \in Senders : AtCommit(s, d)}
    /\ UNCHANGED <<apps, out, mails>>

-----------------------------------------------------------------------------

Send(s) ==
    \/ \E d \in DraftIds : OpenSend(s, d)
    \/ SmtpAccepts(s) \/ SmtpFails(s) \/ SmtpReplyLost(s) \/ CommitSend(s)

Readdress(d) ==
    /\ drafts[d] # NoDraft
    /\ \E to \in BOOLEAN, text \in Edits(d) : EditRecipient(d, text, to)

Drafting ==
    /\ \/ \E j \in JobIds : Skill(j)
       \/ \E t \in Callbacks : Fill(t)
       \/ \E d \in DraftIds : ApproveEmail(d)
    /\ UNCHANGED sendVars

Next ==
    \/ Drafting
    \/ \E d \in DraftIds : NoteSent(d) \/ Readdress(d)
    \/ \E s \in Senders : Send(s)
    \/ \E app \in Applications, status \in AppStatuses : MoveApplication(app, status)
    \/ RestartAll

Spec == Init /\ [][Next]_vars

-----------------------------------------------------------------------------
(***************************************************************************)
(* A mail that SMTP has accepted is on record, with the draft (sent_at)    *)
(* and with the application (email_sent_at), as soon as the request is     *)
(* over, whatever edits, completions and other sends came in between.  Only*)
(* a lost SMTP reply, or a restart before the commit, loses the record.    *)
(***************************************************************************)
MailIsRecorded ==
    \A d \in DraftIds \ cut :
        mails[d] > 0 /\ (\A s \in Senders : ~AtCommit(s, d)) =>
            out[d].sentAt /\ apps[d[1]].emailSentAt
=============================================================================
