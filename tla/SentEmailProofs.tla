--------------------------- MODULE SentEmailProofs ---------------------------
(***************************************************************************)
(* Proofs about ColdEmail, for any number of applications, email types,    *)
(* jobs, rows, completions and edits, under any faults; and about          *)
(* SentEmail, for any number of senders.  SentEmail implements ColdEmail,  *)
(* so what is proved of that carries over, and the rest is about the mails *)
(* alone.                                                                  *)
(***************************************************************************)
EXTENDS SentEmail, AgentJobsProofs

-----------------------------------------------------------------------------
(***************************************************************************)
(* ColdEmail: the inductive invariant.                                     *)
(***************************************************************************)

\* The row of the job and the rows it has found are there until a completion commits.
FillsHoldTheirRows ==
    \A t \in Callbacks : Busy(t) =>
        /\ procs[cb[t].job] # "none"
        /\ \A type \in EmailTypes :
              LET n == cb[t].hits[type].rank
              IN  n # 0 => drafts[<<AppOf(t), type, n>>] # NoDraft

\* The types a completion has queried the rows of.
LookedUp(t) ==
    IF cb[t].pc = "save" THEN cb[t].types ELSE cb[t].types \intersect {"initial"}

\* Unless completions cross, a completion is alone with its application, and finds at its
\* commit what it has found at its queries.
LooksAreCurrent ==
    \A t \in Callbacks : Busy(t) /\ AppOf(t) \notin crossed =>
        /\ \A u \in Callbacks : Busy(u) /\ AppOf(u) = AppOf(t) => u = t
        /\ \A type \in LookedUp(t) :
              cb[t].hits[type].rank = 0 => Ranks(AppOf(t), type) = {}

\* A copy that a completion is about to note is in the folder.
CopiesAreFiled ==
    \A t \in Callbacks : Busy(t) /\ cb[t].imap # NoText => cb[t].imap \in folder

\* A draft that was approved since a completion loaded it as "draft" is raced.
ApprovalsAreRaced ==
    \A t \in Callbacks, type \in EmailTypes :
        LET n == cb[t].hits[type].rank
            d == <<AppOf(t), type, n>>
        IN  /\ Busy(t)
            /\ n # 0
            /\ cb[t].hits[type].row.status = "draft"
            /\ drafts[d].status = "approved"
            => d \in raced

DraftInv ==
    /\ DraftTypeOK
    /\ FillsHoldTheirRows
    /\ LooksAreCurrent
    /\ OneDraftPerType
    /\ CopiesAreFiled
    /\ ImapLinkHasCopy
    /\ ApprovalsAreRaced

-----------------------------------------------------------------------------
(***************************************************************************)
(* The part of ColdEmail that AgentJobs sees is AgentJobs.                 *)
(***************************************************************************)

LEMMA BusyIsFilling ==
    ASSUME DraftTypeOK, NEW t \in Callbacks, Busy(t)
    PROVE  /\ cb[t] \in Filling
           /\ cb[t].job \in JobIds
           /\ cb[t].types \subseteq EmailTypes
           /\ cb[t].imap \in Text \union {NoText}
           /\ cb[t].jobWas \in JobStatuses
           /\ \A type \in EmailTypes : cb[t].hits[type] \in Hits
  BY ColdEmailAssumption DEF DraftTypeOK, Busy, Filling

LEMMA DraftStepIsJobsStep ==
    ASSUME DraftTypeOK, [DraftNext]_draftVars
    PROVE  [JobsNext]_jobVars
<1> USE DEF jobVars
<1>1. ASSUME NEW j \in JobIds, Skill(j)
      PROVE  [JobsNext]_jobVars
  BY <1>1, ColdEmailAssumption DEF Skill, GenerateEmails, SpawnEnds, SkillElse, JobsNext
<1>2. ASSUME NEW t \in Callbacks, Fill(t)
      PROVE  [JobsNext]_jobVars
  <2>1. CASE CommitFill(t)
    <3>1. cb[t].job \in JobIds /\ cb[t].jobWas \in JobStatuses
      BY <2>1, BusyIsFilling DEF CommitFill, Busy, Idle
    <3> QED
      BY <2>1, <3>1 DEF CommitFill, JobsNext
  <2>2. CASE ~CommitFill(t)
    BY <1>2, <2>2 DEF Fill, BeginFill, AppendDraft, AppendFails, FindFollowUps, FindRaises
  <2> QED
    BY <2>1, <2>2
<1>3. ASSUME NEW d \in DraftIds, User(d)
      PROVE  [JobsNext]_jobVars
  BY <1>3 DEF User, EditEmail, ApproveEmail, MarkSent
<1>4. CASE Restart
  BY <1>4 DEF Restart, JobsNext
<1>5. CASE UNCHANGED draftVars
  BY <1>5 DEF draftVars
<1> QED
  BY <1>1, <1>2, <1>3, <1>4, <1>5 DEF DraftNext

-----------------------------------------------------------------------------
(***************************************************************************)
(* What the steps do to the tables.                                        *)
(***************************************************************************)

LEMMA PresentDraft ==
    ASSUME DraftTypeOK, NEW d \in DraftIds, drafts[d] # NoDraft
    PROVE  drafts[d] \in Draft
  BY DEF DraftTypeOK

\* A busy thread's application is one, and stays the same while the thread is busy.
LEMMA AppStays ==
    ASSUME DraftTypeOK, FillsHoldTheirRows, [DraftNext]_draftVars,
           NEW t \in Callbacks, Busy(t)
    PROVE  /\ AppOf(t) \in Applications
           /\ jobs'[cb[t].job].ref = AppOf(t)
           /\ procs'[cb[t].job] # "none"
<1>1. cb[t].job \in JobIds /\ procs[cb[t].job] # "none"
  BY BusyIsFilling DEF FillsHoldTheirRows
<1>2. JobsTypeOK /\ JobsTypeOK'
  BY DraftStepIsJobsStep, JobsTypeStep DEF DraftTypeOK
<1>3. jobs[cb[t].job] \in Job /\ jobs[cb[t].job] # NoJob
  BY <1>1, <1>2, RowIsJob DEF JobsTypeOK
<1>4. jobs'[cb[t].job] # NoJob /\ jobs'[cb[t].job].ref = jobs[cb[t].job].ref
  BY <1>1, <1>2, <1>3, DraftStepIsJobsStep, JobsKeepTheirRef
<1> QED
  BY <1>1, <1>2, <1>3, <1>4 DEF AppOf, Job, JobsTypeOK

LEMMA HitIsHits ==
    ASSUME DraftTypeOK, NEW app \in Applications, NEW type \in EmailTypes
    PROVE  /\ Hit(app, type) \in Hits
           /\ Hit(app, type).rank = 0 => Ranks(app, type) = {}
           /\ Hit(app, type).rank # 0 =>
                 /\ Hit(app, type).rank \in Twins
                 /\ drafts[<<app, type, Hit(app, type).rank>>] # NoDraft
                 /\ Hit(app, type).row = drafts[<<app, type, Hit(app, type).rank>>]
<1>1. CASE Ranks(app, type) = {}
  BY <1>1 DEF Hit, Nothing, Hits
<1>2. CASE Ranks(app, type) # {}
  <2> DEFINE n == CHOOSE n \in Ranks(app, type) : TRUE
  <2>1. n \in Ranks(app, type)
    BY <1>2
  <2>2. Hit(app, type) = [rank |-> n, row |-> drafts[<<app, type, n>>]]
    BY <1>2 DEF Hit
  <2> HIDE DEF n
  <2>3. n \in Twins /\ n # 0 /\ drafts[<<app, type, n>>] # NoDraft
    BY <2>1, ColdEmailAssumption DEF Ranks, Twins
  <2>4. drafts[<<app, type, n>>] \in Draft
    BY <2>3, PresentDraft DEF DraftIds
  <2> QED
    BY <2>2, <2>3, <2>4 DEF Hits
<1> QED
  BY <1>1, <1>2

(***************************************************************************)
(* What a commit does to the drafts, row by row.                           *)
(***************************************************************************)
LEMMA CommitOnRow ==
    ASSUME DraftTypeOK, FillsHoldTheirRows, NEW t \in Callbacks, CommitFill(t),
           NEW d \in DraftIds
    PROVE  \/ drafts'[d] = drafts[d]
           \/ /\ d[1] = AppOf(t) /\ d[2] \in cb[t].types
              /\ d[3] = Target(t, d[2])
              /\ cb[t].hits[d[2]].rank = 0
              /\ \E imap \in {cb[t].imap, NoText} :
                    drafts'[d] = NewDraft(Drafted(cb[t].job), imap)
           \/ /\ d[1] = AppOf(t) /\ d[2] \in cb[t].types
              /\ d[3] = Target(t, d[2])
              /\ cb[t].hits[d[2]].rank = d[3]
              /\ drafts[d] \in Draft
              /\ \E imap \in {cb[t].imap, NoText} :
                    drafts'[d] = Overwritten(drafts[d], cb[t].hits[d[2]].row,
                                             Drafted(cb[t].job), imap)
<1>1. Busy(t) /\ cb[t].types \subseteq EmailTypes
  BY BusyIsFilling DEF CommitFill, Busy, Idle
<1>2. CASE ~(d[1] = AppOf(t) /\ d[2] \in cb[t].types /\ d[3] = Target(t, d[2]))
  BY <1>2 DEF CommitFill, Upserted
<1>3. CASE d[1] = AppOf(t) /\ d[2] \in cb[t].types /\ d[3] = Target(t, d[2])
  <2> DEFINE hit == cb[t].hits[d[2]]
             imap == IF d[2] = "initial" THEN cb[t].imap ELSE NoText
  <2>1. drafts'[d] = Upserted(t, d)
    BY <1>3 DEF CommitFill
  <2>2. CASE hit.rank = 0
    <3>1. drafts'[d] = NewDraft(Drafted(cb[t].job), imap)
      BY <1>3, <2>1, <2>2 DEF Upserted
    <3> QED
      BY <1>3, <2>2, <3>1
  <2>3. CASE hit.rank # 0
    <3>1. Slots(t, d[2]) = {hit.rank}
      BY <2>3 DEF Slots
    <3>2. hit.rank \in Nat
      BY <1>1, <1>3, BusyIsFilling, ColdEmailAssumption DEF Hits, Twins
    <3>3. Target(t, d[2]) \in Slots(t, d[2])
      BY <3>1, <3>2 DEF Target
    <3>4. hit.rank = d[3]
      BY <1>3, <3>1, <3>3
    <3>5. d = <<AppOf(t), d[2], hit.rank>>
      BY <1>3, <3>4 DEF DraftIds
    <3>6. drafts[d] \in Draft
      BY <1>1, <1>3, <2>3, <3>5, PresentDraft DEF FillsHoldTheirRows
    <3>7. drafts'[d] = Overwritten(drafts[d], hit.row, Drafted(cb[t].job), imap)
      BY <1>3, <2>1, <2>3 DEF Upserted
    <3> QED
      BY <1>3, <3>4, <3>6, <3>7
  <2> QED
    BY <2>2, <2>3
<1> QED
  BY <1>2, <1>3

-----------------------------------------------------------------------------
(***************************************************************************)
(* Type correctness.                                                       *)
(***************************************************************************)

LEMMA NewDraftIsDraft ==
    ASSUME NEW text \in Text, NEW imap \in Text \union {NoText}
    PROVE  /\ NewDraft(text, imap) \in Draft
           /\ NewDraft(text, imap).status = "draft"
           /\ NewDraft(text, imap).imap = imap
  BY DEF NewDraft, Draft, DraftStatuses

LEMMA OverwrittenIsDraft ==
    ASSUME NEW row \in Draft, NEW was \in Draft \union {NoDraft}, NEW text \in Text,
           NEW imap \in Text \union {NoText}
    PROVE  /\ Overwritten(row, was, text, imap) \in Draft
           /\ Overwritten(row, was, text, imap).status \in {row.status, "draft"}
           /\ Overwritten(row, was, text, imap).status # "draft" => was.status = "draft"
           /\ Overwritten(row, was, text, imap).imap \in {row.imap, imap}
           /\ Overwritten(row, was, text, imap).imap = NoText => row.imap = NoText
<1>1. row.text \in Text /\ row.imap \in Text \union {NoText} /\ row.status \in DraftStatuses
  BY DEF Draft
<1>2. /\ Overwritten(row, was, text, imap).status = Written(row.status, was.status, "draft")
      /\ Overwritten(row, was, text, imap).imap = IF imap = NoText THEN row.imap ELSE imap
  BY DEF Overwritten, Draft
<1>3. /\ Written(row.text, was.text, text) \in Text
      /\ Written(row.status, was.status, "draft") \in DraftStatuses
      /\ (IF imap = NoText THEN row.imap ELSE imap) \in Text \union {NoText}
  BY <1>1 DEF Written, DraftStatuses
<1>4. Overwritten(row, was, text, imap) \in Draft
  BY <1>3 DEF Overwritten, Draft
<1> QED
  BY <1>2, <1>4 DEF Written

(***************************************************************************)
(* What a commit leaves of a row, and of what it appends.                  *)
(***************************************************************************)
LEMMA CommittedRow ==
    ASSUME DraftTypeOK, FillsHoldTheirRows, NEW t \in Callbacks, CommitFill(t),
           NEW d \in DraftIds, drafts'[d] # drafts[d]
    PROVE  /\ drafts'[d] \in Draft
           /\ drafts'[d].status # "draft" =>
                 /\ drafts[d] \in Draft
                 /\ drafts'[d].status = drafts[d].status
                 /\ d[1] = AppOf(t)
                 /\ cb[t].hits[d[2]].rank = d[3]
                 /\ cb[t].hits[d[2]].row.status = "draft"
           /\ \/ drafts'[d].imap \in {NoText, cb[t].imap}
              \/ drafts[d] \in Draft /\ drafts'[d].imap = drafts[d].imap
<1>1. Busy(t)
  BY DEF CommitFill, Busy, Idle
<1>2. /\ cb[t].types \subseteq EmailTypes
      /\ Drafted(cb[t].job) \in Text
      /\ cb[t].imap \in Text \union {NoText}
  BY <1>1, BusyIsFilling, AgentJobsAssumption DEF Drafted, Text, JobIds
<1>3. CASE \E imap \in {cb[t].imap, NoText} :
              drafts'[d] = NewDraft(Drafted(cb[t].job), imap)
  BY <1>2, <1>3, NewDraftIsDraft
<1>4. CASE /\ d[1] = AppOf(t) /\ d[2] \in cb[t].types
           /\ cb[t].hits[d[2]].rank = d[3]
           /\ drafts[d] \in Draft
           /\ \E imap \in {cb[t].imap, NoText} :
                 drafts'[d] = Overwritten(drafts[d], cb[t].hits[d[2]].row,
                                          Drafted(cb[t].job), imap)
  <2>1. PICK imap \in {cb[t].imap, NoText} :
          drafts'[d] = Overwritten(drafts[d], cb[t].hits[d[2]].row, Drafted(cb[t].job), imap)
    BY <1>4
  <2>2. cb[t].hits[d[2]].row \in Draft \union {NoDraft}
    BY <1>1, <1>2, <1>4, BusyIsFilling DEF Hits
  <2>3. imap \in Text \union {NoText} /\ Drafted(cb[t].job) \in Text
    BY <1>2, <2>1
  <2>4. /\ drafts'[d] \in Draft
        /\ drafts'[d].status \in {drafts[d].status, "draft"}
        /\ drafts'[d].status # "draft" => cb[t].hits[d[2]].row.status = "draft"
        /\ drafts'[d].imap \in {drafts[d].imap, imap}
    <3> DEFINE row == drafts[d]
               was == cb[t].hits[d[2]].row
               text == Drafted(cb[t].job)
    <3>1. /\ row \in Draft /\ was \in Draft \union {NoDraft} /\ text \in Text
          /\ drafts'[d] = Overwritten(row, was, text, imap)
      BY <1>4, <2>1, <2>2, <2>3
    <3> HIDE DEF row, was, text
    <3>2. /\ Overwritten(row, was, text, imap) \in Draft
          /\ Overwritten(row, was, text, imap).status \in {row.status, "draft"}
          /\ Overwritten(row, was, text, imap).status # "draft" => was.status = "draft"
          /\ Overwritten(row, was, text, imap).imap \in {row.imap, imap}
      BY <2>3, <3>1, OverwrittenIsDraft
    <3> QED
      BY <3>1, <3>2 DEF row, was
  <2> QED
    BY <1>4, <2>1, <2>4
<1> QED
  BY <1>3, <1>4, CommitOnRow

LEMMA UserRow ==
    ASSUME DraftTypeOK, NEW d \in DraftIds, User(d)
    PROVE  /\ drafts[d] \in Draft
           /\ drafts'[d] \in Draft
           /\ drafts'[d].imap = drafts[d].imap
           /\ \A e \in DraftIds \ {d} : drafts'[e] = drafts[e]
           /\ DOMAIN drafts' = DraftIds
           /\ drafts'[d].text # drafts[d].text => drafts'[d].status = "edited"
           /\ drafts'[d].status = "approved" => ApproveEmail(d)
           /\ UNCHANGED <<cb, folder, crossed>>
           /\ raced' = raced \/ ApproveEmail(d)
<1>1. drafts[d] \in Draft /\ DOMAIN drafts = DraftIds
  BY PresentDraft DEF User, EditEmail, ApproveEmail, MarkSent, DraftTypeOK
<1>2. Edits(d) \subseteq Text
  BY <1>1, ColdEmailAssumption DEF Edits, Typed, Text, Draft
<1>3. CASE ApproveEmail(d)
  BY <1>1, <1>3 DEF ApproveEmail, Draft, DraftStatuses
<1>4. CASE MarkSent(d)
  BY <1>1, <1>4 DEF MarkSent, Draft, DraftStatuses
<1>5. ASSUME NEW text \in Edits(d), EditEmail(d, text)
      PROVE  /\ drafts'[d] \in Draft
             /\ drafts'[d].imap = drafts[d].imap
             /\ drafts'[d].status = "edited"
  BY <1>1, <1>2, <1>5 DEF EditEmail, Draft, DraftStatuses
<1>6. ASSUME NEW text \in Edits(d), EditEmail(d, text)
      PROVE  /\ \A e \in DraftIds \ {d} : drafts'[e] = drafts[e]
             /\ DOMAIN drafts' = DraftIds
             /\ UNCHANGED <<cb, folder, crossed, raced>>
  BY <1>1, <1>6 DEF EditEmail
<1> QED
  BY <1>1, <1>3, <1>4, <1>5, <1>6 DEF User

(***************************************************************************)
(* What each kind of step does to the threads.                             *)
(***************************************************************************)
LEMMA BeginFillThread ==
    ASSUME DraftTypeOK, NEW t \in Callbacks, NEW j \in JobIds, NEW types \in Results,
           BeginFill(t, j, types)
    PROVE  /\ ~Busy(t)
           /\ jobs[j] \in Job /\ jobs[j].ref \in Applications /\ procs[j] # "none"
           /\ UNCHANGED <<jobs, procs, drafts, folder, raced>>
           /\ cb' \in [Callbacks -> Filling \union {Idle}]
           /\ \A u \in Callbacks \ {t} : cb'[u] = cb[u]
           /\ cb'[t] \in Filling
           /\ cb'[t].job = j /\ cb'[t].types = types /\ cb'[t].imap = NoText
           /\ cb'[t].pc = "save" => types \subseteq {"initial"}
           /\ \A type \in EmailTypes :
                 cb'[t].hits[type] = IF type \in types \intersect {"initial"}
                                     THEN Hit(jobs[j].ref, type) ELSE Nothing
           /\ crossed' = IF \E u \in Callbacks : Busy(u) /\ AppOf(u) = jobs[j].ref
                         THEN crossed \union {jobs[j].ref} ELSE crossed
<1>1. ~Busy(t) /\ procs[j] # "none" /\ types \subseteq EmailTypes
  BY ColdEmailAssumption DEF BeginFill, MayCallBack
<1>2. jobs[j] \in Job /\ jobs[j].ref \in Applications /\ jobs[j].status \in JobStatuses
  BY <1>1, RowIsJob DEF DraftTypeOK, Job
<1> DEFINE pc == IF types \intersect {"initial"} # {} /\ jobs[j].ref \in HasContact
                 THEN "imap" ELSE Onward(types)
           hits == [type \in EmailTypes |-> IF type \in types \intersect {"initial"}
                                            THEN Hit(jobs[j].ref, type) ELSE Nothing]
           jobWas == jobs[j].status
<1>3. cb' = [cb EXCEPT ![t] = [pc |-> pc, job |-> j, types |-> types, hits |-> hits,
                               jobWas |-> jobWas, imap |-> NoText]]
  BY DEF BeginFill
<1>4. pc \in {"imap", "find", "save"} /\ (pc = "save" => types \subseteq {"initial"})
  BY DEF Onward
<1>5. hits \in [EmailTypes -> Hits]
  <2>1. Nothing \in Hits
    BY DEF Nothing, Hits
  <2> QED
    BY <1>2, <2>1, HitIsHits
<1>6. \A type \in EmailTypes : hits[type] = IF type \in types \intersect {"initial"}
                                            THEN Hit(jobs[j].ref, type) ELSE Nothing
  OBVIOUS
<1> HIDE DEF pc, hits, jobWas
<1>7. [pc |-> pc, job |-> j, types |-> types, hits |-> hits, jobWas |-> jobWas,
       imap |-> NoText] \in Filling
  BY <1>2, <1>4, <1>5 DEF Filling, jobWas
<1>8. DOMAIN cb = Callbacks /\ cb \in [Callbacks -> Filling \union {Idle}]
  BY DEF DraftTypeOK
<1>9. /\ UNCHANGED <<jobs, procs, drafts, folder, raced>>
      /\ crossed' = IF \E u \in Callbacks : Busy(u) /\ AppOf(u) = jobs[j].ref
                    THEN crossed \union {jobs[j].ref} ELSE crossed
  BY DEF BeginFill
<1> QED
  BY <1>1, <1>2, <1>3, <1>4, <1>6, <1>7, <1>8, <1>9

LEMMA AppendThread ==
    ASSUME DraftTypeOK, NEW t \in Callbacks, AppendDraft(t) \/ AppendFails(t)
    PROVE  /\ Busy(t) /\ cb[t].pc = "imap"
           /\ UNCHANGED <<jobs, procs, drafts, raced, crossed>>
           /\ folder \subseteq folder' /\ folder' \subseteq Text
           /\ cb' \in [Callbacks -> Filling \union {Idle}]
           /\ \A u \in Callbacks \ {t} : cb'[u] = cb[u]
           /\ cb'[t].job = cb[t].job /\ cb'[t].types = cb[t].types
           /\ cb'[t].hits = cb[t].hits
           /\ cb'[t].pc = "save" => cb[t].types \subseteq {"initial"}
           /\ cb'[t].imap = cb[t].imap \/ cb'[t].imap \in folder'
<1>1. Busy(t) /\ cb[t].pc = "imap"
  BY DEF AppendDraft, AppendFails, Busy, Idle
<1>2. cb[t] \in Filling /\ cb \in [Callbacks -> Filling \union {Idle}] /\ folder \subseteq Text
  BY <1>1, BusyIsFilling DEF DraftTypeOK
<1>3. Drafted(cb[t].job) \in Text
  BY <1>1, BusyIsFilling, AgentJobsAssumption DEF Drafted, Text, JobIds
<1>4. Onward(cb[t].types) \in {"imap", "find", "save"}
  BY DEF Onward
<1>5. Onward(cb[t].types) = "save" => cb[t].types \subseteq {"initial"}
  BY DEF Onward
<1>6. CASE AppendDraft(t)
  BY <1>1, <1>2, <1>3, <1>4, <1>5, <1>6 DEF AppendDraft, Filling
<1>7. CASE AppendFails(t)
  BY <1>1, <1>2, <1>3, <1>4, <1>5, <1>7 DEF AppendFails, Filling
<1> QED
  BY <1>6, <1>7

LEMMA FindThread ==
    ASSUME DraftTypeOK, FillsHoldTheirRows, NEW t \in Callbacks, FindFollowUps(t)
    PROVE  /\ Busy(t) /\ cb[t].pc = "find"
           /\ UNCHANGED <<jobs, procs, drafts, folder, raced, crossed>>
           /\ cb' \in [Callbacks -> Filling \union {Idle}]
           /\ \A u \in Callbacks \ {t} : cb'[u] = cb[u]
           /\ cb'[t].job = cb[t].job /\ cb'[t].types = cb[t].types
           /\ cb'[t].imap = cb[t].imap
           /\ \A type \in EmailTypes :
                 cb'[t].hits[type] = IF type \in cb[t].types \ {"initial"}
                                     THEN Hit(AppOf(t), type) ELSE cb[t].hits[type]
<1>1. Busy(t) /\ cb[t].pc = "find"
  BY DEF FindFollowUps, Busy, Idle
<1>2. cb[t] \in Filling /\ cb \in [Callbacks -> Filling \union {Idle}]
  BY <1>1, BusyIsFilling DEF DraftTypeOK
<1>3. AppOf(t) \in Applications
  <2>1. cb[t].job \in JobIds /\ procs[cb[t].job] # "none"
    BY <1>1, BusyIsFilling DEF FillsHoldTheirRows
  <2> QED
    BY <2>1, RowIsJob DEF AppOf, DraftTypeOK, Job
<1> DEFINE hits == [type \in EmailTypes |-> IF type \in FollowUps(t)
                                            THEN Hit(AppOf(t), type) ELSE cb[t].hits[type]]
<1>4. hits \in [EmailTypes -> Hits]
  BY <1>1, <1>3, BusyIsFilling, HitIsHits
<1>5. \A type \in EmailTypes : hits[type] = IF type \in FollowUps(t)
                                            THEN Hit(AppOf(t), type) ELSE cb[t].hits[type]
  OBVIOUS
<1>6. cb' = [cb EXCEPT ![t].pc = "save", ![t].hits = hits]
  BY <1>1, <1>2 DEF FindFollowUps, Filling
<1> HIDE DEF hits
<1>7. /\ cb' \in [Callbacks -> Filling \union {Idle}]
      /\ \A u \in Callbacks \ {t} : cb'[u] = cb[u]
      /\ cb'[t].job = cb[t].job /\ cb'[t].types = cb[t].types
      /\ cb'[t].imap = cb[t].imap /\ cb'[t].hits = hits
  BY <1>2, <1>4, <1>6 DEF Filling
<1> QED
  BY <1>1, <1>5, <1>7 DEF FindFollowUps, FollowUps

\* A thread whose completion is over, or dead with the container.
LEMMA EndThread ==
    ASSUME DraftTypeOK, NEW T \in SUBSET Callbacks,
           cb' = [t \in Callbacks |-> IF t \in T THEN Idle ELSE cb[t]]
    PROVE  /\ cb' \in [Callbacks -> Filling \union {Idle}]
           /\ \A u \in Callbacks : Busy(u)' => cb'[u] = cb[u] /\ Busy(u) /\ u \notin T
  BY DEF DraftTypeOK, Busy

(***************************************************************************)
(* The kinds of steps: what they leave alone, and what the lemmas above    *)
(* say of the rest.                                                        *)
(***************************************************************************)
LEMMA Ending ==
    ASSUME DraftTypeOK, NEW t \in Callbacks, FindRaises(t) \/ CommitFill(t)
    PROVE  /\ Busy(t)
           /\ cb' \in [Callbacks -> Filling \union {Idle}]
           /\ \A u \in Callbacks : Busy(u)' => cb'[u] = cb[u] /\ Busy(u) /\ u # t
           /\ UNCHANGED <<folder, want, crossed, raced>>
<1>1. Busy(t)
  BY DEF FindRaises, CommitFill, Busy, Idle
<1>2. cb' = [u \in Callbacks |-> IF u \in {t} THEN Idle ELSE cb[u]]
  BY DEF FindRaises, CommitFill, DraftTypeOK
<1>3. /\ cb' \in [Callbacks -> Filling \union {Idle}]
      /\ \A u \in Callbacks : Busy(u)' => cb'[u] = cb[u] /\ Busy(u) /\ u \notin {t}
  BY <1>2, EndThread
<1> QED
  BY <1>1, <1>3 DEF FindRaises, CommitFill

LEMMA Restarting ==
    ASSUME DraftTypeOK, Restart
    PROVE  /\ cb' \in [Callbacks -> Filling \union {Idle}]
           /\ \A u \in Callbacks : ~Busy(u)'
           /\ UNCHANGED <<drafts, folder, want, crossed, raced>>
<1>1. cb' = [u \in Callbacks |-> IF u \in Callbacks THEN Idle ELSE cb[u]]
  BY DEF Restart
<1> QED
  BY <1>1, EndThread DEF Restart

LEMMA Skilled ==
    ASSUME NEW j \in JobIds, Skill(j)
    PROVE  UNCHANGED <<drafts, cb, folder, crossed, raced>>
  BY DEF Skill, GenerateEmails, SpawnEnds, SkillElse

LEMMA DraftTypeStep ==
    ASSUME DraftTypeOK, FillsHoldTheirRows, [DraftNext]_draftVars
    PROVE  DraftTypeOK'
<1> USE DEF DraftTypeOK
<1>1. JobsTypeOK'
  BY DraftStepIsJobsStep, JobsTypeStep
<1>2. want' \in [JobIds -> Asked \union {"all"}]
  <2>1. ASSUME NEW j \in JobIds, Skill(j)
        PROVE  want' \in [JobIds -> Asked \union {"all"}]
    BY <2>1 DEF Skill, GenerateEmails, SpawnEnds, SkillElse
  <2>2. ASSUME NEW t \in Callbacks, Fill(t)
        PROVE  want' = want
    BY <2>2 DEF Fill, BeginFill, AppendDraft, AppendFails, FindFollowUps, FindRaises, CommitFill
  <2>3. ASSUME NEW d \in DraftIds, User(d)
        PROVE  want' = want
    BY <2>3 DEF User, EditEmail, ApproveEmail, MarkSent
  <2> QED
    BY <2>1, <2>2, <2>3 DEF DraftNext, Restart, draftVars
<1> DEFINE Rest == /\ drafts' \in [DraftIds -> Draft \union {NoDraft}]
                   /\ cb' \in [Callbacks -> Filling \union {Idle}]
                   /\ folder' \subseteq Text
                   /\ crossed' \subseteq Applications
                   /\ raced' \subseteq DraftIds
<1>3. ASSUME NEW j \in JobIds, Skill(j)
      PROVE  Rest
  BY <1>3, Skilled
<1>4. ASSUME NEW t \in Callbacks, NEW j \in JobIds, NEW types \in Results, BeginFill(t, j, types)
      PROVE  Rest
  BY <1>4, BeginFillThread
<1>5. ASSUME NEW t \in Callbacks, AppendDraft(t) \/ AppendFails(t)
      PROVE  Rest
  BY <1>5, AppendThread
<1>6. ASSUME NEW t \in Callbacks, FindFollowUps(t)
      PROVE  Rest
  BY <1>6, FindThread
<1>7. ASSUME NEW t \in Callbacks, FindRaises(t)
      PROVE  Rest
  BY <1>7, Ending DEF FindRaises
<1>8. ASSUME NEW t \in Callbacks, CommitFill(t)
      PROVE  Rest
  <2>1. \A d \in DraftIds : drafts'[d] \in Draft \union {NoDraft}
    BY <1>8, CommittedRow
  <2>2. drafts' = [d \in DraftIds |-> drafts'[d]]
    BY <1>8 DEF CommitFill
  <2> QED
    BY <1>8, <2>1, <2>2, Ending
<1>9. ASSUME NEW d \in DraftIds, User(d)
      PROVE  Rest
  <2>1. drafts' \in [DraftIds -> Draft \union {NoDraft}]
    <3>1. drafts' = [e \in DraftIds |-> drafts'[e]]
      BY <1>9 DEF User, EditEmail, ApproveEmail, MarkSent
    <3> QED
      BY <1>9, <3>1, UserRow
  <2>2. raced' \subseteq DraftIds
    BY <1>9, UserRow DEF ApproveEmail
  <2> QED
    BY <1>9, <2>1, <2>2, UserRow
<1>10. ASSUME Restart
       PROVE  Rest
  BY <1>10, Restarting
<1>11. ASSUME UNCHANGED draftVars
       PROVE  Rest
  BY <1>11 DEF draftVars
<1>12. Rest
  BY <1>3, <1>4, <1>5, <1>6, <1>7, <1>8, <1>9, <1>10, <1>11 DEF DraftNext, Fill
<1> QED
  BY <1>1, <1>2, <1>12

-----------------------------------------------------------------------------
(***************************************************************************)
(* The other parts of the invariant.                                       *)
(***************************************************************************)

\* Rows never disappear.
LEMMA DraftsStay ==
    ASSUME DraftTypeOK, FillsHoldTheirRows, [DraftNext]_draftVars,
           NEW d \in DraftIds, drafts[d] # NoDraft
    PROVE  drafts'[d] # NoDraft
<1>1. NoDraft \notin Draft
  BY DEF NoDraft, Draft, Text, NoText
<1>2. ASSUME NEW e \in DraftIds, User(e)
      PROVE  drafts'[d] # NoDraft
  BY <1>1, <1>2, UserRow
<1>3. ASSUME NEW t \in Callbacks, CommitFill(t)
      PROVE  drafts'[d] # NoDraft
  BY <1>1, <1>3, CommittedRow
<1>4. ASSUME NEW t \in Callbacks, Fill(t), ~CommitFill(t)
      PROVE  drafts' = drafts
  BY <1>4 DEF Fill, BeginFill, AppendDraft, AppendFails, FindFollowUps, FindRaises
<1> QED
  BY <1>2, <1>3, <1>4, Skilled, Restarting DEF DraftNext, draftVars

\* Threads that are busy after a step: the one that has begun, or any that goes on.
LEMMA ThreadCases ==
    ASSUME DraftTypeOK, FillsHoldTheirRows, [DraftNext]_draftVars,
           NEW t \in Callbacks, Busy(t)'
    PROVE  \/ \E j \in JobIds, types \in Results : BeginFill(t, j, types)
           \/ /\ Busy(t)
              /\ AppendDraft(t) \/ AppendFails(t)
           \/ Busy(t) /\ FindFollowUps(t)
           \/ Busy(t) /\ cb'[t] = cb[t]
<1>1. ASSUME NEW u \in Callbacks, Fill(u)
      PROVE  \/ \E j \in JobIds, types \in Results : BeginFill(t, j, types)
             \/ /\ Busy(t)
                /\ AppendDraft(t) \/ AppendFails(t)
             \/ Busy(t) /\ FindFollowUps(t)
             \/ Busy(t) /\ cb'[t] = cb[t]
  <2>1. CASE \E j \in JobIds, types \in Results : BeginFill(u, j, types)
    BY <2>1, BeginFillThread DEF Busy
  <2>2. CASE AppendDraft(u) \/ AppendFails(u)
    BY <2>2, AppendThread DEF Busy
  <2>3. CASE FindFollowUps(u)
    BY <2>3, FindThread DEF Busy
  <2>4. CASE FindRaises(u) \/ CommitFill(u)
    BY <2>4, Ending
  <2> QED
    BY <1>1, <2>1, <2>2, <2>3, <2>4 DEF Fill
<1>2. ASSUME NEW d \in DraftIds, User(d)
      PROVE  Busy(t) /\ cb'[t] = cb[t]
  BY <1>2, UserRow DEF Busy
<1>3. ASSUME NEW j \in JobIds, Skill(j)
      PROVE  Busy(t) /\ cb'[t] = cb[t]
  BY <1>3, Skilled DEF Busy
<1>4. ASSUME UNCHANGED draftVars
      PROVE  Busy(t) /\ cb'[t] = cb[t]
  BY <1>4 DEF Busy, draftVars
<1> QED
  BY <1>1, <1>2, <1>3, <1>4, Restarting DEF DraftNext

\* A thread that goes on keeps its job, its types and its application.
LEMMA ThreadGoesOn ==
    ASSUME DraftTypeOK, FillsHoldTheirRows, [DraftNext]_draftVars,
           NEW t \in Callbacks, Busy(t), Busy(t)'
    PROVE  /\ cb'[t].job = cb[t].job /\ cb'[t].types = cb[t].types
           /\ AppOf(t)' = AppOf(t) /\ AppOf(t) \in Applications
           /\ procs'[cb'[t].job] # "none"
<1>1. cb'[t].job = cb[t].job /\ cb'[t].types = cb[t].types
  BY ThreadCases, BeginFillThread, AppendThread, FindThread
<1> QED
  BY <1>1, AppStays DEF AppOf

LEMMA HoldStep ==
    ASSUME DraftTypeOK, FillsHoldTheirRows, [DraftNext]_draftVars
    PROVE  FillsHoldTheirRows'
<1> SUFFICES ASSUME NEW t \in Callbacks, Busy(t)'
             PROVE  /\ procs'[cb'[t].job] # "none"
                    /\ \A type \in EmailTypes :
                          cb'[t].hits[type].rank # 0 =>
                            drafts'[<<AppOf(t)', type, cb'[t].hits[type].rank>>] # NoDraft
  BY DEF FillsHoldTheirRows
<1>1. ASSUME NEW j \in JobIds, NEW types \in Results, BeginFill(t, j, types)
      PROVE  /\ procs'[cb'[t].job] # "none"
             /\ \A type \in EmailTypes :
                   cb'[t].hits[type].rank # 0 =>
                     drafts'[<<AppOf(t)', type, cb'[t].hits[type].rank>>] # NoDraft
  <2>1. AppOf(t)' = jobs[j].ref /\ procs'[cb'[t].job] # "none" /\ drafts' = drafts
        /\ jobs[j].ref \in Applications
    BY <1>1, BeginFillThread DEF AppOf
  <2>2. ASSUME NEW type \in EmailTypes, cb'[t].hits[type].rank # 0
        PROVE  cb'[t].hits[type] = Hit(jobs[j].ref, type)
    BY <1>1, <2>2, BeginFillThread DEF Nothing
  <2> QED
    BY <2>1, <2>2, HitIsHits
<1>2. CASE Busy(t)
  <2>1. AppOf(t)' = AppOf(t) /\ AppOf(t) \in Applications /\ procs'[cb'[t].job] # "none"
    BY <1>2, ThreadGoesOn
  <2>2. ASSUME NEW type \in EmailTypes, cb'[t].hits[type].rank # 0
        PROVE  drafts'[<<AppOf(t), type, cb'[t].hits[type].rank>>] # NoDraft
    <3>1. CASE cb'[t].hits[type] = cb[t].hits[type]
      <4>1. cb[t].hits[type].rank \in Twins
        BY <1>2, <2>2, <3>1, BusyIsFilling DEF Hits
      <4> QED
        BY <1>2, <2>1, <2>2, <3>1, <4>1, DraftsStay DEF FillsHoldTheirRows, DraftIds
    <3>2. CASE FindFollowUps(t) /\ cb'[t].hits[type] = Hit(AppOf(t), type)
      BY <2>1, <2>2, <3>2, HitIsHits, FindThread
    <3> QED
      BY <1>2, <3>1, <3>2, ThreadCases, BeginFillThread, AppendThread, FindThread
  <2> QED
    BY <2>1, <2>2
<1> QED
  BY <1>1, <1>2, ThreadCases

\* The folder only fills up, and only appends touch it.
LEMMA FolderGrows ==
    ASSUME DraftTypeOK, FillsHoldTheirRows, [DraftNext]_draftVars
    PROVE  folder \subseteq folder'
<1>1. ASSUME NEW t \in Callbacks, Fill(t)
      PROVE  folder \subseteq folder'
  BY <1>1, AppendThread, Ending DEF Fill, BeginFill, FindFollowUps
<1>2. ASSUME NEW d \in DraftIds, User(d)
      PROVE  folder \subseteq folder'
  BY <1>2, UserRow
<1> QED
  BY <1>1, <1>2, Skilled, Restarting DEF DraftNext, draftVars

LEMMA CopiesStep ==
    ASSUME DraftTypeOK, FillsHoldTheirRows, CopiesAreFiled, [DraftNext]_draftVars
    PROVE  CopiesAreFiled'
<1> SUFFICES ASSUME NEW t \in Callbacks, Busy(t)', cb'[t].imap # NoText
             PROVE  cb'[t].imap \in folder'
  BY DEF CopiesAreFiled, NoText
<1>1. ASSUME NEW j \in JobIds, NEW types \in Results, BeginFill(t, j, types)
      PROVE  FALSE
  BY <1>1, BeginFillThread
<1>2. CASE Busy(t) /\ cb'[t].imap = cb[t].imap
  BY <1>2, FolderGrows DEF CopiesAreFiled
<1>3. CASE AppendDraft(t) \/ AppendFails(t)
  BY <1>3, <1>2, AppendThread
<1> QED
  BY <1>1, <1>2, <1>3, ThreadCases, FindThread

LEMMA ImapLinkStep ==
    ASSUME DraftTypeOK, FillsHoldTheirRows, CopiesAreFiled, ImapLinkHasCopy,
           [DraftNext]_draftVars
    PROVE  ImapLinkHasCopy'
<1> SUFFICES ASSUME NEW d \in DraftIds, drafts'[d] # NoDraft, drafts'[d].imap # NoText
             PROVE  drafts'[d].imap \in folder'
  BY DEF ImapLinkHasCopy, NoText, NoDraft
<1>1. NoDraft \notin Draft
  BY DEF NoDraft, Draft, Text, NoText
<1>2. CASE drafts[d] # NoDraft /\ drafts'[d].imap = drafts[d].imap
  BY <1>2, FolderGrows DEF ImapLinkHasCopy
<1>3. ASSUME NEW e \in DraftIds, User(e)
      PROVE  drafts[d] # NoDraft /\ drafts'[d].imap = drafts[d].imap
  BY <1>1, <1>3, UserRow
<1>4. ASSUME NEW t \in Callbacks, CommitFill(t)
      PROVE  drafts'[d].imap \in folder'
  <2>1. Busy(t)
    BY <1>4, Ending
  <2>2. CASE drafts'[d].imap = cb[t].imap
    BY <2>1, <2>2, FolderGrows DEF CopiesAreFiled
  <2> QED
    BY <1>1, <1>2, <1>4, <2>2, CommittedRow
<1>5. ASSUME NEW t \in Callbacks, Fill(t), ~CommitFill(t)
      PROVE  drafts' = drafts
  BY <1>5 DEF Fill, BeginFill, AppendDraft, AppendFails, FindFollowUps, FindRaises
<1> QED
  BY <1>2, <1>3, <1>4, <1>5, Skilled, Restarting DEF DraftNext, draftVars

\* While a completion is alone with its application, it alone inserts rows of it.
LEMMA RanksStay ==
    ASSUME DraftTypeOK, FillsHoldTheirRows, [DraftNext]_draftVars,
           NEW app \in Applications, NEW type \in EmailTypes,
           \A t \in Callbacks : CommitFill(t) => AppOf(t) # app
    PROVE  Ranks(app, type)' = Ranks(app, type)
<1> SUFFICES ASSUME NEW n \in Twins
             PROVE  drafts'[<<app, type, n>>] = NoDraft <=> drafts[<<app, type, n>>] = NoDraft
  BY DEF Ranks
<1> DEFINE d == <<app, type, n>>
<1>1. d \in DraftIds /\ NoDraft \notin Draft
  BY DEF DraftIds, NoDraft, Draft, Text, NoText
<1>2. ASSUME NEW e \in DraftIds, User(e)
      PROVE  drafts'[d] = NoDraft <=> drafts[d] = NoDraft
  BY <1>1, <1>2, UserRow
<1>3. ASSUME NEW t \in Callbacks, CommitFill(t)
      PROVE  drafts'[d] = drafts[d]
  BY <1>1, <1>3 DEF CommitFill
<1>4. ASSUME NEW t \in Callbacks, Fill(t), ~CommitFill(t)
      PROVE  drafts' = drafts
  BY <1>4 DEF Fill, BeginFill, AppendDraft, AppendFails, FindFollowUps, FindRaises
<1> QED
  BY <1>2, <1>3, <1>4, Skilled, Restarting DEF DraftNext, draftVars

\* A step puts an application into crossed when a second completion begins, and never back.
LEMMA CrossedGrows ==
    ASSUME DraftTypeOK, [DraftNext]_draftVars
    PROVE  crossed \subseteq crossed'
<1>1. ASSUME NEW t \in Callbacks, Fill(t)
      PROVE  crossed \subseteq crossed'
  BY <1>1, BeginFillThread, AppendThread, Ending DEF Fill, FindFollowUps
<1>2. ASSUME NEW d \in DraftIds, User(d)
      PROVE  crossed \subseteq crossed'
  BY <1>2, UserRow
<1> QED
  BY <1>1, <1>2, Skilled, Restarting DEF DraftNext, draftVars

LEMMA AloneStep ==
    ASSUME DraftTypeOK, FillsHoldTheirRows, LooksAreCurrent, [DraftNext]_draftVars,
           NEW t \in Callbacks, NEW u \in Callbacks, Busy(t)', Busy(u)',
           AppOf(t)' = AppOf(u)', AppOf(t)' \notin crossed'
    PROVE  u = t
<1>1. CASE Busy(t) /\ Busy(u)
  BY <1>1, ThreadGoesOn, CrossedGrows DEF LooksAreCurrent
<1>2. ASSUME NEW v \in Callbacks, NEW w \in Callbacks, ~Busy(v), Busy(w), Busy(v)', Busy(w)',
             AppOf(v)' = AppOf(w)', AppOf(v)' \notin crossed'
      PROVE  FALSE
  <2>1. PICK j \in JobIds, types \in Results : BeginFill(v, j, types)
    BY <1>2, ThreadCases
  <2>2. AppOf(v)' = jobs[j].ref
    BY <2>1, BeginFillThread DEF AppOf
  <2>3. AppOf(w)' = AppOf(w)
    BY <1>2, ThreadGoesOn
  <2> QED
    <3>1. AppOf(w) = jobs[j].ref
      BY <1>2, <2>2, <2>3
    <3>2. crossed' = IF \E x \in Callbacks : Busy(x) /\ AppOf(x) = jobs[j].ref
                     THEN crossed \union {jobs[j].ref} ELSE crossed
      BY <2>1, BeginFillThread
    <3>3. jobs[j].ref \in crossed'
      BY <1>2, <3>1, <3>2
    <3> QED
      BY <1>2, <2>2, <3>3
<1>3. CASE ~Busy(t) /\ ~Busy(u)
  <2>1. PICK j \in JobIds, types \in Results : BeginFill(t, j, types)
    BY <1>3, ThreadCases
  <2>2. u # t => cb'[u] = cb[u]
    BY <2>1, BeginFillThread
  <2> QED
    BY <1>3, <2>2 DEF Busy
<1> QED
  BY <1>1, <1>2, <1>3

LEMMA LooksStep ==
    ASSUME DraftTypeOK, FillsHoldTheirRows, LooksAreCurrent, [DraftNext]_draftVars
    PROVE  LooksAreCurrent'
<1> SUFFICES ASSUME NEW t \in Callbacks, Busy(t)', AppOf(t)' \notin crossed',
                    NEW type \in LookedUp(t)', cb'[t].hits[type].rank = 0
             PROVE  Ranks(AppOf(t), type)' = {}
  BY AloneStep DEF LooksAreCurrent
<1>0. DraftTypeOK' /\ type \in EmailTypes
  <2>1. DraftTypeOK'
    BY DraftTypeStep
  <2>2. cb'[t] \in Filling
    BY <2>1 DEF DraftTypeOK, Busy
  <2>3. cb'[t].types \in Results
    BY <2>2 DEF Filling
  <2> QED
    BY <2>1, <2>3, ColdEmailAssumption DEF LookedUp
<1>1. ASSUME NEW j \in JobIds, NEW types \in Results, BeginFill(t, j, types)
      PROVE  Ranks(AppOf(t), type)' = {}
  <2>1. AppOf(t)' = jobs[j].ref /\ drafts' = drafts /\ jobs[j].ref \in Applications
    BY <1>1, BeginFillThread DEF AppOf
  <2>2. type \in types \intersect {"initial"}
    BY <1>1, BeginFillThread DEF LookedUp
  <2>3. cb'[t].hits[type] = Hit(jobs[j].ref, type)
    BY <1>0, <1>1, <2>2, BeginFillThread
  <2> QED
    BY <1>0, <2>1, <2>3, HitIsHits DEF Ranks
<1>2. CASE Busy(t)
  <2>1. AppOf(t)' = AppOf(t) /\ AppOf(t) \in Applications /\ AppOf(t) \notin crossed
    BY <1>2, ThreadGoesOn, CrossedGrows
  <2>2. \A v \in Callbacks : CommitFill(v) => AppOf(v) # AppOf(t)
    <3> SUFFICES ASSUME NEW v \in Callbacks, CommitFill(v), AppOf(v) = AppOf(t)
                 PROVE  FALSE
      OBVIOUS
    <3>1. Busy(v) /\ v # t
      BY Ending
    <3> QED
      BY <1>2, <2>1, <3>1 DEF LooksAreCurrent
  <2>3. Ranks(AppOf(t), type)' = Ranks(AppOf(t), type)
    BY <1>0, <2>1, <2>2, RanksStay
  <2>4. CASE type \in LookedUp(t) /\ cb'[t].hits[type] = cb[t].hits[type]
    BY <1>2, <2>1, <2>3, <2>4 DEF LooksAreCurrent, Ranks
  <2>5. CASE FindFollowUps(t) /\ type \in cb[t].types \ {"initial"}
    <3>1. cb'[t].hits[type] = Hit(AppOf(t), type)
      BY <1>0, <2>5, FindThread
    <3>2. Ranks(AppOf(t), type) = {}
      BY <1>0, <2>1, <3>1, HitIsHits
    <3> QED
      BY <2>3, <3>2
  <2>6. CASE AppendDraft(t) \/ AppendFails(t)
    BY <2>4, <2>6, AppendThread DEF LookedUp
  <2>7. CASE FindFollowUps(t)
    BY <1>0, <2>4, <2>5, <2>7, FindThread DEF LookedUp
  <2>8. CASE cb'[t] = cb[t]
    BY <2>4, <2>8 DEF LookedUp
  <2> QED
    BY <1>2, <2>6, <2>7, <2>8, ThreadCases DEF BeginFill
<1> QED
  BY <1>1, <1>2, ThreadCases

LEMMA OneDraftStep ==
    ASSUME DraftTypeOK, FillsHoldTheirRows, LooksAreCurrent, OneDraftPerType,
           [DraftNext]_draftVars
    PROVE  OneDraftPerType'
<1> SUFFICES ASSUME NEW app \in Applications, app \notin crossed', NEW type \in EmailTypes,
                    NEW m \in Twins, NEW n \in Twins,
                    drafts'[<<app, type, m>>] # NoDraft, drafts'[<<app, type, n>>] # NoDraft
             PROVE  m = n
  BY DEF OneDraftPerType, AtMostOne, Ranks
<1>1. app \notin crossed
  BY CrossedGrows
<1>2. <<app, type, m>> \in DraftIds /\ <<app, type, n>> \in DraftIds
  BY DEF DraftIds
<1>3. ASSUME drafts[<<app, type, m>>] # NoDraft, drafts[<<app, type, n>>] # NoDraft
      PROVE  m = n
  BY <1>1, <1>3 DEF OneDraftPerType, AtMostOne, Ranks
<1>4. CASE \A t \in Callbacks : CommitFill(t) => AppOf(t) # app
  <2>1. Ranks(app, type)' = Ranks(app, type)
    BY <1>4, RanksStay
  <2> QED
    BY <1>3, <2>1 DEF Ranks
<1>5. ASSUME NEW t \in Callbacks, CommitFill(t), AppOf(t) = app
      PROVE  m = n
  <2>1. CASE type \in cb[t].types /\ cb[t].hits[type].rank = 0
    <3>1. Busy(t) /\ type \in LookedUp(t)
      BY <1>5, <2>1 DEF CommitFill, Busy, Idle, LookedUp
    <3>2. Ranks(app, type) = {}
      BY <1>1, <1>5, <2>1, <3>1 DEF LooksAreCurrent
    <3>3. drafts[<<app, type, m>>] = NoDraft /\ drafts[<<app, type, n>>] = NoDraft
      BY <3>2 DEF Ranks
    <3>4. m = Target(t, type)
      BY <1>2, <1>5, <3>3, CommitOnRow
    <3>5. n = Target(t, type)
      BY <1>2, <1>5, <3>3, CommitOnRow
    <3> QED
      BY <3>4, <3>5
  <2>2. CASE ~(type \in cb[t].types /\ cb[t].hits[type].rank = 0)
    <3>1. NoDraft \notin Draft
      BY DEF NoDraft, Draft, Text, NoText
    <3>2. drafts[<<app, type, m>>] # NoDraft
      BY <1>2, <1>5, <2>2, <3>1, CommitOnRow
    <3>3. drafts[<<app, type, n>>] # NoDraft
      BY <1>2, <1>5, <2>2, <3>1, CommitOnRow
    <3> QED
      BY <1>3, <3>2, <3>3
  <2> QED
    BY <2>1, <2>2
<1> QED
  BY <1>4, <1>5

LEMMA RacedStep ==
    ASSUME DraftTypeOK, FillsHoldTheirRows, ApprovalsAreRaced, [DraftNext]_draftVars
    PROVE  ApprovalsAreRaced'
<1> SUFFICES ASSUME NEW t \in Callbacks, NEW type \in EmailTypes, Busy(t)',
                    cb'[t].hits[type].rank # 0,
                    cb'[t].hits[type].row.status = "draft",
                    drafts'[<<AppOf(t)', type, cb'[t].hits[type].rank>>].status = "approved"
             PROVE  <<AppOf(t)', type, cb'[t].hits[type].rank>> \in raced'
  BY DEF ApprovalsAreRaced
<1>1. ASSUME NEW app \in Applications, AppOf(t)' = app, drafts' = drafts,
             cb'[t].hits[type] = Hit(app, type)
      PROVE  FALSE
  BY <1>1, HitIsHits
<1>2. ASSUME NEW j \in JobIds, NEW types \in Results, BeginFill(t, j, types)
      PROVE  FALSE
  <2>1. AppOf(t)' = jobs[j].ref /\ drafts' = drafts /\ jobs[j].ref \in Applications
    BY <1>2, BeginFillThread DEF AppOf
  <2>2. cb'[t].hits[type] = Hit(jobs[j].ref, type)
    BY <1>2, BeginFillThread DEF Nothing
  <2> QED
    BY <1>1, <2>1, <2>2
<1>3. ASSUME Busy(t), FindFollowUps(t), cb'[t].hits[type] # cb[t].hits[type]
      PROVE  FALSE
  <2>1. AppOf(t)' = AppOf(t) /\ AppOf(t) \in Applications
    BY <1>3, ThreadGoesOn
  <2> QED
    BY <1>1, <1>3, <2>1, FindThread
<1>4. ASSUME Busy(t), cb'[t].hits[type] = cb[t].hits[type]
      PROVE  <<AppOf(t)', type, cb'[t].hits[type].rank>> \in raced'
  <2> DEFINE app == AppOf(t)
             n == cb[t].hits[type].rank
             d == <<app, type, n>>
  <2>1. /\ AppOf(t)' = app /\ app \in Applications
        /\ n \in Twins
        /\ n # 0 /\ cb[t].hits[type].row.status = "draft"
    BY <1>4, ThreadGoesOn, BusyIsFilling DEF Hits
  <2>2. d \in DraftIds
    BY <2>1 DEF DraftIds
  <2>3. d = <<AppOf(t)', type, cb'[t].hits[type].rank>>
    BY <1>4, <2>1
  <2>4. drafts[d].status = "approved" => d \in raced
    BY <1>4, <2>1 DEF ApprovalsAreRaced
  <2>5. Held(d)
    BY <1>4, <2>1 DEF Held
  <2>6. ASSUME drafts'[d].status = "approved" PROVE d \in raced'
    <3> HIDE DEF d
    <3>1. ASSUME NEW e \in DraftIds, User(e)
          PROVE  d \in raced'
      <4>1. CASE e = d
        BY <2>2, <2>5, <2>6, <3>1, <4>1, UserRow DEF ApproveEmail
      <4>2. CASE e # d
        <5>1. d \in raced
          BY <2>2, <2>4, <2>6, <3>1, <4>2, UserRow
        <5> QED
          BY <3>1, <4>2, <5>1, UserRow DEF ApproveEmail
      <4> QED
        BY <4>1, <4>2
    <3>2. ASSUME NEW u \in Callbacks, CommitFill(u)
          PROVE  d \in raced'
      BY <2>2, <2>4, <2>6, <3>2, CommittedRow, Ending
    <3>3. ASSUME NEW u \in Callbacks, Fill(u), ~CommitFill(u)
          PROVE  drafts' = drafts /\ raced' = raced
      BY <3>3 DEF Fill, BeginFill, AppendDraft, AppendFails, FindFollowUps, FindRaises
    <3> QED
      BY <2>4, <2>6, <3>1, <3>2, <3>3, Skilled, Restarting DEF DraftNext, draftVars
  <2> QED
    BY <2>3, <2>6
<1> QED
  BY <1>2, <1>3, <1>4, ThreadCases, AppendThread

-----------------------------------------------------------------------------

LEMMA DraftInvInit == DraftInit => DraftInv
<1> SUFFICES ASSUME DraftInit PROVE DraftInv
  OBVIOUS
<1>1. \A t \in Callbacks : ~Busy(t)
  BY DEF DraftInit, Busy
<1>2. DraftTypeOK
  <2>1. JobsTypeOK
    BY DEF DraftInit, JobsInit, JobsTypeOK, NoJob
  <2> QED
    BY <2>1 DEF DraftInit, DraftTypeOK
<1>3. OneDraftPerType /\ ImapLinkHasCopy
  BY DEF DraftInit, OneDraftPerType, AtMostOne, Ranks, ImapLinkHasCopy, DraftIds
<1> QED
  BY <1>1, <1>2, <1>3 DEF DraftInv, FillsHoldTheirRows, LooksAreCurrent, CopiesAreFiled,
     ApprovalsAreRaced

LEMMA DraftInvStep == DraftInv /\ [DraftNext]_draftVars => DraftInv'
  BY DraftTypeStep, HoldStep, LooksStep, OneDraftStep, CopiesStep, ImapLinkStep, RacedStep
     DEF DraftInv

LEMMA DraftInvariance == DraftSpec => []DraftInv
  BY DraftInvInit, DraftInvStep, PTL DEF DraftSpec

(***************************************************************************)
(* The tables, the threads and the folder are of their types.              *)
(***************************************************************************)
THEOREM DraftTyping == DraftSpec => []DraftTypeOK
<1>1. DraftInv => DraftTypeOK
  BY DEF DraftInv
<1> QED
  BY <1>1, DraftInvariance, PTL

(***************************************************************************)
(* However many completions, edits and restarts there are: an application  *)
(* whose completions never crossed has one row per email type.             *)
(***************************************************************************)
THEOREM DraftsAreUpserted == DraftSpec => []OneDraftPerType
<1>1. DraftInv => OneDraftPerType
  BY DEF DraftInv
<1> QED
  BY <1>1, DraftInvariance, PTL

(***************************************************************************)
(* A draft never links to a copy that is not in the Drafts folder.         *)
(***************************************************************************)
THEOREM LinksHold == DraftSpec => []ImapLinkHasCopy
<1>1. DraftInv => ImapLinkHasCopy
  BY DEF DraftInv
<1> QED
  BY <1>1, DraftInvariance, PTL

LEMMA ApprovalStep ==
    ASSUME DraftInv, [DraftNext]_draftVars, NEW d \in DraftIds \ raced,
           drafts[d] # NoDraft, drafts[d].status = "approved",
           drafts'[d].text # drafts[d].text
    PROVE  drafts'[d].status # "approved"
<1> USE DEF DraftInv
<1>1. ASSUME NEW e \in DraftIds, User(e)
      PROVE  drafts'[d].status # "approved"
  BY <1>1, UserRow
<1>2. ASSUME NEW t \in Callbacks, CommitFill(t), drafts'[d].status = "approved"
      PROVE  FALSE
  <2>1. /\ d[1] = AppOf(t)
        /\ cb[t].hits[d[2]].rank = d[3]
        /\ cb[t].hits[d[2]].row.status = "draft"
    BY <1>2, CommittedRow
  <2>2. d = <<AppOf(t), d[2], cb[t].hits[d[2]].rank>> /\ d[2] \in EmailTypes /\ d[3] # 0
    BY <2>1, ColdEmailAssumption DEF DraftIds, Twins
  <2>3. Busy(t)
    BY <1>2, Ending
  <2> QED
    BY <2>1, <2>2, <2>3 DEF ApprovalsAreRaced
<1>3. ASSUME NEW t \in Callbacks, Fill(t), ~CommitFill(t)
      PROVE  drafts' = drafts
  BY <1>3 DEF Fill, BeginFill, AppendDraft, AppendFails, FindFollowUps, FindRaises
<1> QED
  BY <1>1, <1>2, <1>3, Skilled, Restarting DEF DraftNext, draftVars

(***************************************************************************)
(* What the user has approved is not replaced under the approval, unless a *)
(* completion had already loaded the draft.                                *)
(***************************************************************************)
THEOREM ApprovalsHold == DraftSpec => ApprovalCoversText
<1>1. DraftInv /\ [DraftNext]_draftVars =>
        [\A d \in DraftIds \ raced :
           /\ drafts[d] # NoDraft
           /\ drafts[d].status = "approved"
           /\ drafts'[d].text # drafts[d].text
           => drafts'[d].status # "approved"]_drafts
  BY ApprovalStep
<1> QED
  BY <1>1, DraftInvariance, PTL DEF DraftSpec, ApprovalCoversText

(***************************************************************************)
(* What the completions of cold emails do to the jobs is what AgentJobs    *)
(* lets any component do.                                                  *)
(***************************************************************************)
THEOREM DraftsImplementJobs == DraftSpec => JobsSpec
<1>1. DraftInit => JobsInit
  BY DEF DraftInit
<1>2. DraftInv /\ [DraftNext]_draftVars => [JobsNext]_jobVars
  BY DraftStepIsJobsStep DEF DraftInv
<1> QED
  BY <1>1, <1>2, DraftInvariance, PTL DEF DraftSpec, JobsSpec

-----------------------------------------------------------------------------
(***************************************************************************)
(* SentEmail: the inductive invariant.                                     *)
(***************************************************************************)

\* What SentEmail adds to ColdEmail is well typed.
SendTypeOK ==
    /\ apps \in [Applications -> [status: AppStatuses, emailSentAt: BOOLEAN]]
    /\ out \in [DraftIds -> [to: BOOLEAN, sentAt: BOOLEAN]]
    /\ snd \in [Senders -> Sending \union {Idle}]
    /\ mails \in [DraftIds -> 0 .. MaxMails]
    /\ cut \subseteq DraftIds

\* The draft a request is sending is there until the request is over.
SendersHoldTheirDrafts ==
    \A s \in Senders : snd[s] # Idle => drafts[snd[s].draft] # NoDraft

SendInv ==
    /\ DraftTypeOK
    /\ FillsHoldTheirRows
    /\ SendTypeOK
    /\ SendersHoldTheirDrafts
    /\ MailIsRecorded

-----------------------------------------------------------------------------
(***************************************************************************)
(* SentEmail implements ColdEmail.                                         *)
(***************************************************************************)

LEMMA SenderIsSending ==
    ASSUME SendTypeOK, NEW s \in Senders, snd[s] # Idle
    PROVE  snd[s] \in Sending /\ snd[s].draft \in DraftIds
  BY DEF SendTypeOK, Sending

\* A commit writes "sent", or nothing when the draft was sent before.
LEMMA CommitIsMarkSent ==
    ASSUME DraftTypeOK, SendTypeOK, SendersHoldTheirDrafts, NEW s \in Senders, CommitSend(s)
    PROVE  MarkSent(snd[s].draft) \/ UNCHANGED draftVars
<1> DEFINE d == snd[s].draft
<1>1. d \in DraftIds /\ drafts[d] \in Draft /\ drafts[d] # NoDraft
  BY SenderIsSending, PresentDraft DEF CommitSend, Idle, SendersHoldTheirDrafts
<1>2. CASE snd[s].was = "sent"
  <2>1. drafts' = [drafts EXCEPT ![d].status = drafts[d].status]
    BY <1>2 DEF CommitSend, Written
  <2>2. [drafts[d] EXCEPT !.status = drafts[d].status] = drafts[d]
    BY <1>1 DEF Draft
  <2>3. drafts' = drafts
    BY <1>1, <2>1, <2>2 DEF DraftTypeOK
  <2> QED
    BY <2>3 DEF CommitSend, draftVars
<1>3. CASE snd[s].was # "sent"
  <2>1. drafts' = [drafts EXCEPT ![d].status = "sent"]
    BY <1>3 DEF CommitSend, Written
  <2> QED
    BY <1>1, <2>1 DEF CommitSend, MarkSent
<1> QED
  BY <1>2, <1>3

LEMMA SendStepIsDraftStep ==
    ASSUME DraftTypeOK, SendTypeOK, SendersHoldTheirDrafts, [Next]_vars
    PROVE  [DraftNext]_draftVars
<1>1. CASE Drafting
  BY <1>1 DEF Drafting, DraftNext, User
<1>2. ASSUME NEW d \in DraftIds, NoteSent(d)
      PROVE  DraftNext
  BY <1>2 DEF NoteSent, DraftNext, User
<1>3. ASSUME NEW d \in DraftIds, Readdress(d)
      PROVE  DraftNext
  BY <1>3 DEF Readdress, EditRecipient, DraftNext, User
<1>4. ASSUME NEW s \in Senders, Send(s)
      PROVE  [DraftNext]_draftVars
  <2>1. CASE CommitSend(s)
    <3>1. snd[s].draft \in DraftIds
      BY <2>1, SenderIsSending DEF CommitSend, Idle
    <3> QED
      BY <2>1, <3>1, CommitIsMarkSent DEF DraftNext, User
  <2>2. CASE ~CommitSend(s)
    BY <1>4, <2>2 DEF Send, OpenSend, SmtpAccepts, SmtpFails, SmtpReplyLost
  <2> QED
    BY <2>1, <2>2
<1>5. ASSUME NEW app \in Applications, NEW status \in AppStatuses, MoveApplication(app, status)
      PROVE  UNCHANGED draftVars
  BY <1>5 DEF MoveApplication
<1>6. CASE RestartAll
  BY <1>6 DEF RestartAll, DraftNext
<1>7. CASE UNCHANGED vars
  BY <1>7 DEF vars, draftVars
<1> QED
  BY <1>1, <1>2, <1>3, <1>4, <1>5, <1>6, <1>7 DEF Next

-----------------------------------------------------------------------------
(***************************************************************************)
(* What the steps do to applications and mails.                            *)
(***************************************************************************)

LEMMA TransitionKeepsMail ==
    ASSUME NEW app \in [status: AppStatuses, emailSentAt: BOOLEAN], NEW status \in AppStatuses
    PROVE  /\ Transitioned(app, status) \in [status: AppStatuses, emailSentAt: BOOLEAN]
           /\ app.emailSentAt => Transitioned(app, status).emailSentAt
<1>1. CASE app.status = status
  BY <1>1 DEF Transitioned
<1>2. CASE app.status # status
  <2>1. Transitioned(app, status) =
          [app EXCEPT !.status = status, !.emailSentAt = @ \/ status = "email_sent"]
    BY <1>2 DEF Transitioned
  <2>2. (app.emailSentAt \/ status = "email_sent") \in BOOLEAN
    OBVIOUS
  <2>3. Transitioned(app, status).emailSentAt = (app.emailSentAt \/ status = "email_sent")
    BY <2>1
  <2>4. Transitioned(app, status) \in [status: AppStatuses, emailSentAt: BOOLEAN]
    BY <2>1, <2>2
  <2> QED
    BY <2>3, <2>4
<1> QED
  BY <1>1, <1>2

LEMMA CommitRecords ==
    ASSUME SendTypeOK, NEW s \in Senders, CommitSend(s)
    PROVE  /\ SendTypeOK'
           /\ out'[snd[s].draft].sentAt
           /\ apps'[snd[s].draft[1]].emailSentAt
           /\ \A d \in DraftIds : out[d].sentAt => out'[d].sentAt
           /\ \A a \in Applications : apps[a].emailSentAt => apps'[a].emailSentAt
<1> DEFINE App == [status: AppStatuses, emailSentAt: BOOLEAN]
           d == snd[s].draft
           a == d[1]
           stamped == [apps[a] EXCEPT !.emailSentAt = TRUE]
<1>1. d \in DraftIds /\ a \in Applications
  BY SenderIsSending DEF CommitSend, Idle, DraftIds
<1>2. stamped \in App /\ stamped.emailSentAt
  BY <1>1 DEF SendTypeOK
<1>3. apps' = [apps EXCEPT ![a] = Transitioned(stamped, "applied")]
  BY DEF CommitSend, Record
<1> HIDE DEF stamped
<1>4. /\ Transitioned(stamped, "applied") \in App
      /\ Transitioned(stamped, "applied").emailSentAt
  BY <1>2, TransitionKeepsMail, SentEmailAssumption
<1>5. /\ apps' \in [Applications -> App]
      /\ apps'[a].emailSentAt
      /\ \A b \in Applications : apps[b].emailSentAt => apps'[b].emailSentAt
  BY <1>1, <1>3, <1>4 DEF SendTypeOK
<1>6. out' = [out EXCEPT ![d].sentAt = TRUE]
  BY DEF CommitSend, Record
<1>7. /\ out' \in [DraftIds -> [to: BOOLEAN, sentAt: BOOLEAN]]
      /\ out'[d].sentAt
      /\ \A e \in DraftIds : out[e].sentAt => out'[e].sentAt
  BY <1>1, <1>6 DEF SendTypeOK
<1>8. snd' = [snd EXCEPT ![s] = Idle] /\ mails' = mails /\ cut' = cut
  BY DEF CommitSend
<1> QED
  BY <1>5, <1>7, <1>8 DEF SendTypeOK

LEMMA SendTypeStep ==
    ASSUME DraftTypeOK, SendTypeOK, [Next]_vars
    PROVE  SendTypeOK'
<1>1. CASE Drafting
  BY <1>1 DEF Drafting, SendTypeOK, sendVars
<1>2. ASSUME NEW d \in DraftIds, NoteSent(d)
      PROVE  SendTypeOK'
  BY <1>2 DEF NoteSent, SendTypeOK
<1>3. ASSUME NEW d \in DraftIds, Readdress(d)
      PROVE  SendTypeOK'
  BY <1>3 DEF Readdress, EditRecipient, SendTypeOK
<1>4. ASSUME NEW s \in Senders, Send(s)
      PROVE  SendTypeOK'
  <2>1. ASSUME NEW d \in DraftIds, OpenSend(s, d)
        PROVE  SendTypeOK'
    <3>1. drafts[d].status \in DraftStatuses
      BY <2>1, PresentDraft DEF OpenSend, Draft
    <3> QED
      BY <2>1, <3>1 DEF OpenSend, SendTypeOK, Sending
  <2>2. CASE SmtpAccepts(s)
    <3>1. snd[s] \in Sending /\ snd[s].draft \in DraftIds
      BY <2>2, SenderIsSending DEF SmtpAccepts, Idle
    <3>2. [snd[s] EXCEPT !.pc = "save"] \in Sending
      BY <3>1 DEF Sending
    <3>3. mails[snd[s].draft] + 1 \in 0 .. MaxMails
      BY <2>2, <3>1, SentEmailAssumption DEF SmtpAccepts, SendTypeOK
    <3> QED
      BY <2>2, <3>1, <3>2, <3>3 DEF SmtpAccepts, SendTypeOK
  <2>3. CASE SmtpFails(s)
    BY <2>3 DEF SmtpFails, SendTypeOK
  <2>4. CASE SmtpReplyLost(s)
    <3>1. snd[s].draft \in DraftIds
      BY <2>4, SenderIsSending DEF SmtpReplyLost, Idle
    <3>2. mails[snd[s].draft] + 1 \in 0 .. MaxMails
      BY <2>4, <3>1, SentEmailAssumption DEF SmtpReplyLost, SendTypeOK
    <3> QED
      BY <2>4, <3>1, <3>2 DEF SmtpReplyLost, SendTypeOK
  <2>5. CASE CommitSend(s)
    BY <2>5, CommitRecords
  <2> QED
    BY <1>4, <2>1, <2>2, <2>3, <2>4, <2>5 DEF Send
<1>5. ASSUME NEW app \in Applications, NEW status \in AppStatuses, MoveApplication(app, status)
      PROVE  SendTypeOK'
  <2>1. Transitioned(apps[app], status) \in [status: AppStatuses, emailSentAt: BOOLEAN]
    BY TransitionKeepsMail DEF SendTypeOK
  <2> QED
    BY <1>5, <2>1 DEF MoveApplication, SendTypeOK
<1>6. CASE RestartAll
  BY <1>6 DEF RestartAll, SendTypeOK
<1>7. CASE UNCHANGED vars
  BY <1>7 DEF vars, SendTypeOK
<1> QED
  BY <1>1, <1>2, <1>3, <1>4, <1>5, <1>6, <1>7 DEF Next

LEMMA SendersStep ==
    ASSUME DraftTypeOK, FillsHoldTheirRows, SendTypeOK, SendersHoldTheirDrafts, [Next]_vars
    PROVE  SendersHoldTheirDrafts'
<1> SUFFICES ASSUME NEW s \in Senders, snd'[s] # Idle
             PROVE  drafts'[snd'[s].draft] # NoDraft
  BY DEF SendersHoldTheirDrafts
<1>1. ASSUME NEW d \in DraftIds, drafts[d] # NoDraft
      PROVE  drafts'[d] # NoDraft
  BY <1>1, DraftsStay, SendStepIsDraftStep
<1>2. ASSUME NEW d \in DraftIds, OpenSend(s, d)
      PROVE  drafts'[snd'[s].draft] # NoDraft
  BY <1>1, <1>2 DEF OpenSend, SendTypeOK
<1>3. ASSUME snd[s] # Idle, snd'[s].draft = snd[s].draft
      PROVE  drafts'[snd'[s].draft] # NoDraft
  BY <1>1, <1>3, SenderIsSending DEF SendersHoldTheirDrafts
<1>4. ASSUME NEW t \in Senders, Send(t), \A d \in DraftIds : ~OpenSend(s, d)
      PROVE  snd[s] # Idle /\ snd'[s].draft = snd[s].draft
  BY <1>4 DEF Send, OpenSend, SmtpAccepts, SmtpFails, SmtpReplyLost, CommitSend, SendTypeOK,
     Sending, Idle
<1>5. CASE snd' = snd
  BY <1>3, <1>5
<1>6. CASE \E t \in Senders : Send(t)
  BY <1>2, <1>3, <1>4, <1>6
<1>7. CASE RestartAll
  BY <1>7 DEF RestartAll
<1> QED
  BY <1>5, <1>6, <1>7 DEF Next, Drafting, NoteSent, Readdress, EditRecipient, MoveApplication,
     sendVars, vars

-----------------------------------------------------------------------------
(***************************************************************************)
(* Every accepted mail is on record.                                       *)
(***************************************************************************)

\* What is on record stays there, whatever the step.
LEMMA RecordStays ==
    ASSUME DraftTypeOK, SendTypeOK, [Next]_vars, NEW d \in DraftIds,
           out[d].sentAt, apps[d[1]].emailSentAt
    PROVE  out'[d].sentAt /\ apps'[d[1]].emailSentAt
<1>1. d[1] \in Applications
  BY DEF DraftIds
<1>2. ASSUME NEW e \in DraftIds, NoteSent(e) \/ Readdress(e)
      PROVE  out'[d].sentAt /\ apps' = apps
  BY <1>2 DEF NoteSent, Readdress, EditRecipient, SendTypeOK
<1>3. ASSUME NEW s \in Senders, Send(s)
      PROVE  out'[d].sentAt /\ apps'[d[1]].emailSentAt
  BY <1>1, <1>3, CommitRecords DEF Send, OpenSend, SmtpAccepts, SmtpFails, SmtpReplyLost
<1>4. ASSUME NEW app \in Applications, NEW status \in AppStatuses, MoveApplication(app, status)
      PROVE  out' = out /\ apps'[d[1]].emailSentAt
  <2>1. apps[app] \in [status: AppStatuses, emailSentAt: BOOLEAN]
    BY DEF SendTypeOK
  <2>2. apps[app].emailSentAt => Transitioned(apps[app], status).emailSentAt
    BY <2>1, TransitionKeepsMail
  <2> QED
    BY <1>1, <1>4, <2>2 DEF MoveApplication, SendTypeOK
<1>5. CASE Drafting \/ RestartAll \/ UNCHANGED vars
  BY <1>5 DEF Drafting, RestartAll, sendVars, vars
<1> QED
  BY <1>2, <1>3, <1>4, <1>5 DEF Next

LEMMA MailStep ==
    ASSUME SendInv, [Next]_vars
    PROVE  MailIsRecorded'
<1> USE DEF SendInv
<1> SUFFICES ASSUME NEW d \in DraftIds, d \notin cut', mails'[d] > 0,
                    \A s \in Senders : ~AtCommit(s, d)'
             PROVE  out'[d].sentAt /\ apps'[d[1]].emailSentAt
  BY DEF MailIsRecorded
<1>1. ASSUME d \notin cut, mails[d] > 0, \A s \in Senders : ~AtCommit(s, d)
      PROVE  out'[d].sentAt /\ apps'[d[1]].emailSentAt
  BY <1>1, RecordStays DEF MailIsRecorded
<1>2. ASSUME NEW s \in Senders, Send(s)
      PROVE  out'[d].sentAt /\ apps'[d[1]].emailSentAt
  <2>1. ASSUME NEW e \in DraftIds, OpenSend(s, e)
        PROVE  mails' = mails /\ cut' = cut /\ \A u \in Senders : ~AtCommit(u, d)
    BY <2>1 DEF OpenSend, AtCommit, SendTypeOK, Idle
  <2>2. CASE SmtpAccepts(s)
    <3>1. snd[s] \in Sending /\ snd[s].draft \in DraftIds
      BY <2>2, SenderIsSending DEF SmtpAccepts, Idle
    <3>2. snd'[s].pc = "save" /\ snd'[s].draft = snd[s].draft
      BY <2>2, <3>1 DEF SmtpAccepts, SendTypeOK, Sending
    <3>3. snd[s].draft # d
      BY <3>2 DEF AtCommit
    <3>4. mails'[d] = mails[d] /\ cut' = cut /\ \A u \in Senders : ~AtCommit(u, d)
      BY <2>2, <3>1, <3>3 DEF SmtpAccepts, SendTypeOK, AtCommit
    <3> QED
      BY <1>1, <3>4
  <2>3. CASE SmtpFails(s)
    BY <1>1, <2>3 DEF SmtpFails, AtCommit, SendTypeOK
  <2>4. CASE SmtpReplyLost(s)
    <3>1. snd[s].draft \in DraftIds /\ snd[s].draft # d /\ d \notin cut
      BY <2>4, SenderIsSending DEF SmtpReplyLost, Idle
    <3>2. mails'[d] = mails[d] /\ \A u \in Senders : ~AtCommit(u, d)
      BY <2>4, <3>1 DEF SmtpReplyLost, AtCommit, SendTypeOK
    <3> QED
      BY <1>1, <3>1, <3>2
  <2>5. CASE CommitSend(s)
    <3>1. CASE snd[s].draft = d
      BY <2>5, <3>1, CommitRecords
    <3>2. CASE snd[s].draft # d
      <4>1. mails' = mails /\ cut' = cut /\ \A u \in Senders : ~AtCommit(u, d)
        BY <2>5, <3>2 DEF CommitSend, AtCommit, SendTypeOK
      <4> QED
        BY <1>1, <4>1
    <3> QED
      BY <3>1, <3>2
  <2> QED
    BY <1>1, <1>2, <2>1, <2>2, <2>3, <2>4, <2>5 DEF Send
<1>3. CASE RestartAll
  BY <1>1, <1>3 DEF RestartAll
<1>4. CASE snd' = snd /\ mails' = mails /\ cut' = cut
  BY <1>1, <1>4 DEF AtCommit
<1> QED
  BY <1>2, <1>3, <1>4 DEF Next, Drafting, NoteSent, Readdress, EditRecipient, MoveApplication,
     sendVars, vars

-----------------------------------------------------------------------------

LEMMA SendInvInit == Init => SendInv
<1> SUFFICES ASSUME Init PROVE SendInv
  OBVIOUS
<1>1. DraftTypeOK /\ FillsHoldTheirRows
  BY DraftInvInit DEF Init, DraftInv
<1>2. SendTypeOK /\ SendersHoldTheirDrafts
  BY SentEmailAssumption DEF Init, SendTypeOK, SendersHoldTheirDrafts
<1>3. MailIsRecorded
  BY DEF Init, MailIsRecorded
<1> QED
  BY <1>1, <1>2, <1>3 DEF SendInv

LEMMA SendInvStep == SendInv /\ [Next]_vars => SendInv'
<1> SUFFICES ASSUME SendInv, [Next]_vars PROVE SendInv'
  OBVIOUS
<1>1. [DraftNext]_draftVars
  BY SendStepIsDraftStep DEF SendInv
<1>2. DraftTypeOK' /\ FillsHoldTheirRows'
  BY <1>1, DraftTypeStep, HoldStep DEF SendInv
<1>3. SendTypeOK' /\ SendersHoldTheirDrafts' /\ MailIsRecorded'
  BY SendTypeStep, SendersStep, MailStep DEF SendInv
<1> QED
  BY <1>2, <1>3 DEF SendInv

LEMMA SendInvariance == Spec => []SendInv
  BY SendInvInit, SendInvStep, PTL DEF Spec

(***************************************************************************)
(* The tables of ColdEmail, the applications, the senders and the mails are*)
(* of their types.                                                         *)
(***************************************************************************)
THEOREM SendTyping == Spec => []TypeOK
<1>1. SendInv => TypeOK
  BY DEF SendInv, SendTypeOK, TypeOK
<1> QED
  BY <1>1, SendInvariance, PTL

(***************************************************************************)
(* An accepted mail is on record with draft and application once its       *)
(* request is over, for any number of requests, edits and regenerations,   *)
(* unless a reply was lost or a restart came in between.                   *)
(***************************************************************************)
THEOREM MailsAreRecorded == Spec => []MailIsRecorded
<1>1. SendInv => MailIsRecorded
  BY DEF SendInv
<1> QED
  BY <1>1, SendInvariance, PTL

(***************************************************************************)
(* Sending is one of the things ColdEmail lets a user do: SentEmail        *)
(* implements it, requests that overlap included.                          *)
(***************************************************************************)
THEOREM SendsImplementDrafts == Spec => DraftSpec
<1>1. Init => DraftInit
  BY DEF Init
<1>2. SendInv /\ [Next]_vars => [DraftNext]_draftVars
  BY SendStepIsDraftStep DEF SendInv
<1> QED
  BY <1>1, <1>2, SendInvariance, PTL DEF Spec, DraftSpec

(***************************************************************************)
(* So no send, however it overlaps, changes what an approved draft says.   *)
(***************************************************************************)
THEOREM SendsKeepApprovals == Spec => ApprovalCoversText
  BY SendsImplementDrafts, ApprovalsHold, PTL

(***************************************************************************)
(* With senders at work, overlapping ones included, an application still   *)
(* has one draft of a type, IMAP links name a copy, and no job reopens.    *)
(***************************************************************************)
THEOREM SendsKeepDrafts ==
    Spec => [](OneDraftPerType /\ ImapLinkHasCopy) /\ JobsNeverReopen
  BY SendsImplementDrafts, DraftsAreUpserted, LinksHold, DraftsImplementJobs,
     EndedJobsStayEnded, PTL
=============================================================================
