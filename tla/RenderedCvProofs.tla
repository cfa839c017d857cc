-------------------------- MODULE RenderedCvProofs --------------------------
(***************************************************************************)
(* Proofs about RenderedCv, for any number of CVs, viewers and edits, under*)
(* any faults.                                                             *)
(***************************************************************************)
EXTENDS RenderedCv, TailoredCvProofs

-----------------------------------------------------------------------------
(***************************************************************************)
(* The part of RenderedCv that TailoredCv sees is TailoredCv.              *)
(***************************************************************************)

LEMMA RenderStepIsCvStep ==
    ASSUME [Next]_vars
    PROVE  [CvNext]_cvVars
<1> USE DEF cvVars
<1>1. CASE Tailor
  BY <1>1 DEF Tailor, CvNext
<1>2. CASE User
  BY <1>2 DEF User, EditAndInvalidate, RescoreCv, OpenDownload, CvNext
<1>3. ASSUME NEW v \in Viewers, Render(v)
      PROVE  UNCHANGED cvVars
  BY <1>3 DEF Render, RenderDocx, RenderPdf, RenderHalf, RenderFails, RenderKeepsQuiet,
              SaveArtifacts
<1>4. CASE RestartAll
  BY <1>4 DEF RestartAll, CvNext
<1>5. CASE UNCHANGED vars
  BY <1>5 DEF vars
<1> QED
  BY <1>1, <1>2, <1>3, <1>4, <1>5 DEF Next

(***************************************************************************)
(* What generate_cv and the callbacks do to a row, as far as files matter: *)
(* they insert it, pending and empty; leave its status and text; or answer *)
(* it, and then it is neither pending nor edited.                          *)
(***************************************************************************)
SameText(i) ==
    \/ cvs'[i] = NoCv /\ cvs[i] = NoCv
    \/ /\ cvs'[i] # NoCv /\ cvs[i] # NoCv
       /\ cvs'[i].status = cvs[i].status
       /\ cvs'[i].text = cvs[i].text

NewRow(i) ==
    /\ cvs[i] = NoCv /\ cvs'[i] # NoCv
    /\ cvs'[i].status = "pending"
    /\ cvs'[i].text = NoText

Answered(i) ==
    /\ cvs[i] # NoCv /\ cvs'[i] # NoCv
    /\ cvs'[i].status \in {"ready", "no_match"}

LEMMA TailorRow ==
    ASSUME CvInv, Tailor, NEW i \in CvIds
    PROVE  SameText(i) \/ NewRow(i) \/ Answered(i)
<1> USE DEF CvInv
<1>1. ASSUME NEW w \in Workers, NEW k \in CvIds, NEW app \in Applications,
             GenerateCv(w, k, app)
      PROVE  SameText(i) \/ NewRow(i)
  BY <1>1 DEF GenerateCv, NextRow, PendingCv, SameText, NewRow, CvTypeOK, Cv, NoCv
<1>2. ASSUME NEW w \in Workers, WireJob(w)
      PROVE  SameText(i)
  <2>1. cvs[gen[w].cv] \in Cv
    BY <1>2, PresentCv DEF WireJob, Idle, RequestsHoldTheirRows, CvTypeOK, Generating
  <2> QED
    BY <1>2, <2>1 DEF WireJob, SameText, CvTypeOK, Cv, NoCv
<1>3. ASSUME NEW j \in JobIds, NEW outcome \in Outcomes, CompleteTailoring(j, outcome)
      PROVE  SameText(i) \/ Answered(i)
  BY <1>3, CompletionOnRows DEF SameText, Answered, Cv, NoCv
<1>4. CASE UNCHANGED cvs
  BY <1>4 DEF SameText
<1> QED
  BY <1>1, <1>2, <1>3, <1>4
     DEF Tailor, Generate, SpawnInsert, SpawnLaunch, SpawnFails, Skill, ReportProgress,
         ReportFailure, SkillExits

-----------------------------------------------------------------------------
(***************************************************************************)
(* Type correctness.                                                       *)
(***************************************************************************)

LEMMA RenderTypeStep ==
    ASSUME RenderInv, [Next]_vars
    PROVE  TypeOK'
<1> USE DEF RenderInv, TypeOK
<1>1. CvTypeOK'
  BY CvTypeStep, RenderStepIsCvStep
<1> DEFINE Typed2 ==
             /\ art' \in [CvIds -> Art]
             /\ dl' \in [Viewers -> Download \union {Idle}]
             /\ files' \in [CvIds -> Files]
             /\ suspect' \in [CvIds -> BOOLEAN]
<1>2. ASSUME NEW i \in CvIds, NEW n \in Versions, EditAndInvalidate(i, n)
      PROVE  Typed2
  <2>1. Downloading(i) \in BOOLEAN
    BY DEF Downloading
  <2> QED
    BY <1>2, <2>1 DEF EditAndInvalidate, Art
<1>3. ASSUME NEW i \in CvIds, RescoreCv(i)
      PROVE  Typed2
  BY <1>3, PresentCv DEF RescoreCv, Art, Cv
<1>4. ASSUME NEW i \in CvIds, NEW v \in Viewers, OpenDownload(v, i)
      PROVE  Typed2
  BY <1>4, PresentCv DEF OpenDownload, Download, Cv
<1>5. ASSUME NEW v \in Viewers, Render(v)
      PROVE  Typed2
  <2>1. dl[v] \in Download
    BY <1>5 DEF Render, RenderDocx, RenderPdf, RenderHalf, RenderFails, RenderKeepsQuiet,
                SaveArtifacts, Idle
  <2>2. CASE RenderDocx(v)
    BY <2>1, <2>2 DEF RenderDocx, Download, Files
  <2>3. CASE RenderPdf(v)
    BY <2>1, <2>3 DEF RenderPdf, Download, Files
  <2>4. CASE RenderFails(v)
    <3>1. dl' \in [Viewers -> Download \union {Idle}] /\ art' = art
      BY <2>4 DEF RenderFails
    <3>2. files' \in [CvIds -> Files]
      BY <2>1, <2>4 DEF RenderFails, Download, Files
    <3>3. suspect' \in [CvIds -> BOOLEAN]
      BY <2>4 DEF RenderFails, Rendering
    <3> QED
      BY <3>1, <3>2, <3>3
  <2>7. CASE RenderHalf(v)
    BY <2>1, <2>7 DEF RenderHalf, Download, Files
  <2>5. CASE SaveArtifacts(v)
    BY <2>1, <2>5 DEF SaveArtifacts, Download, Art
  <2>6. CASE RenderKeepsQuiet(v)
    BY <2>1, <2>6 DEF RenderKeepsQuiet, Download
  <2> QED
    BY <1>5, <2>2, <2>3, <2>4, <2>5, <2>6, <2>7 DEF Render
<1>6. ASSUME RestartAll
      PROVE  Typed2
  <2>1. files' \in [CvIds -> Files]
    BY <1>6 DEF RestartAll, Files
  <2>2. suspect' \in [CvIds -> BOOLEAN]
    BY <1>6 DEF RestartAll, Rendering, Art
  <2> QED
    BY <1>6, <2>1, <2>2 DEF RestartAll
<1>7. ASSUME UNCHANGED renderVars
      PROVE  Typed2
  BY <1>7 DEF renderVars
<1>8. Typed2
  BY <1>2, <1>3, <1>4, <1>5, <1>6, <1>7 DEF Next, Tailor, User, vars, renderVars
<1> QED
  BY <1>1, <1>8

-----------------------------------------------------------------------------
(***************************************************************************)
(* What the files, the paths and the downloads have to do with the texts.  *)
(***************************************************************************)

FilesInv ==
    /\ NothingBeforeText
    /\ DownloadsHaveText
    /\ DownloadsOfEditAgree
    /\ CachedPathHasFile
    /\ EditedArtifactFresh

LEMMA NoTextIsNoText == NoText \notin Text
  BY DEF NoText, Text

\* A download under way, and its row.
LEMMA DownloadOf ==
    ASSUME TypeOK, NEW v \in Viewers, dl[v] # Idle
    PROVE  dl[v] \in Download /\ dl[v].cv \in CvIds /\ dl[v].text \in Text /\ dl[v].text # NoText
  BY NoTextIsNoText DEF TypeOK, Download

LEMMA TailorKeepsFiles ==
    ASSUME RenderInv, Tailor
    PROVE  FilesInv'
<1> USE DEF RenderInv
<1>1. UNCHANGED renderVars
  BY DEF Tailor
<1>2. ASSUME NEW i \in CvIds
      PROVE  SameText(i) \/ NewRow(i) \/ Answered(i)
  BY TailorRow
<1>3. NothingBeforeText'
  BY <1>1, <1>2 DEF renderVars, NothingBeforeText, Untouched, SameText, NewRow, Answered
<1>4. DownloadsHaveText'
  BY <1>1, <1>2, DownloadOf DEF renderVars, DownloadsHaveText, SameText, NewRow, Answered
<1>5. DownloadsOfEditAgree'
  BY <1>1, <1>2, DownloadOf
     DEF renderVars, DownloadsOfEditAgree, DownloadsHaveText, Agrees, SameText, NewRow, Answered
<1>6. CachedPathHasFile'
  BY <1>1 DEF renderVars, CachedPathHasFile
<1>7. EditedArtifactFresh'
  BY <1>1, <1>2 DEF renderVars, EditedArtifactFresh, ServesEdit, Fresh, SameText, NewRow, Answered
<1> QED
  BY <1>3, <1>4, <1>5, <1>6, <1>7 DEF FilesInv

LEMMA EditKeepsFiles ==
    ASSUME RenderInv, NEW i \in CvIds, NEW n \in Versions, EditAndInvalidate(i, n)
    PROVE  FilesInv'
<1> USE DEF RenderInv
<1>1. /\ \A k \in CvIds \ {i} : cvs'[k] = cvs[k] /\ art'[k] = art[k] /\ suspect'[k] = suspect[k]
      /\ UNCHANGED <<dl, files>>
  BY DEF EditAndInvalidate, EditCv, TypeOK, CvTypeOK
<1>2. /\ cvs[i] # NoCv /\ cvs'[i] # NoCv /\ cvs'[i].status = "edited"
      /\ art'[i].paths = FALSE
      /\ suspect'[i] = Downloading(i)
  <2>1. cvs[i] # NoCv /\ cvs[i] \in Cv /\ art[i] \in Art
    BY PresentCv DEF EditAndInvalidate, EditCv, TypeOK
  <2>2. cvs'[i] # NoCv /\ cvs'[i].status = "edited"
    BY <2>1 DEF EditAndInvalidate, EditCv, Cv, NoCv, TypeOK, CvTypeOK
  <2> QED
    BY <2>1, <2>2 DEF EditAndInvalidate, Art, TypeOK
<1>3. NothingBeforeText'
  BY <1>1, <1>2 DEF NothingBeforeText, Untouched
<1>4. DownloadsHaveText'
  BY <1>1, <1>2, DownloadOf DEF DownloadsHaveText
<1>5. DownloadsOfEditAgree'
  BY <1>1, <1>2, DownloadOf DEF DownloadsOfEditAgree, Agrees, Downloading, Rendering
<1>6. CachedPathHasFile'
  BY <1>1, <1>2 DEF CachedPathHasFile
<1>7. EditedArtifactFresh'
  BY <1>1, <1>2 DEF EditedArtifactFresh, ServesEdit, Fresh
<1> QED
  BY <1>3, <1>4, <1>5, <1>6, <1>7 DEF FilesInv

LEMMA RescoreKeepsFiles ==
    ASSUME RenderInv, NEW i \in CvIds, RescoreCv(i)
    PROVE  FilesInv'
<1> USE DEF RenderInv, RescoreCv
<1>1. cvs[i] # NoCv /\ cvs[i].status # "pending"
  BY DEF NothingBeforeText
<1>2. \A k \in CvIds : art'[k].paths = art[k].paths /\ (k # i => art'[k] = art[k])
  BY DEF TypeOK, Art
<1>3. NothingBeforeText'
  BY <1>1, <1>2 DEF NothingBeforeText, Untouched
<1>4. DownloadsHaveText' /\ DownloadsOfEditAgree'
  BY DEF DownloadsHaveText, DownloadsOfEditAgree, Agrees
<1>5. CachedPathHasFile' /\ EditedArtifactFresh'
  BY <1>2 DEF CachedPathHasFile, EditedArtifactFresh, ServesEdit, Fresh
<1> QED
  BY <1>3, <1>4, <1>5 DEF FilesInv

LEMMA OpenKeepsFiles ==
    ASSUME RenderInv, NEW i \in CvIds, NEW v \in Viewers, OpenDownload(v, i)
    PROVE  FilesInv'
<1> USE DEF RenderInv, OpenDownload
<1>1. cvs[i] # NoCv /\ cvs[i].status # "pending"
  BY DEF NothingBeforeText
<1>2. /\ dl'[v] = [pc |-> "docx", cv |-> i, text |-> cvs[i].text]
      /\ \A u \in Viewers \ {v} : dl'[u] = dl[u]
  BY DEF TypeOK
<1>3. NothingBeforeText' /\ CachedPathHasFile' /\ EditedArtifactFresh'
  BY DEF NothingBeforeText, Untouched, CachedPathHasFile, EditedArtifactFresh, ServesEdit, Fresh
<1>4. DownloadsHaveText'
  BY <1>1, <1>2 DEF DownloadsHaveText
<1>5. DownloadsOfEditAgree'
  BY <1>1, <1>2 DEF DownloadsOfEditAgree, Agrees
<1> QED
  BY <1>3, <1>4, <1>5 DEF FilesInv

LEMMA DocxKeepsFiles ==
    ASSUME RenderInv, NEW v \in Viewers, RenderDocx(v)
    PROVE  FilesInv'
<1> USE DEF RenderInv
<1> DEFINE i == dl[v].cv
<1>1. dl[v] # Idle /\ dl[v] \in Download /\ i \in CvIds /\ dl[v].text # NoText
  BY DownloadOf DEF RenderDocx, Idle
<1>2. /\ dl'[v].cv = i /\ dl'[v].pc = "pdf" /\ dl'[v].text = dl[v].text
      /\ \A u \in Viewers \ {v} : dl'[u] = dl[u]
  BY <1>1 DEF RenderDocx, TypeOK, Download
<1>3. /\ files'[i].docx = dl[v].text /\ files'[i].pdf = files[i].pdf
      /\ \A k \in CvIds \ {i} : files'[k] = files[k]
      /\ UNCHANGED <<cvs, art, suspect>>
  BY <1>1 DEF RenderDocx, TypeOK, Files
<1>4. cvs[i] # NoCv /\ cvs[i].status # "pending"
  BY <1>1 DEF DownloadsHaveText
<1>5. NothingBeforeText'
  BY <1>3, <1>4 DEF NothingBeforeText, Untouched
<1>6. DownloadsHaveText'
  BY <1>1, <1>2, <1>3, <1>4, DownloadOf DEF DownloadsHaveText
<1>7. DownloadsOfEditAgree'
  BY <1>1, <1>2, <1>3, DownloadOf DEF DownloadsOfEditAgree, Agrees
<1>8. CachedPathHasFile'
  BY <1>1, <1>3 DEF CachedPathHasFile
<1>9. EditedArtifactFresh'
  BY <1>1, <1>3 DEF EditedArtifactFresh, ServesEdit, Fresh, DownloadsOfEditAgree, Agrees
<1> QED
  BY <1>5, <1>6, <1>7, <1>8, <1>9 DEF FilesInv

LEMMA PdfKeepsFiles ==
    ASSUME RenderInv, NEW v \in Viewers, RenderPdf(v)
    PROVE  FilesInv'
<1> USE DEF RenderInv
<1> DEFINE i == dl[v].cv
<1>1. dl[v] # Idle /\ dl[v] \in Download /\ i \in CvIds
  BY DownloadOf DEF RenderPdf, Idle
<1>2. /\ dl'[v].cv = i /\ dl'[v].pc = "save" /\ dl'[v].text = dl[v].text
      /\ \A u \in Viewers \ {v} : dl'[u] = dl[u]
  BY <1>1 DEF RenderPdf, TypeOK, Download
<1>3. /\ files'[i].pdf = files[i].docx /\ files'[i].docx = files[i].docx
      /\ \A k \in CvIds \ {i} : files'[k] = files[k]
      /\ UNCHANGED <<cvs, art, suspect>>
  BY <1>1 DEF RenderPdf, TypeOK, Files
<1>4. cvs[i] # NoCv /\ cvs[i].status # "pending" /\ files[i].docx # NoText
  BY <1>1 DEF DownloadsHaveText, RenderPdf
<1>5. NothingBeforeText'
  BY <1>3, <1>4 DEF NothingBeforeText, Untouched
<1>6. DownloadsHaveText'
  BY <1>1, <1>2, <1>3, <1>4, DownloadOf DEF DownloadsHaveText
<1>7. DownloadsOfEditAgree'
  BY <1>1, <1>2, <1>3, DownloadOf DEF DownloadsOfEditAgree, Agrees, RenderPdf
<1>8. CachedPathHasFile'
  BY <1>3, <1>4 DEF CachedPathHasFile
<1>9. EditedArtifactFresh'
  BY <1>1, <1>3 DEF EditedArtifactFresh, ServesEdit, Fresh
<1> QED
  BY <1>5, <1>6, <1>7, <1>8, <1>9 DEF FilesInv

LEMMA QuietKeepsFiles ==
    ASSUME RenderInv, NEW v \in Viewers, RenderKeepsQuiet(v)
    PROVE  FilesInv'
<1> USE DEF RenderInv
<1> DEFINE i == dl[v].cv
<1>1. dl[v] # Idle /\ dl[v] \in Download /\ i \in CvIds
  BY DownloadOf DEF RenderKeepsQuiet, Idle
<1>2. /\ dl'[v].cv = i /\ dl'[v].pc = IF dl[v].pc = "docx" THEN "pdf" ELSE "save"
      /\ \A u \in Viewers \ {v} : dl'[u] = dl[u]
  BY <1>1 DEF RenderKeepsQuiet, TypeOK, Download
<1>3. /\ suspect'[i] = TRUE
      /\ \A k \in CvIds \ {i} : suspect'[k] = suspect[k]
      /\ UNCHANGED <<cvs, art, files>>
  BY <1>1 DEF RenderKeepsQuiet, TypeOK
<1>4. dl[v].pc \in {"docx", "pdf"} /\ files[i][dl[v].pc] # NoText
  BY DEF RenderKeepsQuiet
<1>5. NothingBeforeText' /\ CachedPathHasFile'
  BY <1>3 DEF NothingBeforeText, Untouched, CachedPathHasFile
<1>6. DownloadsHaveText'
  BY <1>1, <1>2, <1>3, <1>4, DownloadOf DEF DownloadsHaveText
<1>7. DownloadsOfEditAgree'
  BY <1>1, <1>2, <1>3, DownloadOf DEF DownloadsOfEditAgree, Agrees
<1>8. EditedArtifactFresh'
  BY <1>3 DEF EditedArtifactFresh, ServesEdit, Fresh
<1> QED
  BY <1>5, <1>6, <1>7, <1>8 DEF FilesInv

LEMMA SaveKeepsFiles ==
    ASSUME RenderInv, NEW v \in Viewers, SaveArtifacts(v)
    PROVE  FilesInv'
<1> USE DEF RenderInv
<1> DEFINE i == dl[v].cv
<1>1. dl[v] # Idle /\ dl[v] \in Download /\ i \in CvIds
  BY DownloadOf DEF SaveArtifacts, Idle
<1>2. /\ dl'[v] = Idle /\ \A u \in Viewers \ {v} : dl'[u] = dl[u]
      /\ \A k \in CvIds \ {i} : art'[k] = art[k]
      /\ UNCHANGED <<cvs, files, suspect>>
  BY <1>1 DEF SaveArtifacts, TypeOK
<1>3. /\ cvs[i] # NoCv /\ cvs[i].status # "pending"
      /\ files[i].docx # NoText /\ files[i].pdf # NoText
  BY <1>1 DEF DownloadsHaveText, SaveArtifacts
<1>4. NothingBeforeText'
  BY <1>2, <1>3 DEF NothingBeforeText, Untouched
<1>5. DownloadsHaveText' /\ DownloadsOfEditAgree'
  BY <1>2 DEF DownloadsHaveText, DownloadsOfEditAgree, Agrees
<1>6. CachedPathHasFile'
  BY <1>2, <1>3 DEF CachedPathHasFile
<1>7. EditedArtifactFresh'
  BY <1>1, <1>2
     DEF EditedArtifactFresh, ServesEdit, Fresh, DownloadsOfEditAgree, Agrees, SaveArtifacts
<1> QED
  BY <1>4, <1>5, <1>6, <1>7 DEF FilesInv

LEMMA HalfKeepsFiles ==
    ASSUME RenderInv, NEW v \in Viewers, RenderHalf(v)
    PROVE  FilesInv'
<1> USE DEF RenderInv
<1> DEFINE i == dl[v].cv
<1>1. dl[v] # Idle /\ dl[v] \in Download /\ i \in CvIds
  BY DownloadOf DEF RenderHalf, Idle
<1>2. /\ dl'[v].cv = i /\ dl'[v].pc = "save"
      /\ \A u \in Viewers \ {v} : dl'[u] = dl[u]
  BY <1>1 DEF RenderHalf, TypeOK, Download
<1>3. /\ files'[i].pdf # NoText /\ files'[i].docx = files[i].docx
      /\ \A k \in CvIds \ {i} : files'[k] = files[k] /\ suspect'[k] = suspect[k]
      /\ suspect'[i] = TRUE
      /\ UNCHANGED <<cvs, art>>
  BY <1>1 DEF RenderHalf, TypeOK, Files, Torn, NoText
<1>4. cvs[i] # NoCv /\ cvs[i].status # "pending" /\ files[i].docx # NoText
  BY <1>1 DEF DownloadsHaveText, RenderHalf
<1>5. NothingBeforeText'
  BY <1>3, <1>4 DEF NothingBeforeText, Untouched
<1>6. DownloadsHaveText'
  BY <1>1, <1>2, <1>3, <1>4, DownloadOf DEF DownloadsHaveText
<1>7. DownloadsOfEditAgree'
  BY <1>1, <1>2, <1>3, DownloadOf DEF DownloadsOfEditAgree, Agrees
<1>8. CachedPathHasFile'
  BY <1>3 DEF CachedPathHasFile
<1>9. EditedArtifactFresh'
  BY <1>1, <1>3 DEF EditedArtifactFresh, ServesEdit, Fresh
<1> QED
  BY <1>5, <1>6, <1>7, <1>8, <1>9 DEF FilesInv

(***************************************************************************)
(* A failing download and a restart take downloads away and leave half     *)
(* files, and only for rows that are suspect then, or that are not served  *)
(* and have no download left.                                              *)
(***************************************************************************)
CutShort(i) ==
    /\ \E v \in Viewers : Rendering(v, i)
    /\ files'[i].docx \in {files[i].docx, Torn}
    /\ files'[i].pdf \in {files[i].pdf, Torn}
    /\ \/ suspect'[i]
       \/ ~art[i].paths /\ \A v \in Viewers : dl'[v] # Idle => dl'[v].cv # i

LEMMA DroppingKeepsFiles ==
    ASSUME RenderInv, UNCHANGED <<cvs, art>>,
           \A v \in Viewers : dl'[v] \in {dl[v], Idle},
           \A i \in CvIds : CutShort(i) \/ (files'[i] = files[i] /\ suspect'[i] = suspect[i])
    PROVE  FilesInv'
<1> USE DEF RenderInv
<1>1. NoText # Torn
  BY DEF NoText, Torn
<1>2. NothingBeforeText'
  BY DEF NothingBeforeText, Untouched, CutShort, Rendering, DownloadsHaveText
<1>3. CachedPathHasFile'
  BY <1>1 DEF CachedPathHasFile, CutShort
<1>4. EditedArtifactFresh'
  BY DEF EditedArtifactFresh, ServesEdit, Fresh, CutShort
<1>5. DownloadsHaveText'
  BY <1>1, DownloadOf DEF DownloadsHaveText, CutShort
<1>6. DownloadsOfEditAgree'
  BY DownloadOf DEF DownloadsOfEditAgree, Agrees, CutShort
<1> QED
  BY <1>2, <1>3, <1>4, <1>5, <1>6 DEF FilesInv

LEMMA FailureKeepsFiles ==
    ASSUME RenderInv, NEW v \in Viewers, RenderFails(v)
    PROVE  FilesInv'
<1> USE DEF RenderInv, TypeOK
<1> DEFINE i == dl[v].cv
<1>1. dl[v] # Idle /\ i \in CvIds
  BY DownloadOf DEF RenderFails, Idle
<1>2. /\ UNCHANGED <<cvs, art>> /\ dl'[v] = Idle
      /\ \A u \in Viewers \ {v} : dl'[u] = dl[u]
  BY DEF RenderFails
<1>3. ASSUME ~UNCHANGED <<files, suspect>>
      PROVE  CutShort(i)
  <2>1. /\ files'[i].docx \in {files[i].docx, Torn}
        /\ files'[i].pdf \in {files[i].pdf, Torn}
    BY <1>1, <1>3 DEF RenderFails, Files
  <2>2. suspect'[i] = (suspect[i] \/ art[i].paths \/ \E u \in Viewers \ {v} : Rendering(u, i))
    BY <1>1, <1>3 DEF RenderFails
  <2> QED
    BY <1>1, <1>2, <2>1, <2>2 DEF CutShort, Rendering
<1>4. \A k \in CvIds : CutShort(k) \/ (files'[k] = files[k] /\ suspect'[k] = suspect[k])
  BY <1>1, <1>3 DEF RenderFails
<1> QED
  BY <1>2, <1>4, DroppingKeepsFiles

LEMMA RestartKeepsFiles ==
    ASSUME RenderInv, RestartAll
    PROVE  FilesInv'
<1> USE DEF RenderInv, TypeOK
<1>1. UNCHANGED <<cvs, art>> /\ \A v \in Viewers : dl'[v] = Idle
  BY DEF RestartAll, Restart
<1>2. ASSUME NEW i \in CvIds
      PROVE  CutShort(i) \/ (files'[i] = files[i] /\ suspect'[i] = suspect[i])
  <2>1. PICK cut \in SUBSET {v \in Viewers : dl[v].pc \in {"docx", "pdf"}} :
           /\ files'[i] =
                 [docx |-> IF \E v \in cut : Rendering(v, i) /\ dl[v].pc = "docx"
                           THEN Torn ELSE files[i].docx,
                  pdf |-> IF \E v \in cut : Rendering(v, i) /\ dl[v].pc = "pdf"
                          THEN Torn ELSE files[i].pdf]
           /\ suspect'[i] = (suspect[i] \/ (art[i].paths /\ \E v \in cut : Rendering(v, i)))
    BY <1>2 DEF RestartAll
  <2>2. CASE \E v \in cut : Rendering(v, i)
    <3>1. /\ files'[i].docx \in {files[i].docx, Torn}
          /\ files'[i].pdf \in {files[i].pdf, Torn}
      BY <2>1
    <3>2. suspect'[i] \/ ~art[i].paths
      BY <2>1, <2>2
    <3>3. \E v \in Viewers : Rendering(v, i)
      BY <2>2
    <3> QED
      BY <1>1, <3>1, <3>2, <3>3 DEF CutShort
  <2>3. CASE ~\E v \in cut : Rendering(v, i)
    <3>1. files'[i] = [docx |-> files[i].docx, pdf |-> files[i].pdf] /\ files[i] \in Files
      BY <2>1, <2>3
    <3>2. files'[i] = files[i]
      BY <3>1 DEF Files
    <3>3. suspect'[i] = suspect[i]
      BY <2>1, <2>3
    <3> QED
      BY <3>2, <3>3
  <2> QED
    BY <2>2, <2>3
<1> QED
  BY <1>1, <1>2, DroppingKeepsFiles

-----------------------------------------------------------------------------
(***************************************************************************)
(* The theorems.                                                           *)
(***************************************************************************)

(***************************************************************************)
(* The inductive invariant.                                                *)
(***************************************************************************)
THEOREM RenderInvariant == Spec => []RenderInv
<1>1. Init => RenderInv
  <2> SUFFICES ASSUME Init
               PROVE  RenderInv
    OBVIOUS
  <2>1. CvInv
    BY CvInitially DEF Init
  <2>2. TypeOK
    BY <2>1 DEF Init, CvInv, TypeOK, Art, Files
  <2>3. FilesInv
    BY DEF Init, CvInit, FilesInv, NothingBeforeText, Untouched, DownloadsHaveText,
           DownloadsOfEditAgree, CachedPathHasFile, EditedArtifactFresh, ServesEdit
  <2> QED
    BY <2>1, <2>2, <2>3 DEF RenderInv, FilesInv
<1>2. RenderInv /\ [Next]_vars => RenderInv'
  <2> SUFFICES ASSUME RenderInv, [Next]_vars
               PROVE  RenderInv'
    OBVIOUS
  <2>1. CvInv' /\ TypeOK'
    BY CvInvStep, RenderStepIsCvStep, RenderTypeStep DEF RenderInv
  <2>2. ASSUME NEW v \in Viewers, Render(v)
        PROVE  FilesInv'
    BY <2>2, DocxKeepsFiles, PdfKeepsFiles, HalfKeepsFiles, FailureKeepsFiles, QuietKeepsFiles,
       SaveKeepsFiles DEF Render
  <2>3. ASSUME User
        PROVE  FilesInv'
    BY <2>3, EditKeepsFiles, RescoreKeepsFiles, OpenKeepsFiles DEF User
  <2>4. ASSUME RestartAll
        PROVE  FilesInv'
    BY <2>4, RestartKeepsFiles
  <2>5. ASSUME UNCHANGED vars
        PROVE  FilesInv'
    BY <2>5, DroppingKeepsFiles DEF vars
  <2>6. FilesInv'
    BY <2>2, <2>3, <2>4, <2>5, TailorKeepsFiles DEF Next
  <2> QED
    BY <2>1, <2>6 DEF RenderInv, FilesInv
<1> QED
  BY <1>1, <1>2, PTL DEF Spec

\* Type correctness.
THEOREM RenderTyping == Spec => []TypeOK
<1>1. RenderInv => TypeOK
  BY DEF RenderInv
<1> QED
  BY <1>1, RenderInvariant, PTL

\* A path that is set has its file.
THEOREM PathsHaveFiles == Spec => []CachedPathHasFile
<1>1. RenderInv => CachedPathHasFile
  BY DEF RenderInv
<1> QED
  BY <1>1, RenderInvariant, PTL

\* A CV still pending has no score and no file.
THEOREM PendingIsBare == Spec => []PendingHasNothing
<1>1. RenderInv => PendingHasNothing
  BY DEF RenderInv, PendingHasNothing, NothingBeforeText, Untouched
<1> QED
  BY <1>1, RenderInvariant, PTL

\* The files served for an edited CV hold the edit, unless a download suspect with it.
THEOREM EditsAreServed == Spec => []EditedArtifactFresh
<1>1. RenderInv => EditedArtifactFresh
  BY DEF RenderInv
<1> QED
  BY <1>1, RenderInvariant, PTL

(***************************************************************************)
(* RenderedCv is a TailoredCv, and so everything proved of that holds.     *)
(***************************************************************************)
THEOREM RenderImplementsCv == Spec => CvSpec
<1>1. Init => CvInit
  BY DEF Init
<1>2. [Next]_vars => [CvNext]_cvVars
  BY RenderStepIsCvStep
<1> QED
  BY <1>1, <1>2, PTL DEF Spec, CvSpec

(***************************************************************************)
(* With scoring, rendering, edits and downloads going on: completions find *)
(* a row of their application, texts stay with it, generation_log links    *)
(* rows and jobs one to one, no job reopens, and the shelf keeps its       *)
(* promise.                                                                *)
(***************************************************************************)
THEOREM RenderKeepsCv ==
    Spec => /\ [](NoOrphanTailoring /\ OwnApplicationOnly /\ LogNamesOneJobPerCv)
            /\ JobsNeverReopen
            /\ ImplementsShelf
  BY RenderImplementsCv, CallbackFindsARow, TextStaysHome, LogIsOneToOne, CvJobsNeverReopen,
     CvImplementsShelf, PTL
=============================================================================
