----------------------------- MODULE RenderedCv -----------------------------
(***************************************************************************)
(* The score and the files of a tailored CV.                               *)
(*                                                                         *)
(* GET /api/cv/{id}/download serves cv-<id>.docx or cv-<id>.pdf from disk  *)
(* when the row has their paths, and otherwise renders both: pandoc from   *)
(* the text it has read, soffice from the docx it finds, then one commit   *)
(* of the two paths.  That takes seconds, without a lock, and the rest of  *)
(* TailoredCv goes on meanwhile.  An edit clears the paths.                *)
(***************************************************************************)
EXTENDS TailoredCv

CONSTANT Viewers    \* threads that may be inside download_cv at once

VARIABLES
    art,     \* the columns of generated_cvs that describe the text: paths and score
    dl,      \* each viewer's place in download_cv
    files,   \* what cv-<id>.docx and cv-<id>.pdf hold on disk
    suspect  \* history: the rows last edited during a download, or whose files a converter
             \* has since not written, or not whole, without their paths being held back

renderVars == <<art, dl, files, suspect>>

vars == <<jobs, procs, cvs, gen, art, dl, files, suspect>>

(***************************************************************************)
(* paths says that docx_path and pdf_path, only ever set and cleared       *)
(* together, are set; scored is the text ats_score was computed from.      *)
(***************************************************************************)
Art == [paths: BOOLEAN, scored: Text \union {NoText}]

Download == [pc: {"docx", "pdf", "save"}, cv: CvIds, text: Text]

\* The content of a file whose writer was stopped half way, or had half a file to read.
Torn == [by |-> "half a writer"]

Files == [docx: Text \union {NoText, Torn}, pdf: Text \union {NoText, Torn}]

TypeOK ==
    /\ CvTypeOK
    /\ art \in [CvIds -> Art]
    /\ dl \in [Viewers -> Download \union {Idle}]
    /\ files \in [CvIds -> Files]
    /\ suspect \in [CvIds -> BOOLEAN]

Init ==
    /\ CvInit
    /\ art = [i \in CvIds |-> [paths |-> FALSE, scored |-> NoText]]
    /\ dl = [v \in Viewers |-> Idle]
    /\ files = [i \in CvIds |-> [docx |-> NoText, pdf |-> NoText]]
    /\ suspect = [i \in CvIds |-> FALSE]

Rendering(v, i) == dl[v] # Idle /\ dl[v].cv = i

Downloading(i) == \E v \in Viewers : Rendering(v, i)

\* Mutant: the paths stay set.
EditKeepingPaths(i, n) ==
    /\ EditCv(i, n)
    /\ suspect' = [suspect EXCEPT ![i] = Downloading(i)]
    /\ UNCHANGED <<art, dl, files>>

EditAndInvalidate(i, n) ==
    /\ EditCv(i, n)
    /\ art' = [art EXCEPT ![i].paths = FALSE]
    /\ suspect' = [suspect EXCEPT ![i] = Downloading(i)]
    /\ UNCHANGED <<dl, files>>

\* Answers 409 without content.
RescoreCv(i) ==
    /\ cvs[i] # NoCv
    /\ cvs[i].text # NoText
    /\ art' = [art EXCEPT ![i].scored = cvs[i].text]
    /\ UNCHANGED <<jobs, procs, cvs, gen, dl, files, suspect>>

\* No paths to serve.  Answers 502 without content; the text rendered is the one read here.
OpenDownload(v, i) ==
    /\ dl[v] = Idle
    /\ cvs[i] # NoCv
    /\ ~art[i].paths
    /\ cvs[i].text # NoText
    /\ dl' = [dl EXCEPT ![v] = [pc |-> "docx", cv |-> i, text |-> cvs[i].text]]
    /\ UNCHANGED <<jobs, procs, cvs, gen, art, files, suspect>>

\* pandoc writes cv-<id>.docx, a name the downloads of a row share.
RenderDocx(v) ==
    /\ dl[v].pc = "docx"
    /\ files' = [files EXCEPT ![dl[v].cv].docx = dl[v].text]
    /\ dl' = [dl EXCEPT ![v].pc = "pdf"]
    /\ UNCHANGED <<jobs, procs, cvs, gen, art, suspect>>

\* soffice converts the docx it finds on disk.
RenderPdf(v) ==
    /\ dl[v].pc = "pdf"
    /\ files' = [files EXCEPT ![dl[v].cv].pdf = files[dl[v].cv].docx]
    /\ dl' = [dl EXCEPT ![v].pc = "save"]
    /\ UNCHANGED <<jobs, procs, cvs, gen, art, suspect>>

\* The docx it finds is the one another download is writing.
RenderHalf(v) ==
    /\ dl[v].pc = "pdf"
    /\ \E u \in Viewers : dl[u].pc = "docx" /\ dl[u].cv = dl[v].cv
    /\ files' = [files EXCEPT ![dl[v].cv].pdf = Torn]
    /\ suspect' = [suspect EXCEPT ![dl[v].cv] = TRUE]
    /\ dl' = [dl EXCEPT ![v].pc = "save"]
    /\ UNCHANGED <<jobs, procs, cvs, gen, art>>

\* The conversion ends in ConversionError (502) or in TimeoutExpired, which nothing catches,
\* and may leave part of a file.  The paths stay as they are: if they are not set, nothing
\* serves the file before another download has written it anew.
RenderFails(v) ==
    LET i == dl[v].cv IN
    /\ "render_fails" \in Faults
    /\ dl[v].pc \in {"docx", "pdf"}
    /\ dl' = [dl EXCEPT ![v] = Idle]
    /\ \/ UNCHANGED <<files, suspect>>
       \/ /\ \/ dl[v].pc = "docx" /\ files' = [files EXCEPT ![i].docx = Torn]
             \/ dl[v].pc = "pdf" /\ files' = [files EXCEPT ![i].pdf = Torn]
          /\ suspect' = [suspect EXCEPT ![i] =
                           @ \/ art[i].paths \/ \E u \in Viewers \ {v} : Rendering(u, i)]
    /\ UNCHANGED <<jobs, procs, cvs, gen, art>>

\* The converter exits with 0 and writes nothing.  The test that follows is for a file of
\* that name, and passes on the one an earlier download has left.
RenderKeepsQuiet(v) ==
    /\ "quiet_render" \in Faults
    /\ dl[v].pc \in {"docx", "pdf"}
    /\ files[dl[v].cv][dl[v].pc] # NoText
    /\ dl' = [dl EXCEPT ![v].pc = IF dl[v].pc = "docx" THEN "pdf" ELSE "save"]
    /\ suspect' = [suspect EXCEPT ![dl[v].cv] = TRUE]
    /\ UNCHANGED <<jobs, procs, cvs, gen, art, files>>

\* Mutant: the paths are committed before the second conversion has run.
SaveBeforePdf(v) ==
    /\ dl[v].pc \in {"pdf", "save"}
    /\ art' = [art EXCEPT ![dl[v].cv].paths = TRUE]
    /\ dl' = [dl EXCEPT ![v] = Idle]
    /\ UNCHANGED <<jobs, procs, cvs, gen, files, suspect>>

SaveArtifacts(v) ==
    /\ dl[v].pc = "save"
    /\ art' = [art EXCEPT ![dl[v].cv].paths = TRUE]
    /\ dl' = [dl EXCEPT ![v] = Idle]
    /\ UNCHANGED <<jobs, procs, cvs, gen, files, suspect>>

\* The downloads under way die with the container; rows and files stay, those that were being
\* written with what was written of them.
RestartAll ==
    /\ Restart
    /\ \E cut \in SUBSET {v \in Viewers : dl[v].pc \in {"docx", "pdf"}} :
           LET Cut(i, pc) == \E v \in cut : Rendering(v, i) /\ dl[v].pc = pc IN
           /\ files' = [i \in CvIds |->
                 [docx |-> IF Cut(i, "docx") THEN Torn ELSE files[i].docx,
                  pdf |-> IF Cut(i, "pdf") THEN Torn ELSE files[i].pdf]]
           /\ suspect' = [i \in CvIds |->
                 suspect[i] \/ (art[i].paths /\ \E v \in cut : Rendering(v, i))]
    /\ dl' = [v \in Viewers |-> Idle]
    /\ UNCHANGED art

-----------------------------------------------------------------------------

Render(v) ==
    \/ RenderDocx(v) \/ RenderPdf(v) \/ RenderHalf(v)
    \/ RenderFails(v) \/ RenderKeepsQuiet(v)
    \/ SaveArtifacts(v)

User ==
    \E i \in CvIds :
        \/ \E n \in Versions : EditAndInvalidate(i, n)
        \/ RescoreCv(i)
        \/ \E v \in Viewers : OpenDownload(v, i)

\* generate_cv and the callbacks touch neither paths nor score, not even when a callback
\* replaces a text that has been rendered.
Tailor ==
    /\ \/ \E w \in Workers : Generate(w)
       \/ \E j \in JobIds : Skill(j)
    /\ UNCHANGED renderVars

Next ==
    \/ Tailor
    \/ User
    \/ \E v \in Viewers : Render(v)
    \/ RestartAll

Spec == Init /\ [][Next]_vars

-----------------------------------------------------------------------------
(***************************************************************************)
(* Safety                                                                  *)
(***************************************************************************)

(***************************************************************************)
(* docx_path and pdf_path never point at a file that is not there, so      *)
(* the existence test of download_cv never fails on a path that is set,    *)
(* not even after a restart or a conversion that failed half way.          *)
(***************************************************************************)
CachedPathHasFile ==
    \A i \in CvIds : art[i].paths =>
        files[i].docx # NoText /\ files[i].pdf # NoText

(***************************************************************************)
(* A CV still pending has no score and no file: nothing is computed from   *)
(* the text of a row that no callback and no user has filled.              *)
(***************************************************************************)
PendingHasNothing ==
    \A i \in CvIds : cvs[i] # NoCv /\ cvs[i].status = "pending" =>
        /\ art[i] = [paths |-> FALSE, scored |-> NoText]
        /\ files[i] = [docx |-> NoText, pdf |-> NoText]

(***************************************************************************)
(* The files served for an edited CV hold the text of the edit, however    *)
(* many downloads, failed conversions and restarts follow it, unless a     *)
(* download of the CV was under way when the edit came, a converter has    *)
(* written nothing and not said so, or one of several downloads has cut a  *)
(* file short that another serves.  A conversion that leaves half a file   *)
(* on its own does not excuse: its paths are not set.                      *)
(***************************************************************************)
Fresh(i) == files[i].docx = cvs[i].text /\ files[i].pdf = cvs[i].text

ServesEdit(i) == cvs[i] # NoCv /\ cvs[i].status = "edited" /\ art[i].paths

EditedArtifactFresh ==
    \A i \in CvIds : ServesEdit(i) /\ ~suspect[i] => Fresh(i)

(***************************************************************************)
(* Why these hold: what a download under way has read and written.  Its row*)
(* has a text, and it has written as far as its pc says; when its row was  *)
(* edited with no download under way, it read, and has written, the edit.  *)
(* A row that is not there yet has nothing either.                         *)
(***************************************************************************)
Untouched(i) ==
    /\ art[i] = [paths |-> FALSE, scored |-> NoText]
    /\ files[i] = [docx |-> NoText, pdf |-> NoText]

NothingBeforeText ==
    \A i \in CvIds :
        /\ cvs[i] = NoCv => Untouched(i)
        /\ cvs[i] # NoCv /\ cvs[i].status = "pending" => Untouched(i) /\ cvs[i].text = NoText

DownloadsHaveText ==
    \A v \in Viewers : dl[v] # Idle =>
        /\ cvs[dl[v].cv] # NoCv
        /\ cvs[dl[v].cv].status # "pending"
        /\ dl[v].pc \in {"pdf", "save"} => files[dl[v].cv].docx # NoText
        /\ dl[v].pc = "save" => files[dl[v].cv].pdf # NoText

Agrees(v) ==
    /\ dl[v].text = cvs[dl[v].cv].text
    /\ dl[v].pc \in {"pdf", "save"} => files[dl[v].cv].docx = dl[v].text
    /\ dl[v].pc = "save" => files[dl[v].cv].pdf = dl[v].text

DownloadsOfEditAgree ==
    \A v \in Viewers :
        dl[v] # Idle /\ cvs[dl[v].cv].status = "edited" /\ ~suspect[dl[v].cv] => Agrees(v)

RenderInv ==
    /\ CvInv
    /\ TypeOK
    /\ NothingBeforeText
    /\ DownloadsHaveText
    /\ DownloadsOfEditAgree
    /\ CachedPathHasFile
    /\ EditedArtifactFresh

(***************************************************************************)
(* What the comment in edit_generated says without the proviso: "Invalidate*)
(* any rendered artifacts - they're now stale."  A download that read the  *)
(* old text saves its paths after the edit has cleared them.               *)
(***************************************************************************)
EditInvalidates == \A i \in CvIds : ServesEdit(i) => Fresh(i)
=============================================================================
