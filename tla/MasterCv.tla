----------------------------- MODULE MasterCv ------------------------------
(***************************************************************************)
(* The versions of the master CV, and the documents rendered from it.      *)
(*                                                                         *)
(* Five ways lead to a new version: the editor's PUT, an upload, an import *)
(* from a URL, and two scripts.  Each ends by reading the active row and   *)
(* committing it inactive together with a new row, active and one version  *)
(* up.  A download is served from a file named by version, template and    *)
(* format, which is rendered when there is none of the name.  Files are    *)
(* never deleted, nor looked into: one that a converter left cut off is    *)
(* served like any other, until the next version.                          *)
(***************************************************************************)
EXTENDS Naturals, Orm

CONSTANTS
    MaxMasters,  \* bound: rows of master_cv ever inserted
    Authors,     \* threads and scripts that may be saving a version at once
    Readers,     \* threads that may be inside a download at once
    Templates    \* plain, classic, modern: SUPPORTED_TEMPLATES

ASSUME MasterCvAssumption == MaxMasters \in Nat \ {0}

VARIABLES
    masters,    \* the master_cv table by id
    author,     \* each author's place
    reader,     \* each reader's place
    files,      \* by name: the row the file was rendered from, Torn, or 0
    served,     \* each reader's last answer: the row it read and the row it was served
    collided    \* history: two authors have read the same active row

masterVars == <<masters, author, reader, files, served, collided>>

MasterIds == 1 .. MaxMasters

\* The content of a row is never changed: its id stands for it.
Master == [status: {"live"}, version: MasterIds, active: BOOLEAN]

NoMaster == [status |-> "absent"]

\* pc of an import: the steps of its three paths.  base: the active row as read, or 0.
Author == [pc: {"idle", "extract", "export", "fetch", "parse", "read", "save"},
           base: MasterIds \union {0}]

NotWriting == [pc |-> "idle", base |-> 0]

Formats == {"docx", "pdf"}

FileNames == MasterIds \X Templates \X Formats

\* The content of a file that is empty or cut off.
Torn == MaxMasters + 1

FileContents == MasterIds \union {0, Torn}

\* pc: the format that pandoc or LibreOffice is busy with.
Reader == [pc: Formats \union {"idle"}, row: MasterIds \union {0},
           template: Templates \union {"none"}, fmt: Formats \union {"none"}]

NotReading == [pc |-> "idle", row |-> 0, template |-> "none", fmt |-> "none"]

MasterTypeOK ==
    /\ masters \in [MasterIds -> Master \union {NoMaster}]
    /\ author \in [Authors -> Author]
    /\ reader \in [Readers -> Reader]
    /\ files \in [FileNames -> FileContents]
    /\ served \in [Readers -> [read: MasterIds \union {0}, got: FileContents]]
    /\ collided \in BOOLEAN

MasterInit ==
    /\ masters = [i \in MasterIds |-> NoMaster]
    /\ author = [a \in Authors |-> NotWriting]
    /\ reader = [r \in Readers |-> NotReading]
    /\ files = [f \in FileNames |-> 0]
    /\ served = [r \in Readers |-> [read |-> 0, got |-> 0]]
    /\ collided = FALSE

Active == {i \in MasterIds : masters[i] # NoMaster /\ masters[i].active}

\* _active_master: the highest version; of equals, whichever Postgres returns first.
ActiveMaster == {i \in Active : \A k \in Active : masters[k].version <= masters[i].version}

At(a, pc) == author[a].pc = pc

Goes(a, pc) ==
    /\ author' = [author EXCEPT ![a].pc = pc]
    /\ UNCHANGED <<masters, reader, files, served, collided>>

-----------------------------------------------------------------------------
(***************************************************************************)
(* The ways to a content                                                   *)
(***************************************************************************)

\* PUT /api/cv/master
Write(a) == At(a, "idle") /\ Goes(a, "read")

\* POST /master/upload: 422 for a type it does not know, an empty file, or no text in it.
Upload(a) == At(a, "idle") /\ Goes(a, "extract")

ExtractText(a) ==
    /\ At(a, "extract")
    /\ Goes(a, "parse") \/ Goes(a, "idle")

(***************************************************************************)
(* POST /master/import-url.  On the portfolio's host, with a token and no  *)
(* list of pages, the JSON export is tried and then the markdown; for      *)
(* anything else, and never after these two, pages are scraped.            *)
(***************************************************************************)
ImportUrl(a) ==
    /\ At(a, "idle")
    /\ Goes(a, "export") \/ Goes(a, "fetch")

\* A valid export, one that does not validate (502), or none: the markdown is next.
FetchExport(a) ==
    /\ At(a, "export")
    /\ Goes(a, "read") \/ Goes(a, "idle") \/ Goes(a, "fetch")

\* The markdown of the API, or of the pages scraped; 502 without.
FetchMarkdown(a) ==
    /\ At(a, "fetch")
    /\ Goes(a, "parse") \/ Goes(a, "idle")

\* claude --print turns it into JSON Resume; 502, or 422 when that does not validate.
ParseCv(a) ==
    /\ At(a, "parse")
    /\ Goes(a, "read") \/ Goes(a, "idle")

-----------------------------------------------------------------------------
(***************************************************************************)
(* _save_new_master, update_master and the scripts                         *)
(***************************************************************************)

\* What each save builds on, 0 without an active row.
ReadsBase(a) ==
    /\ \E base \in IF ActiveMaster = {} THEN {0} ELSE ActiveMaster :
          /\ author' = [author EXCEPT ![a] = [pc |-> "save", base |-> base]]
          /\ collided' = (collided \/ \E b \in Authors : At(b, "save"))
    /\ UNCHANGED <<masters, reader, files, served>>

ReadActive(a) == At(a, "read") /\ ReadsBase(a)

\* seed_master_cv.py goes on only without an active row.
Seed(a) == At(a, "idle") /\ Active = {} /\ ReadsBase(a)

\* update_master_cv_branding.py goes on only with one that it would change.
Rebrand(a) == At(a, "idle") /\ Active # {} /\ ReadsBase(a)

NextVersion(a) == IF author[a].base = 0 THEN 1 ELSE masters[author[a].base].version + 1

\* Mutant: the row read is left active.
SaveMasterBeside(a, i) ==
    /\ At(a, "save")
    /\ masters[i] = NoMaster
    /\ \A k \in MasterIds : k < i => masters[k] # NoMaster
    /\ masters' = [masters EXCEPT ![i] = [status |-> "live", version |-> NextVersion(a),
                                          active |-> TRUE]]
    /\ author' = [author EXCEPT ![a] = NotWriting]
    /\ UNCHANGED <<reader, files, served, collided>>

SaveMaster(a, i) ==
    /\ At(a, "save")
    /\ masters[i] = NoMaster
    /\ \A k \in MasterIds : k < i => masters[k] # NoMaster
    /\ masters' = [k \in MasterIds |->
         IF k = i THEN [status |-> "live", version |-> NextVersion(a), active |-> TRUE]
         ELSE IF k = author[a].base THEN [masters[k] EXCEPT !.active = FALSE]
         ELSE masters[k]]
    /\ author' = [author EXCEPT ![a] = NotWriting]
    /\ UNCHANGED <<reader, files, served, collided>>

-----------------------------------------------------------------------------
(***************************************************************************)
(* GET /master/preview and GET /master/download/{fmt}                      *)
(***************************************************************************)

\* An unknown template is "plain".  The preview renders what it reads and keeps nothing.
Preview(r) ==
    /\ reader[r] = NotReading
    /\ \E i \in ActiveMaster : served' = [served EXCEPT ![r] = [read |-> i, got |-> i]]
    /\ UNCHANGED <<masters, author, reader, files, collided>>

\* Mutant: one file for all versions.
OneFileForAll(i, template, fmt) == <<1, template, fmt>>

FileOf(i, template, fmt) == <<masters[i].version, template, fmt>>

\* The file that a reader's converter is writing.
Making(r) == FileOf(reader[r].row, reader[r].template, reader[r].pc)

Rendering == {r \in Readers : reader[r].pc # "idle"}

\* What may be read of a file: while another reader's converter writes it, a part.
Readable(r, name, content) ==
    {content} \union {Torn : q \in {q \in Rendering \ {r} : Making(q) = name}}

Answers(r, i, got) ==
    /\ served' = [served EXCEPT ![r] = [read |-> i, got |-> got]]
    /\ reader' = [reader EXCEPT ![r] = NotReading]

(***************************************************************************)
(* 404 without a master CV.  Whatever is on disk is served; when there is  *)
(* nothing the DOCX is rendered, and for a PDF it is so in any case.       *)
(***************************************************************************)
OpenDownload(r, template, fmt) ==
    /\ reader[r] = NotReading
    /\ \E i \in ActiveMaster :
          LET name == FileOf(i, template, fmt)
          IN  \/ \E got \in Readable(r, name, files[name]) \ {0} : Answers(r, i, got)
              \/ /\ files[name] = 0
                 /\ reader' = [reader EXCEPT ![r] = [pc |-> "docx", row |-> i,
                                                   template |-> template, fmt |-> fmt]]
                 /\ UNCHANGED served
    /\ UNCHANGED <<masters, author, files, collided>>

\* A converter ends with 0; if it wrote nothing, a file that was there passes for its.
Converts(name, content) ==
    \/ files' = [files EXCEPT ![name] = content]
    \/ files[name] # 0 /\ UNCHANGED files

\* Pandoc; the answer is read back from the file.
WriteDocx(r) ==
    /\ reader[r].pc = "docx"
    /\ Converts(Making(r), reader[r].row)
    /\ IF reader[r].fmt = "docx"
       THEN \E got \in Readable(r, Making(r), files'[Making(r)]) : Answers(r, reader[r].row, got)
       ELSE /\ reader' = [reader EXCEPT ![r].pc = "pdf"]
            /\ UNCHANGED served
    /\ UNCHANGED <<masters, author, collided>>

\* LibreOffice makes of the DOCX on disk what it can.
WritePdf(r) ==
    /\ reader[r].pc = "pdf"
    /\ LET docx == FileOf(reader[r].row, reader[r].template, "docx")
       IN  \E content \in Readable(r, docx, files[docx]) \ {0} : Converts(Making(r), content)
    /\ \E got \in Readable(r, Making(r), files'[Making(r)]) : Answers(r, reader[r].row, got)
    /\ UNCHANGED <<masters, author, collided>>

(***************************************************************************)
(* ConversionError: 502; a converter that exceeds its time: 500.  What it  *)
(* has written, nothing perhaps, stays where the next download finds it.   *)
(***************************************************************************)
RenderFails(r) ==
    /\ r \in Rendering
    /\ files' \in {files, [files EXCEPT ![Making(r)] = Torn]}
    /\ reader' = [reader EXCEPT ![r] = NotReading]
    /\ UNCHANGED <<masters, author, served, collided>>

\* The container restarts: the tables and the volume with the files stay as they are.
RestartMaster ==
    /\ author' = [a \in Authors |-> NotWriting]
    /\ reader' = [r \in Readers |-> NotReading]
    /\ \E cut \in SUBSET Rendering :
          files' = [f \in FileNames |-> IF \E r \in cut : Making(r) = f THEN Torn ELSE files[f]]
    /\ UNCHANGED <<masters, served, collided>>

-----------------------------------------------------------------------------

Writing(a) ==
    \/ Write(a) \/ Upload(a) \/ ExtractText(a)
    \/ ImportUrl(a) \/ FetchExport(a) \/ FetchMarkdown(a) \/ ParseCv(a)
    \/ ReadActive(a) \/ Seed(a) \/ Rebrand(a)
    \/ \E i \in MasterIds : SaveMaster(a, i)

Reading(r) ==
    \/ Preview(r)
    \/ \E template \in Templates, fmt \in Formats : OpenDownload(r, template, fmt)
    \/ WriteDocx(r) \/ WritePdf(r) \/ RenderFails(r)

MasterNext ==
    \/ \E a \in Authors : Writing(a)
    \/ \E r \in Readers : Reading(r)
    \/ RestartMaster

MasterSpec == MasterInit /\ [][MasterNext]_masterVars

-----------------------------------------------------------------------------

(***************************************************************************)
(* At most one row of master_cv is active, and no version is above its     *)
(* own: what the skills tailor is the version saved last.  The table has   *)
(* no constraint for it; two saves that read the same active row leave two *)
(* active rows of one version, and later saves deactivate one of them only.*)
(***************************************************************************)
OneActiveMaster ==
    collided \/ \A i \in Active, k \in MasterIds :
                   masters[k] # NoMaster /\ k # i =>
                       ~masters[k].active /\ masters[k].version < masters[i].version

(***************************************************************************)
(* A download never answers with another version than the row it has read, *)
(* though the file may be another request's of the same name.  The name    *)
(* has the version but not the id: versions must not repeat.  It may answer*)
(* with a torn file: what a failed, killed or concurrent converter left.   *)
(***************************************************************************)
DownloadMatchesRow ==
    collided \/ \A r \in Readers : served[r].got \in {served[r].read, Torn}
=============================================================================
