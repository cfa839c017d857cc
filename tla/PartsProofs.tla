----------------------------- MODULE PartsProofs -----------------------------
(***************************************************************************)
(* Proofs about the parts that share no state with the others: Mailbox,    *)
(* MasterCv, Portfolio and Migrations, for any number of threads, rows,    *)
(* restarts and deployments, and about the four of them in one server.     *)
(***************************************************************************)
EXTENDS Parts, WellFoundedInduction, TLAPS

-----------------------------------------------------------------------------
(***************************************************************************)
(* Mailbox.                                                                *)
(***************************************************************************)

\* A test that is not outdated has loaded the row that is there.
TestsAreCurrent ==
    \A t \in Testers : tester[t] # Waiting /\ ~tester[t].stale => box = tester[t].row

BoxInv == BoxTypeOK /\ TestsAreCurrent /\ MailGoesByTestedSettings

\* Once the row is written only the tests that wrote it are not outdated.
LEMMA OutdatedTests ==
    ASSUME BoxTypeOK, NEW writers
    PROVE  /\ Outdated(writers) \in [Testers -> Testing \union {Waiting}]
           /\ \A u \in Testers \ writers :
                 Outdated(writers)[u] # Waiting => Outdated(writers)[u].stale
<1> SUFFICES ASSUME NEW u \in Testers
             PROVE  /\ Outdated(writers)[u] \in Testing \union {Waiting}
                    /\ u \notin writers /\ Outdated(writers)[u] # Waiting =>
                          Outdated(writers)[u].stale
  BY DEF Outdated
<1>1. CASE tester[u] # Waiting /\ u \notin writers
  <2>1. tester[u] \in Testing
    BY <1>1 DEF BoxTypeOK
  <2>2. Outdated(writers)[u] = [tester[u] EXCEPT !.stale = TRUE]
    BY <1>1 DEF Outdated
  <2> QED
    BY <2>1, <2>2 DEF Testing
<1>2. CASE ~(tester[u] # Waiting /\ u \notin writers)
  BY <1>2 DEF Outdated, BoxTypeOK
<1> QED
  BY <1>1, <1>2

LEMMA SaveStep ==
    ASSUME BoxInv, NEW account \in Accounts, SaveSettings(account)
    PROVE  BoxInv'
<1>1. BoxTypeOK'
  BY OutdatedTests DEF BoxInv, BoxTypeOK, SaveSettings, Box
<1>2. TestsAreCurrent'
  BY OutdatedTests DEF BoxInv, TestsAreCurrent, SaveSettings
<1>3. MailGoesByTestedSettings'
  BY DEF SaveSettings, MailGoesByTestedSettings, Resolve
<1> QED
  BY <1>1, <1>2, <1>3 DEF BoxInv

LEMMA DeleteStep ==
    ASSUME BoxInv, DeleteSettings
    PROVE  BoxInv'
<1>1. BoxTypeOK'
  BY OutdatedTests DEF BoxInv, BoxTypeOK, DeleteSettings
<1>2. TestsAreCurrent'
  BY OutdatedTests DEF BoxInv, TestsAreCurrent, DeleteSettings
<1>3. MailGoesByTestedSettings'
  BY DEF DeleteSettings, MailGoesByTestedSettings, Resolve
<1> QED
  BY <1>1, <1>2, <1>3 DEF BoxInv

LEMMA OpenTestStep ==
    ASSUME BoxInv, NEW t \in Testers, OpenTest(t)
    PROVE  BoxInv'
<1>1. BoxTypeOK'
  BY DEF BoxInv, BoxTypeOK, OpenTest, Testing
<1>2. TestsAreCurrent'
  BY DEF BoxInv, BoxTypeOK, TestsAreCurrent, OpenTest
<1>3. MailGoesByTestedSettings'
  BY DEF BoxInv, OpenTest, MailGoesByTestedSettings, Resolve
<1> QED
  BY <1>1, <1>2, <1>3 DEF BoxInv

LEMMA CloseTestStep ==
    ASSUME BoxInv, NEW t \in Testers, NEW ok \in BOOLEAN, CloseTest(t, ok)
    PROVE  BoxInv'
<1> DEFINE row == tester[t].row
           result == IF ok THEN "ok" ELSE "failed"
<1>1. tester[t] \in Testing /\ row \in Box /\ row.account \in Accounts
  BY DEF BoxInv, BoxTypeOK, CloseTest, Testing, Box
<1>2. /\ tester' \in [Testers -> Testing \union {Waiting}]
      /\ \A u \in Testers : tester'[u] # Waiting => tester'[u].stale
  BY OutdatedTests DEF BoxInv, CloseTest
<1>3. box # NoBox => /\ box \in Box
                     /\ box' \in Box
                     /\ box'.account = box.account
                     /\ box'.active = Written(box.active, row.active, ok)
                     /\ box'.test = Written(box.test, row.test, result)
  BY <1>1 DEF BoxInv, BoxTypeOK, CloseTest, Box, Written
<1>4. box = NoBox => box' = NoBox
  BY DEF CloseTest
<1>5. BoxTypeOK'
  BY <1>1, <1>2, <1>3, <1>4 DEF BoxInv, BoxTypeOK, CloseTest
<1>6. TestsAreCurrent'
  BY <1>2 DEF TestsAreCurrent
<1>7. MailGoesByTestedSettings'
  <2> SUFFICES ASSUME ~mixed'
               PROVE  /\ Resolve' \subseteq passed' \union {"environment"}
                      /\ box' # NoBox => (box'.active <=> box'.test = "ok")
    BY DEF MailGoesByTestedSettings
  <2>1. passed \subseteq passed' /\ (ok => row.account \in passed')
    BY DEF CloseTest
  <2>2. ~mixed
    BY DEF CloseTest
  <2>3. CASE box = NoBox
    BY <1>4, <2>3 DEF Resolve
  <2>4. CASE box # NoBox
    <3>1. box = row
      BY <2>4 DEF CloseTest, BoxInv, TestsAreCurrent
    <3>2. /\ box.active => box.account \in passed \union {"environment"}
          /\ box.active <=> box.test = "ok"
      BY <2>2, <2>4 DEF BoxInv, MailGoesByTestedSettings, Resolve
    <3>3. box'.active = ok /\ box'.test = result
      BY <1>3, <2>4, <3>1 DEF Written
    <3>4. box' # NoBox
      BY <1>3, <2>4 DEF Box, NoBox
    <3> QED
      BY <1>3, <2>1, <2>4, <3>1, <3>2, <3>3, <3>4 DEF Resolve
  <2> QED
    BY <2>3, <2>4
<1> QED
  BY <1>5, <1>6, <1>7 DEF BoxInv

LEMMA BoxInvInit == BoxInit => BoxInv
  BY DEF BoxInit, BoxInv, BoxTypeOK, TestsAreCurrent, MailGoesByTestedSettings, Resolve

LEMMA BoxInvStep == BoxInv /\ [BoxNext]_boxVars => BoxInv'
<1> SUFFICES ASSUME BoxInv, [BoxNext]_boxVars PROVE BoxInv'
  OBVIOUS
<1>1. CASE RestartTests
  BY <1>1 DEF RestartTests, BoxInv, BoxTypeOK, TestsAreCurrent, MailGoesByTestedSettings, Resolve
<1>2. CASE UNCHANGED boxVars
  BY <1>2 DEF boxVars, BoxInv, BoxTypeOK, TestsAreCurrent, MailGoesByTestedSettings, Resolve
<1> QED
  BY <1>1, <1>2, SaveStep, DeleteStep, OpenTestStep, CloseTestStep DEF BoxNext

LEMMA BoxInvariance == BoxSpec => []BoxInv
  BY BoxInvInit, BoxInvStep, PTL DEF BoxSpec

(***************************************************************************)
(* Mail goes by settings a test has logged in with, for any number of      *)
(* tests and of settings saved and deleted meanwhile, unless a test has    *)
(* committed over a row written since it loaded it.                        *)
(***************************************************************************)
THEOREM MailGoesByTests == BoxSpec => []MailGoesByTestedSettings
<1>1. BoxInv => MailGoesByTestedSettings
  BY DEF BoxInv
<1> QED
  BY <1>1, BoxInvariance, PTL

-----------------------------------------------------------------------------
(***************************************************************************)
(* MasterCv.                                                               *)
(***************************************************************************)

Present(i) == masters[i] # NoMaster

\* Ids are handed out in order, and a version is never above its id.
VersionsFollowIds ==
    \A i \in MasterIds : Present(i) =>
        /\ masters[i].version <= i
        /\ \A k \in MasterIds : k < i => Present(k)

\* What threads have read is there.
ReadRowsArePresent ==
    /\ \A a \in Authors : author[a].base # 0 => Present(author[a].base)
    /\ \A r \in Rendering : /\ reader[r].row \in MasterIds /\ Present(reader[r].row)
                           /\ reader[r].template \in Templates

\* What is in a file, unless it is torn, is the content of a row of the version in its name.
Named(v, content) ==
    content \in MasterIds /\ Present(content) /\ masters[content].version = v

FilesAreNamed ==
    \A v \in MasterIds, template \in Templates, fmt \in Formats :
        LET content == files[<<v, template, fmt>>]
        IN  content \in {0, Torn} \/ Named(v, content)

VersionsDiffer ==
    \A i, k \in MasterIds : Present(i) /\ Present(k) /\ masters[i].version = masters[k].version
        => i = k

\* An author about to save is the only one, and has read the active row, or there is none.
SavesAreCurrent ==
    /\ \A a, b \in Authors : At(a, "save") /\ At(b, "save") => a = b
    /\ \A a \in Authors : At(a, "save") =>
          IF author[a].base = 0 THEN \A i \in MasterIds : ~Present(i)
          ELSE author[a].base \in Active
    /\ Active = {} => \A i \in MasterIds : ~Present(i)

MasterInv ==
    /\ MasterTypeOK
    /\ VersionsFollowIds
    /\ ReadRowsArePresent
    /\ FilesAreNamed
    /\ collided \/ (VersionsDiffer /\ SavesAreCurrent)
    /\ OneActiveMaster
    /\ DownloadMatchesRow

LEMMA PresentMaster ==
    ASSUME MasterTypeOK, NEW i \in MasterIds, Present(i)
    PROVE  /\ masters[i] \in Master /\ masters[i].version \in MasterIds
           /\ masters[i].active \in BOOLEAN
           /\ i \in Nat \ {0} /\ i <= MaxMasters
           /\ masters[i].version \in Nat
  BY MasterCvAssumption DEF MasterTypeOK, Present, Master, MasterIds

\* The row a save inserts, and what it leaves of the others.
LEMMA SavedRows ==
    ASSUME MasterInv, NEW a \in Authors, NEW i \in MasterIds, SaveMaster(a, i)
    PROVE  /\ masters' \in [MasterIds -> Master \union {NoMaster}]
           /\ ~Present(i) /\ Present(i)'
           /\ author[a].base # i
           /\ masters'[i].version = NextVersion(a) /\ masters'[i].active
           /\ NextVersion(a) \in Nat /\ NextVersion(a) <= i
           /\ \A k \in MasterIds : k < i => Present(k)
           /\ \A k \in MasterIds \ {i} :
                 /\ Present(k)' <=> Present(k)
                 /\ masters'[k].version = masters[k].version
                 /\ k = author[a].base => ~masters'[k].active
                 /\ k # author[a].base => masters'[k] = masters[k]
<1> DEFINE base == author[a].base
<1>1. base \in MasterIds \union {0} /\ (base # 0 => Present(base))
  BY DEF MasterInv, MasterTypeOK, Author, ReadRowsArePresent
<1>2. ~Present(i) /\ base # i /\ \A k \in MasterIds : k < i => Present(k)
  BY <1>1, MasterCvAssumption DEF SaveMaster, Present, MasterIds
<1>3. NextVersion(a) \in MasterIds /\ NextVersion(a) <= i
  <2>1. CASE base = 0
    BY <2>1, MasterCvAssumption DEF NextVersion, MasterIds
  <2>2. CASE base # 0
    <3>1. /\ masters[base].version \in MasterIds /\ masters[base].version <= base
      BY <1>1, <2>2, PresentMaster DEF MasterInv, VersionsFollowIds
    <3>2. base < i
      BY <1>1, <1>2, <2>2, MasterCvAssumption DEF MasterInv, VersionsFollowIds, MasterIds
    <3> QED
      BY <1>1, <2>2, <3>1, <3>2, MasterCvAssumption DEF NextVersion, MasterIds
  <2> QED
    BY <2>1, <2>2
<1>4. masters'[i] = [status |-> "live", version |-> NextVersion(a), active |-> TRUE]
  BY DEF SaveMaster
<1>5. ASSUME NEW k \in MasterIds \ {i}, k # base
      PROVE  masters'[k] = masters[k]
  BY <1>5 DEF SaveMaster
<1>6. ASSUME base # 0
      PROVE  /\ masters'[base] \in Master
             /\ masters'[base].version = masters[base].version
             /\ ~masters'[base].active
  <2>1. masters[base] \in Master /\ base \in MasterIds
    BY <1>1, <1>6, PresentMaster DEF MasterInv
  <2>2. masters'[base] = [masters[base] EXCEPT !.active = FALSE]
    BY <1>2, <2>1 DEF SaveMaster
  <2> QED
    BY <2>1, <2>2 DEF Master
<1>7. NoMaster \notin Master
  BY DEF NoMaster, Master
<1>8. masters'[i] \in Master /\ Present(i)'
  <2>1. [status |-> "live", version |-> NextVersion(a), active |-> TRUE] \in Master
    BY <1>3 DEF Master
  <2>2. masters'[i] \in Master
    BY <1>4, <2>1
  <2>3. masters'[i] # NoMaster
    BY <1>7, <2>2
  <2> QED
    BY <2>2, <2>3 DEF Present
<1>9. masters' \in [MasterIds -> Master \union {NoMaster}]
  <2>1. \A k \in MasterIds : masters'[k] \in Master \union {NoMaster}
    BY <1>5, <1>6, <1>8 DEF MasterInv, MasterTypeOK, MasterIds
  <2>2. masters' = [k \in MasterIds |-> masters'[k]]
    BY DEF SaveMaster
  <2> QED
    BY <2>1, <2>2
<1>10. ASSUME NEW k \in MasterIds \ {i}
       PROVE  /\ Present(k)' <=> Present(k)
              /\ masters'[k].version = masters[k].version
  <2>1. CASE k = base
    BY <1>1, <1>6, <1>7, <2>1, MasterCvAssumption DEF Present, MasterIds
  <2>2. CASE k # base
    BY <1>5, <2>2 DEF Present
  <2> QED
    BY <2>1, <2>2
<1> QED
  BY <1>1, <1>2, <1>3, <1>4, <1>5, <1>6, <1>8, <1>9, <1>10, MasterCvAssumption DEF MasterIds

\* A step that leaves the table alone leaves what is said of it alone.
LEMMA TableStays ==
    ASSUME MasterInv, masters' = masters, collided' = collided
    PROVE  /\ VersionsFollowIds' /\ OneActiveMaster'
           /\ collided' \/ VersionsDiffer'
           /\ Active' = Active
           /\ \A i : Present(i)' <=> Present(i)
  BY DEF MasterInv, VersionsFollowIds, OneActiveMaster, VersionsDiffer, Active, Present

LEMMA GoesStep ==
    ASSUME MasterInv, NEW a \in Authors,
           NEW pc \in {"idle", "extract", "export", "fetch", "parse", "read"}, Goes(a, pc)
    PROVE  MasterInv'
<1>1. /\ author[a] \in Author
      /\ author' \in [Authors -> Author]
      /\ author'[a].pc = pc
      /\ \A b \in Authors : author'[b].base = author[b].base
      /\ \A b \in Authors \ {a} : author'[b] = author[b]
  BY DEF MasterInv, MasterTypeOK, Author, Goes
<1>2. MasterTypeOK'
  BY <1>1 DEF MasterInv, MasterTypeOK, Goes
<1>3. ReadRowsArePresent' /\ FilesAreNamed' /\ DownloadMatchesRow'
  BY <1>1, TableStays
  DEF MasterInv, ReadRowsArePresent, Rendering, FilesAreNamed, Named, DownloadMatchesRow, Goes
<1>4. collided' \/ SavesAreCurrent'
  <2>1. \A b \in Authors : At(b, "save")' => b # a /\ At(b, "save")
    BY <1>1 DEF At
  <2> QED
    BY <1>1, <2>1, TableStays DEF MasterInv, SavesAreCurrent, Goes
<1> QED
  BY <1>2, <1>3, <1>4, TableStays DEF MasterInv, Goes

LEMMA ReadActiveStep ==
    ASSUME MasterInv, NEW a \in Authors, ReadsBase(a)
    PROVE  MasterInv'
<1>1. PICK base \in IF ActiveMaster = {} THEN {0} ELSE ActiveMaster :
              /\ author' = [author EXCEPT ![a] = [pc |-> "save", base |-> base]]
              /\ collided' = (collided \/ \E b \in Authors : At(b, "save"))
  BY DEF ReadsBase
<1>2. ActiveMaster \subseteq Active /\ Active \subseteq MasterIds /\ 0 \notin MasterIds
  BY DEF ActiveMaster, Active, MasterIds
<1>3. \A i \in Active : Present(i)
  BY DEF Active, Present
<1>4. masters' = masters /\ reader' = reader /\ files' = files /\ served' = served
  BY DEF ReadsBase
<1>5. /\ author' \in [Authors -> Author]
      /\ author'[a] = [pc |-> "save", base |-> base]
      /\ \A b \in Authors \ {a} : author'[b] = author[b]
  BY <1>1, <1>2 DEF MasterInv, MasterTypeOK, Author
<1>6. MasterTypeOK'
  BY <1>1, <1>4, <1>5 DEF MasterInv, MasterTypeOK
<1>7. /\ Active' = Active
      /\ \A i : Present(i)' <=> Present(i)
      /\ VersionsFollowIds'
  BY <1>4 DEF MasterInv, VersionsFollowIds, Active, Present
<1>8. ReadRowsArePresent' /\ FilesAreNamed'
  BY <1>2, <1>3, <1>4, <1>5, <1>7
  DEF MasterInv, ReadRowsArePresent, Rendering, FilesAreNamed, Named
<1>9. ASSUME ~collided'
      PROVE  VersionsDiffer' /\ SavesAreCurrent'
  <2>1. ~collided /\ \A b \in Authors : ~At(b, "save")
    BY <1>1, <1>9
  <2>2. \A b \in Authors : At(b, "save")' => b = a
    BY <1>5, <2>1 DEF At
  <2>3. VersionsDiffer'
    BY <1>4, <2>1 DEF MasterInv, VersionsDiffer, Present
  <2>4. CASE ActiveMaster = {}
    <3>1. Active = {}
      <4>1. SUFFICES ASSUME Active # {} PROVE FALSE
        OBVIOUS
      <4>2. PICK i \in Active : TRUE
        BY <4>1
      <4>3. \A k \in Active : k = i
        BY <2>1, <4>2 DEF MasterInv, OneActiveMaster, Active
      <4>4. masters[i].version \in Nat
        BY <1>2, <1>3, <4>2, PresentMaster DEF MasterInv
      <4>5. i \in ActiveMaster
        BY <4>2, <4>3, <4>4 DEF ActiveMaster
      <4> QED
        BY <2>4, <4>5
    <3>2. base = 0
      BY <1>1, <2>4
    <3> QED
      BY <1>2, <1>5, <1>7, <2>1, <2>2, <2>3, <3>1, <3>2 DEF MasterInv, SavesAreCurrent
  <2>5. CASE ActiveMaster # {}
    <3>1. base \in Active /\ base # 0
      BY <1>1, <1>2, <2>5
    <3> QED
      BY <1>5, <1>7, <2>1, <2>2, <2>3, <3>1 DEF MasterInv, SavesAreCurrent
  <2> QED
    BY <2>4, <2>5
<1>10. OneActiveMaster' /\ DownloadMatchesRow'
  BY <1>1, <1>4, <1>7 DEF MasterInv, OneActiveMaster, DownloadMatchesRow
<1> QED
  BY <1>6, <1>7, <1>8, <1>9, <1>10 DEF MasterInv

LEMMA SaveMasterStep ==
    ASSUME MasterInv, NEW a \in Authors, NEW i \in MasterIds, SaveMaster(a, i)
    PROVE  MasterInv'
<1> DEFINE base == author[a].base
<1>1. /\ author' = [author EXCEPT ![a] = NotWriting]
      /\ reader' = reader /\ files' = files /\ served' = served /\ collided' = collided
      /\ At(a, "save")
  BY DEF SaveMaster
<1>2. /\ author'[a] = NotWriting
      /\ \A b \in Authors \ {a} : author'[b] = author[b]
      /\ author' \in [Authors -> Author]
  BY <1>1 DEF MasterInv, MasterTypeOK, Author, NotWriting
<1>3. MasterTypeOK'
  BY <1>1, <1>2, SavedRows DEF MasterInv, MasterTypeOK
<1>4. VersionsFollowIds'
  BY <1>3, SavedRows, MasterCvAssumption DEF MasterInv, VersionsFollowIds, MasterIds
<1>5. ReadRowsArePresent' /\ FilesAreNamed'
  <2>1. \A k \in MasterIds : Present(k) => Present(k)' /\ masters'[k].version = masters[k].version
    BY SavedRows
  <2>2. \A b \in Authors : author[b].base \in MasterIds \union {0}
    BY DEF MasterInv, MasterTypeOK, Author
  <2>3. \A r \in Rendering : reader[r].row \in MasterIds
    BY DEF MasterInv, ReadRowsArePresent
  <2>4. ReadRowsArePresent'
    BY <1>1, <1>2, <2>1, <2>2, <2>3 DEF MasterInv, ReadRowsArePresent, Rendering, NotWriting
  <2>5. FilesAreNamed'
    BY <1>1, <2>1 DEF MasterInv, FilesAreNamed, Named
  <2> QED
    BY <2>4, <2>5
<1>6. ASSUME ~collided'
      PROVE  VersionsDiffer' /\ SavesAreCurrent' /\ OneActiveMaster'
  <2>1. /\ VersionsDiffer /\ SavesAreCurrent
        /\ \A k \in Active, m \in MasterIds :
              Present(m) /\ m # k => ~masters[m].active /\ masters[m].version < masters[k].version
    BY <1>1, <1>6 DEF MasterInv, OneActiveMaster, Present
  <2>2. ASSUME NEW k \in MasterIds \ {i}, Present(k)
        PROVE  /\ masters'[k].version = masters[k].version
               /\ masters[k].version \in Nat
               /\ masters'[k].version < masters'[i].version
               /\ ~masters'[k].active
    <3>1. base \in Active /\ base # 0 /\ base \in MasterIds /\ Present(base)
      BY <1>1, <2>1, <2>2 DEF SavesAreCurrent, Active, MasterIds, Present
    <3>2. masters'[i].version = masters[base].version + 1
      BY <3>1, SavedRows DEF NextVersion
    <3>3. masters[k].version \in Nat /\ masters[base].version \in Nat
      BY <2>2, <3>1, PresentMaster DEF MasterInv
    <3>4. masters[k].version <= masters[base].version /\ (k # base => ~masters[k].active)
      BY <2>1, <2>2, <3>1, <3>3
    <3>5. masters'[k].version = masters[k].version /\ ~masters'[k].active
      BY <2>2, <3>4, SavedRows
    <3> QED
      BY <3>2, <3>3, <3>4, <3>5
  <2>3. ASSUME NEW k \in MasterIds
        PROVE  Present(k)' <=> Present(k) \/ k = i
    BY SavedRows
  <2>4. masters'[i].active /\ masters'[i].version \in Nat /\ ~Present(i)
    BY SavedRows
  <2>5. Active' = {i}
    BY <2>2, <2>3, <2>4 DEF Active, Present
  <2>6. OneActiveMaster'
    BY <2>2, <2>3, <2>5 DEF OneActiveMaster, Present
  <2>7. VersionsDiffer'
    <3> SUFFICES ASSUME NEW k \in MasterIds, NEW m \in MasterIds, Present(k)', Present(m)',
                        masters'[k].version = masters'[m].version
                 PROVE  k = m
      BY DEF VersionsDiffer
    <3>1. CASE k = i \/ m = i
      BY <2>2, <2>3, <2>4, <3>1
    <3>2. CASE k # i /\ m # i
      BY <2>1, <2>2, <2>3, <3>2 DEF VersionsDiffer
    <3> QED
      BY <3>1, <3>2
  <2>8. SavesAreCurrent'
    <3>1. \A b \in Authors : ~At(b, "save")'
      BY <1>1, <1>2, <2>1 DEF SavesAreCurrent, At, NotWriting
    <3> QED
      BY <2>5, <3>1 DEF SavesAreCurrent
  <2> QED
    BY <2>6, <2>7, <2>8
<1>7. OneActiveMaster' /\ DownloadMatchesRow'
  BY <1>1, <1>6 DEF MasterInv, OneActiveMaster, DownloadMatchesRow
<1> QED
  BY <1>3, <1>4, <1>5, <1>6, <1>7 DEF MasterInv

\* What is said of the files is kept where a file is torn or gets the content of its name.
LEMMA PutFile ==
    ASSUME MasterInv, masters' = masters, NEW i \in MasterIds, Present(i),
           NEW template, NEW fmt, NEW content,
           content = Torn \/ Named(masters[i].version, content),
           files' = [files EXCEPT ![FileOf(i, template, fmt)] = content]
    PROVE  files' \in [FileNames -> FileContents] /\ FilesAreNamed'
<1> DEFINE name == FileOf(i, template, fmt)
<1>1. content \in FileContents
  BY DEF Named, FileContents
<1>2. files \in [FileNames -> FileContents]
  BY DEF MasterInv, MasterTypeOK
<1>3. files' \in [FileNames -> FileContents]
  BY <1>1, <1>2
<1>4. ASSUME NEW v \in MasterIds, NEW t \in Templates, NEW f \in Formats
      PROVE  files'[<<v, t, f>>] \in {0, Torn} \/ Named(v, files'[<<v, t, f>>])
  <2>1. <<v, t, f>> \in FileNames
    BY DEF FileNames
  <2>2. CASE <<v, t, f>> = name
    <3>1. files'[<<v, t, f>>] = content /\ v = masters[i].version
      BY <1>2, <2>1, <2>2 DEF FileOf
    <3> QED
      BY <3>1
  <2>3. CASE <<v, t, f>> # name
    <3>1. files'[<<v, t, f>>] = files[<<v, t, f>>]
      BY <1>2, <2>1, <2>3
    <3> QED
      BY <3>1 DEF MasterInv, FilesAreNamed
  <2> QED
    BY <2>2, <2>3
<1> HIDE DEF name
<1> QED
  BY <1>3, <1>4 DEF FilesAreNamed, Named, Present

\* What may be read under the name of a row is torn, or of its version.
LEMMA ReadableIsNamed ==
    ASSUME MasterInv, NEW r, NEW i \in MasterIds, Present(i),
           NEW template \in Templates, NEW fmt \in Formats,
           NEW got \in Readable(r, FileOf(i, template, fmt), files[FileOf(i, template, fmt)]) \ {0}
    PROVE  got = Torn \/ Named(masters[i].version, got)
  BY PresentMaster DEF MasterInv, FilesAreNamed, FileOf, Readable

\* A reader's step: it answers with what is named by the row it read, or with a torn file.
LEMMA ServedStep ==
    ASSUME MasterInv, NEW r \in Readers, UNCHANGED <<masters, author, collided>>,
           files' \in [FileNames -> FileContents], FilesAreNamed',
           reader' \in [Readers -> Reader],
           \A q \in Readers : reader'[q] = reader[q] \/
               /\ q = r
               /\ reader'[r].pc # "idle" => /\ reader'[r].row \in MasterIds
                                           /\ Present(reader'[r].row)
                                           /\ reader'[r].template \in Templates,
           \/ served' = served
           \/ \E i \in MasterIds, got \in FileContents :
                 /\ Present(i)
                 /\ got = Torn \/ Named(masters[i].version, got)
                 /\ served' = [served EXCEPT ![r] = [read |-> i, got |-> got]]
    PROVE  MasterInv'
<1>1. /\ served' \in [Readers -> [read: MasterIds \union {0}, got: FileContents]]
      /\ DownloadMatchesRow'
  <2>1. CASE served' = served
    BY <2>1 DEF MasterInv, MasterTypeOK, DownloadMatchesRow
  <2>2. ASSUME NEW i \in MasterIds, NEW got \in FileContents, Present(i),
               got = Torn \/ Named(masters[i].version, got),
               served' = [served EXCEPT ![r] = [read |-> i, got |-> got]]
        PROVE  /\ served' \in [Readers -> [read: MasterIds \union {0}, got: FileContents]]
               /\ DownloadMatchesRow'
    <3>1. collided \/ got \in {i, Torn}
      BY <2>2 DEF MasterInv, VersionsDiffer, Named
    <3>2. [read |-> i, got |-> got] \in [read: MasterIds \union {0}, got: FileContents]
      OBVIOUS
    <3> QED
      BY <2>2, <3>1, <3>2 DEF MasterInv, MasterTypeOK, DownloadMatchesRow
  <2> QED
    BY <2>1, <2>2
<1>2. MasterTypeOK'
  BY <1>1 DEF MasterInv, MasterTypeOK
<1>3. ReadRowsArePresent'
  BY TableStays DEF MasterInv, ReadRowsArePresent, Rendering, Present
<1>4. collided' \/ SavesAreCurrent'
  BY TableStays DEF MasterInv, SavesAreCurrent, At
<1> QED
  BY <1>1, <1>2, <1>3, <1>4, TableStays DEF MasterInv

LEMMA ActiveIsPresent ==
    /\ ActiveMaster \subseteq Active /\ Active \subseteq MasterIds
    /\ \A i \in Active : Present(i)
  BY DEF ActiveMaster, Active, Present

\* The row a rendering reader has read, and the name of what its converter writes.
LEMMA RenderingReader ==
    ASSUME MasterInv, NEW r \in Rendering
    PROVE  /\ r \in Readers /\ reader[r] \in Reader /\ reader[r].pc \in Formats
           /\ reader[r].row \in MasterIds /\ Present(reader[r].row)
           /\ reader[r].template \in Templates
           /\ Making(r) \in FileNames
<1>1. /\ r \in Readers /\ reader[r] \in Reader /\ reader[r].pc # "idle"
      /\ reader[r].row \in MasterIds /\ Present(reader[r].row)
      /\ reader[r].template \in Templates
  BY DEF MasterInv, MasterTypeOK, ReadRowsArePresent, Rendering
<1>2. reader[r].pc \in Formats
  BY <1>1 DEF Reader
<1>3. masters[reader[r].row].version \in MasterIds
  BY <1>1, PresentMaster DEF MasterInv
<1> QED
  BY <1>1, <1>2, <1>3 DEF Making, FileOf, FileNames

\* An answer ends a reader's download.
LEMMA AnswersEnds ==
    ASSUME MasterInv, NEW r \in Readers, NEW i, NEW got, Answers(r, i, got)
    PROVE  /\ reader' \in [Readers -> Reader]
           /\ \A q \in Readers : reader'[q] = reader[q] \/ (q = r /\ reader'[r].pc = "idle")
           /\ served' = [served EXCEPT ![r] = [read |-> i, got |-> got]]
<1>1. NotReading \in Reader /\ NotReading.pc = "idle"
  BY DEF NotReading, Reader
<1> QED
  BY <1>1 DEF Answers, MasterInv, MasterTypeOK

LEMMA OpenDownloadStep ==
    ASSUME MasterInv, NEW r \in Readers, NEW template \in Templates, NEW fmt \in Formats,
           OpenDownload(r, template, fmt)
    PROVE  MasterInv'
<1> DEFINE Name(i) == FileOf(i, template, fmt)
           Asked(i) == [pc |-> "docx", row |-> i, template |-> template, fmt |-> fmt]
<1>1. PICK i \in ActiveMaster :
              \/ \E got \in Readable(r, Name(i), files[Name(i)]) \ {0} : Answers(r, i, got)
              \/ reader' = [reader EXCEPT ![r] = Asked(i)] /\ UNCHANGED served
  BY DEF OpenDownload
<1>2. i \in MasterIds /\ Present(i) /\ masters[i].version \in MasterIds
  BY ActiveIsPresent, PresentMaster DEF MasterInv
<1>3. UNCHANGED <<masters, author, collided>> /\ UNCHANGED files
  BY DEF OpenDownload
<1>4. files' \in [FileNames -> FileContents] /\ FilesAreNamed'
  BY <1>3 DEF MasterInv, MasterTypeOK, FilesAreNamed, Named, Present
<1>5. ASSUME NEW got \in Readable(r, Name(i), files[Name(i)]) \ {0}, Answers(r, i, got)
      PROVE  MasterInv'
  <2>1. got = Torn \/ Named(masters[i].version, got)
    BY <1>2, ReadableIsNamed
  <2>2. got \in FileContents
    BY <2>1 DEF Named, FileContents
  <2> QED
    BY <1>2, <1>3, <1>4, <1>5, <2>1, <2>2, AnswersEnds, ServedStep
<1>6. CASE reader' = [reader EXCEPT ![r] = Asked(i)] /\ UNCHANGED served
  <2>1. Asked(i) \in Reader /\ Asked(i).row = i /\ Asked(i).template = template
    BY <1>2 DEF Reader, Formats
  <2> HIDE DEF Asked
  <2>2. /\ reader' \in [Readers -> Reader]
        /\ reader'[r] = Asked(i)
        /\ \A q \in Readers \ {r} : reader'[q] = reader[q]
    BY <1>6, <2>1 DEF MasterInv, MasterTypeOK
  <2> QED
    BY <1>2, <1>3, <1>4, <1>6, <2>1, <2>2, ServedStep
<1> QED
  BY <1>1, <1>5, <1>6

LEMMA PreviewStep ==
    ASSUME MasterInv, NEW r \in Readers, Preview(r)
    PROVE  MasterInv'
<1>1. PICK i \in ActiveMaster : served' = [served EXCEPT ![r] = [read |-> i, got |-> i]]
  BY DEF Preview
<1>2. i \in MasterIds /\ Present(i) /\ Named(masters[i].version, i) /\ i \in FileContents
  BY ActiveIsPresent DEF Named, FileContents
<1>3. UNCHANGED <<masters, author, collided>> /\ UNCHANGED <<files, reader>>
  BY DEF Preview
<1>4. files' \in [FileNames -> FileContents] /\ FilesAreNamed'
  BY <1>3 DEF MasterInv, MasterTypeOK, FilesAreNamed, Named, Present
<1>5. reader' \in [Readers -> Reader] /\ \A q \in Readers : reader'[q] = reader[q]
  BY <1>3 DEF MasterInv, MasterTypeOK
<1> QED
  BY <1>1, <1>2, <1>3, <1>4, <1>5, ServedStep

LEMMA RenderFailsStep ==
    ASSUME MasterInv, NEW r \in Readers, RenderFails(r)
    PROVE  MasterInv'
<1>1. /\ reader[r].row \in MasterIds /\ Present(reader[r].row)
  BY RenderingReader DEF RenderFails
<1>2. files' \in [FileNames -> FileContents] /\ FilesAreNamed'
  <2>1. CASE files' = files
    BY <2>1 DEF RenderFails, MasterInv, MasterTypeOK, FilesAreNamed, Named, Present
  <2>2. CASE files' = [files EXCEPT ![Making(r)] = Torn]
    BY <1>1, <2>2, PutFile DEF RenderFails, Making
  <2> QED
    BY <2>1, <2>2 DEF RenderFails
<1>3. /\ reader' \in [Readers -> Reader]
      /\ \A q \in Readers : reader'[q] = reader[q] \/ (q = r /\ reader'[r].pc = "idle")
  BY DEF RenderFails, MasterInv, MasterTypeOK, Reader, NotReading
<1>4. UNCHANGED <<masters, author, collided>> /\ served' = served
  BY DEF RenderFails
<1> QED
  BY <1>2, <1>3, <1>4, ServedStep

\* What a converter that has ended leaves under a reader's name, and what is then read of it.
LEMMA ConvertedFile ==
    ASSUME MasterInv, masters' = masters, NEW r \in Rendering,
           NEW content, content = Torn \/ Named(masters[reader[r].row].version, content),
           Converts(Making(r), content)
    PROVE  /\ files' \in [FileNames -> FileContents] /\ FilesAreNamed'
           /\ \A got \in Readable(r, Making(r), files'[Making(r)]) :
                 got = Torn \/ Named(masters[reader[r].row].version, got)
<1> DEFINE i == reader[r].row
<1>1. /\ i \in MasterIds /\ Present(i) /\ masters[i].version \in MasterIds
      /\ reader[r].template \in Templates /\ reader[r].pc \in Formats
      /\ Making(r) \in FileNames
  BY RenderingReader, PresentMaster DEF MasterInv
<1>2. CASE files' = [files EXCEPT ![Making(r)] = content]
  <2>1. files' \in [FileNames -> FileContents] /\ FilesAreNamed'
    BY <1>1, <1>2, PutFile DEF Making
  <2>2. files'[Making(r)] = content
    BY <1>1, <1>2 DEF MasterInv, MasterTypeOK
  <2> QED
    BY <2>1, <2>2 DEF Readable
<1>3. CASE files[Making(r)] # 0 /\ UNCHANGED files
  <2>1. files' \in [FileNames -> FileContents] /\ FilesAreNamed'
    BY <1>3 DEF MasterInv, MasterTypeOK, FilesAreNamed, Named, Present
  <2>2. files[Making(r)] = Torn \/ Named(masters[i].version, files[Making(r)])
    BY <1>1, <1>3 DEF MasterInv, FilesAreNamed, Making, FileOf
  <2> QED
    BY <1>3, <2>1, <2>2 DEF Readable
<1> QED
  BY <1>2, <1>3 DEF Converts

LEMMA WriteDocxStep ==
    ASSUME MasterInv, NEW r \in Readers, WriteDocx(r)
    PROVE  MasterInv'
<1> DEFINE i == reader[r].row
<1>1. r \in Rendering
  BY DEF WriteDocx, Rendering
<1>2. /\ i \in MasterIds /\ Present(i) /\ reader[r].template \in Templates
      /\ reader[r] \in Reader
      /\ Named(masters[i].version, i)
  BY <1>1, RenderingReader DEF Named
<1>3. UNCHANGED <<masters, author, collided>> /\ masters' = masters
  BY DEF WriteDocx
<1>4. /\ files' \in [FileNames -> FileContents] /\ FilesAreNamed'
      /\ \A got \in Readable(r, Making(r), files'[Making(r)]) :
            got = Torn \/ Named(masters[i].version, got)
  BY <1>1, <1>2, <1>3, ConvertedFile DEF WriteDocx
<1>5. ASSUME NEW got \in Readable(r, Making(r), files'[Making(r)]), Answers(r, i, got)
      PROVE  MasterInv'
  <2>1. (got = Torn \/ Named(masters[i].version, got)) /\ got \in FileContents
    BY <1>4 DEF Named, FileContents
  <2> QED
    BY <1>2, <1>3, <1>4, <1>5, <2>1, AnswersEnds, ServedStep
<1>6. CASE reader' = [reader EXCEPT ![r].pc = "pdf"] /\ UNCHANGED served
  <2> DEFINE m == [reader[r] EXCEPT !.pc = "pdf"]
  <2>1. m \in Reader /\ m.row = i /\ m.template = reader[r].template
    BY <1>2 DEF Reader, Formats
  <2>2. reader' = [reader EXCEPT ![r] = m]
    BY <1>6
  <2> HIDE DEF m
  <2>3. /\ reader' \in [Readers -> Reader] /\ reader'[r] = m
        /\ \A q \in Readers \ {r} : reader'[q] = reader[q]
    BY <2>1, <2>2 DEF MasterInv, MasterTypeOK
  <2> QED
    BY <1>2, <1>3, <1>4, <1>6, <2>1, <2>3, ServedStep
<1> QED
  BY <1>5, <1>6 DEF WriteDocx

LEMMA WritePdfStep ==
    ASSUME MasterInv, NEW r \in Readers, WritePdf(r)
    PROVE  MasterInv'
<1> DEFINE i == reader[r].row
           docx == FileOf(i, reader[r].template, "docx")
<1>1. r \in Rendering
  BY DEF WritePdf, Rendering
<1>2. i \in MasterIds /\ Present(i) /\ reader[r].template \in Templates
  BY <1>1, RenderingReader
<1>3. UNCHANGED <<masters, author, collided>> /\ masters' = masters
  BY DEF WritePdf
<1>4. PICK content \in Readable(r, docx, files[docx]) \ {0} : Converts(Making(r), content)
  BY DEF WritePdf
<1>5. content = Torn \/ Named(masters[i].version, content)
  BY <1>2, ReadableIsNamed DEF Formats
<1>6. /\ files' \in [FileNames -> FileContents] /\ FilesAreNamed'
      /\ \A got \in Readable(r, Making(r), files'[Making(r)]) :
            got = Torn \/ Named(masters[i].version, got)
  BY <1>1, <1>3, <1>4, <1>5, ConvertedFile
<1>7. PICK got \in Readable(r, Making(r), files'[Making(r)]) : Answers(r, i, got)
  BY DEF WritePdf
<1>8. (got = Torn \/ Named(masters[i].version, got)) /\ got \in FileContents
  BY <1>6 DEF Named, FileContents
<1> QED
  BY <1>2, <1>3, <1>6, <1>7, <1>8, AnswersEnds, ServedStep

LEMMA RestartMasterStep ==
    ASSUME MasterInv, RestartMaster
    PROVE  MasterInv'
<1>1. MasterTypeOK'
  BY DEF RestartMaster, MasterInv, MasterTypeOK, Author, NotWriting, Reader, NotReading,
         FileContents
<1>2. ReadRowsArePresent' /\ DownloadMatchesRow'
  BY TableStays DEF RestartMaster, MasterInv, ReadRowsArePresent, Rendering,
     DownloadMatchesRow, NotWriting, NotReading
<1>4. FilesAreNamed'
  <2>1. \A name \in FileNames : files'[name] \in {files[name], Torn}
    BY DEF RestartMaster
  <2>2. \A v \in MasterIds, t \in Templates, f \in Formats : <<v, t, f>> \in FileNames
    BY DEF FileNames
  <2>3. masters' = masters
    BY DEF RestartMaster
  <2>4. ASSUME NEW v \in MasterIds, NEW t \in Templates, NEW f \in Formats
        PROVE  files'[<<v, t, f>>] \in {0, Torn} \/ Named(v, files'[<<v, t, f>>])
    BY <2>1, <2>2 DEF MasterInv, FilesAreNamed
  <2> QED
    BY <2>3, <2>4 DEF FilesAreNamed, Named, Present
<1>3. collided' \/ SavesAreCurrent'
  BY TableStays DEF RestartMaster, MasterInv, SavesAreCurrent, At, NotWriting
<1> QED
  BY <1>1, <1>2, <1>3, <1>4, TableStays DEF MasterInv, RestartMaster

LEMMA MasterInvInit == MasterInit => MasterInv
<1> SUFFICES ASSUME MasterInit PROVE MasterInv
  OBVIOUS
<1>1. MasterTypeOK
  BY DEF MasterInit, MasterTypeOK, Author, NotWriting, Reader, NotReading, FileContents
<1>2. \A i \in MasterIds : ~Present(i)
  BY DEF MasterInit, Present
<1>3. Active = {}
  BY <1>2 DEF Active, Present
<1>4. VersionsFollowIds /\ VersionsDiffer /\ OneActiveMaster
  BY <1>2, <1>3 DEF VersionsFollowIds, VersionsDiffer, OneActiveMaster
<1>5. ReadRowsArePresent /\ FilesAreNamed /\ DownloadMatchesRow
  BY DEF MasterInit, ReadRowsArePresent, Rendering, FilesAreNamed, FileNames,
         DownloadMatchesRow, NotWriting, NotReading
<1>6. SavesAreCurrent
  BY <1>2 DEF MasterInit, SavesAreCurrent, At, NotWriting
<1> QED
  BY <1>1, <1>4, <1>5, <1>6 DEF MasterInv

LEMMA MasterInvStep == MasterInv /\ [MasterNext]_masterVars => MasterInv'
<1> SUFFICES ASSUME MasterInv, [MasterNext]_masterVars PROVE MasterInv'
  OBVIOUS
<1>1. ASSUME NEW a \in Authors, Writing(a)
      PROVE  MasterInv'
  BY <1>1, GoesStep, ReadActiveStep, SaveMasterStep
     DEF Writing, Write, Upload, ExtractText, ImportUrl, FetchExport, FetchMarkdown, ParseCv,
         ReadActive, Seed, Rebrand
<1>2. ASSUME NEW r \in Readers, Reading(r)
      PROVE  MasterInv'
  BY <1>2, PreviewStep, OpenDownloadStep, WriteDocxStep, WritePdfStep, RenderFailsStep DEF Reading
<1>3. CASE UNCHANGED masterVars
  <2>1. ReadRowsArePresent' /\ FilesAreNamed' /\ MasterTypeOK' /\ DownloadMatchesRow'
    BY <1>3, TableStays DEF masterVars, MasterInv, ReadRowsArePresent, Rendering, FilesAreNamed,
       Named, MasterTypeOK, DownloadMatchesRow
  <2>2. collided' \/ SavesAreCurrent'
    BY <1>3, TableStays DEF masterVars, MasterInv, SavesAreCurrent, At
  <2> QED
    BY <1>3, <2>1, <2>2, TableStays DEF masterVars, MasterInv
<1> QED
  BY <1>1, <1>2, <1>3, RestartMasterStep DEF MasterNext

LEMMA MasterInvariance == MasterSpec => []MasterInv
  BY MasterInvInit, MasterInvStep, PTL DEF MasterSpec

(***************************************************************************)
(* For any number of authors and versions: one row is active, and it has   *)
(* the highest version, unless two saves have read the same active row.    *)
(***************************************************************************)
THEOREM OneMasterIsActive == MasterSpec => []OneActiveMaster
<1>1. MasterInv => OneActiveMaster
  BY DEF MasterInv
<1> QED
  BY <1>1, MasterInvariance, PTL

(***************************************************************************)
(* A download never serves another version than the row it has read,       *)
(* whatever is on disk of earlier requests, failed or killed converters, or*)
(* renderings under way: a torn file at worst, unless saves have collided. *)
(***************************************************************************)
THEOREM DownloadsMatch == MasterSpec => []DownloadMatchesRow
<1>1. MasterInv => DownloadMatchesRow
  BY DEF MasterInv
<1> QED
  BY <1>1, MasterInvariance, PTL

-----------------------------------------------------------------------------
(***************************************************************************)
(* Portfolio.                                                              *)
(***************************************************************************)

\* The rows of a key are inserted in the order of their ranks.
RanksInOrder ==
    \A key \in Keys, m, n \in Ranks :
        m < n /\ assets[<<key, m>>] = NoAsset => assets[<<key, n>>] = NoAsset

\* Two scans of a file, or two imports, under way are on record.
LookupsAreAlone ==
    /\ \A t, u \in Scanners, s \in Sources :
          Scans(t, s) /\ Scans(u, s) /\ t # u => s \in doubled
    /\ \A i, k \in Importers :
          import[i] # Idle /\ import[k] # Idle /\ i # k => Urls \subseteq doubled

\* What was not found is still not there.
LookupsAreCurrent ==
    /\ \A t \in Scanners, s \in Sources \ doubled :
          Scans(t, s) /\ scan[t].hits[s].rank = 0 => Rows(s) = {} /\ s \notin scan[t].twin
    /\ \A i \in Importers, url \in Urls \ doubled :
          import[i] # Idle /\ url \in import[i].new => Rows(url) = {}

\* A row a scan has loaded as a draft is one, or is held.
DraftsAreHeld ==
    \A x \in AssetIds \ held : Loaded(x) /\ InTable(x) => assets[x].status = "draft"

PortfolioInv ==
    /\ PortfolioTypeOK
    /\ RanksInOrder
    /\ LookupsAreAlone
    /\ LookupsAreCurrent
    /\ DraftsAreHeld
    /\ OneRowPerKey

LEMMA NextRankIsFresh ==
    ASSUME NEW key, Fresh(key) # {}
    PROVE  /\ NextRank(key) \in Fresh(key)
           /\ \A m \in Fresh(key) : NextRank(key) <= m
<1>1. Fresh(key) \in SUBSET Nat
  BY PortfolioAssumption DEF Fresh, Ranks
<1> DEFINE Less == {p \in Nat \X Nat : p[1] < p[2]}
<1>2. IsWellFoundedOn(Less, Nat)
  BY NatLessThanWellFounded DEF OpToRel
<1>3. PICK n \in Fresh(key) : \A m \in Fresh(key) : ~ (<<m, n>> \in Less)
  BY <1>1, <1>2, WFMin
<1>4. \A a, b \in Nat : <<a, b>> \in Less <=> a < b
  OBVIOUS
<1> HIDE DEF Less
<1>5. \A m \in Fresh(key) : n <= m
  <2>1. \A m \in Fresh(key) : m \in Nat /\ n \in Nat /\ ~(m < n)
    BY <1>1, <1>3, <1>4
  <2> QED
    BY <2>1
<1> QED
  BY <1>5 DEF NextRank

\* From the next rank on nothing has been inserted.
LEMMA FreshFromNext ==
    ASSUME RanksInOrder, NEW key \in Keys, Fresh(key) # {}
    PROVE  /\ NextRank(key) \in Ranks
           /\ \A n \in Ranks : n >= NextRank(key) => assets[<<key, n>>] = NoAsset
           /\ \A n \in Ranks : n < NextRank(key) => assets[<<key, n>>] # NoAsset
<1>1. NextRank(key) \in Fresh(key) /\ \A m \in Fresh(key) : NextRank(key) <= m
  BY NextRankIsFresh
<1>2. \A m \in Ranks : m \in Int
  BY PortfolioAssumption DEF Ranks
<1>3. NextRank(key) \in Ranks /\ assets[<<key, NextRank(key)>>] = NoAsset
  BY <1>1 DEF Fresh
<1>4. ASSUME NEW n \in Ranks, n >= NextRank(key)
      PROVE  assets[<<key, n>>] = NoAsset
  <2>1. CASE n = NextRank(key)
    BY <1>3, <2>1
  <2>2. CASE n > NextRank(key)
    BY <1>2, <1>3, <2>2 DEF RanksInOrder
  <2>3. n \in Int /\ NextRank(key) \in Int
    BY <1>2, <1>3
  <2> QED
    BY <1>4, <2>1, <2>2, <2>3
<1>5. ASSUME NEW n \in Ranks, n < NextRank(key), assets[<<key, n>>] = NoAsset
      PROVE  FALSE
  <2>1. n \in Fresh(key)
    BY <1>5 DEF Fresh
  <2>2. n \in Int /\ NextRank(key) \in Int /\ NextRank(key) <= n
    BY <1>1, <1>2, <1>3, <2>1
  <2> QED
    BY <1>5, <2>2
<1> QED
  BY <1>3, <1>4, <1>5

LEMMA AssetPairs == \A x \in AssetIds : x = <<x[1], x[2]>> /\ x[1] \in Keys /\ x[2] \in Ranks
  BY DEF AssetIds

LEMMA PairsAreAssets == \A key \in Keys, n \in Ranks : <<key, n>> \in AssetIds
  BY DEF AssetIds

LEMMA TableRows ==
    ASSUME PortfolioTypeOK, NEW x \in AssetIds
    PROVE  InTable(x) <=> assets[x] \in Asset
<1>1. NoAsset \notin Asset /\ DeletedAsset \notin Asset
  BY DEF NoAsset, DeletedAsset, Asset
<1> QED
  BY <1>1 DEF PortfolioTypeOK, InTable

LEMMA RowTypes ==
    /\ Idle \notin Scanning /\ Idle \notin Importing
    /\ NoAsset \notin Asset /\ DeletedAsset \notin Asset /\ NoAsset # DeletedAsset
  BY DEF Idle, Scanning, Importing, NoAsset, DeletedAsset, Asset

\* Where no row comes or goes, the rows of a key stay.
LEMMA RowsStay ==
    ASSUME NEW key \in Keys, \A n \in Ranks : InTable(<<key, n>>)' <=> InTable(<<key, n>>)
    PROVE  Rows(key)' = Rows(key) /\ (Doubled(key)' <=> Doubled(key))
  BY DEF Rows, Doubled

\* A key gets a first row, at one rank.
LEMMA FirstRow ==
    ASSUME NEW key \in Keys, NEW r, Rows(key) = {},
           \A n \in Ranks : n # r => (InTable(<<key, n>>)' <=> InTable(<<key, n>>))
    PROVE  ~Doubled(key)'
  BY DEF Rows, Doubled

-----------------------------------------------------------------------------

LEMMA ScanTypes ==
    ASSUME PortfolioTypeOK, NEW t \in Scanners, scan[t] # Idle
    PROVE  /\ scan[t] \in Scanning
           /\ scan[t].twin \subseteq Sources
           /\ DOMAIN scan[t].hits \subseteq Sources
           /\ \A s \in DOMAIN scan[t].hits : scan[t].hits[s] \in Hit
<1>1. scan[t] \in Scanning
  BY DEF PortfolioTypeOK
<1>2. scan[t].twin \subseteq Sources /\ scan[t].hits \in Hits
  BY <1>1 DEF Scanning
<1>3. PICK read \in SUBSET Sources : scan[t].hits \in [read -> Hit]
  BY <1>2 DEF Hits
<1> QED
  BY <1>1, <1>2, <1>3

LEMMA BeginScanStep ==
    ASSUME PortfolioInv, NEW t \in Scanners, NEW read \in SUBSET Sources,
           NEW twin \in SUBSET Sources, BeginScan(t, read, twin)
    PROVE  PortfolioInv'
<1> DEFINE place == [pc |-> "commit", twin |-> twin, hits |-> [s \in read |-> Found(s)]]
<1>1. /\ assets' = assets /\ disk' = disk /\ import' = import /\ held' = held
      /\ doubled \subseteq doubled'
      /\ \A s \in read, u \in Scanners : Scans(u, s) => s \in doubled'
      /\ \A s \in twin : Rows(s) = {} => s \in doubled'
      /\ scan' = [scan EXCEPT ![t] = place]
      /\ doubled' \subseteq doubled \union Sources
      /\ scan[t] = Idle
  BY DEF BeginScan
<1>2. /\ \A key : Rows(key)' = Rows(key) /\ (Doubled(key)' <=> Doubled(key))
      /\ \A x : InTable(x)' <=> InTable(x)
  BY <1>1 DEF Rows, Doubled, InTable
<1>3. ASSUME NEW s \in Sources
      PROVE  /\ Found(s) \in Hit
             /\ Found(s).rank = 0 => Rows(s) = {}
             /\ Found(s).row \in Asset \union {NoAsset}
             /\ Found(s).rank # 0 => Found(s).row = assets[<<s, Found(s).rank>>]
  <2>1. s \in Keys /\ disk[s] \in Contents
    BY DEF Keys, PortfolioInv, PortfolioTypeOK
  <2>2. CASE Rows(s) = {}
    <3>1. Found(s) = [rank |-> 0, row |-> NoAsset, says |-> disk[s]]
      BY <2>2 DEF Found
    <3> QED
      BY <2>1, <2>2, <3>1 DEF Hit
  <2>3. CASE Rows(s) # {}
    <3> DEFINE n == CHOOSE n \in Rows(s) : TRUE
    <3>1. n \in Rows(s)
      BY <2>3
    <3> HIDE DEF n
    <3>2. n \in Ranks /\ InTable(<<s, n>>) /\ <<s, n>> \in AssetIds
      BY <2>1, <3>1, PairsAreAssets DEF Rows
    <3>3. Found(s) = [rank |-> n, row |-> assets[<<s, n>>], says |-> disk[s]]
      BY <2>3 DEF Found, n
    <3>4. assets[<<s, n>>] \in Asset
      BY <3>2, TableRows DEF PortfolioInv
    <3>5. n # 0
      BY <3>2, PortfolioAssumption DEF Ranks
    <3> QED
      BY <2>1, <3>2, <3>3, <3>4, <3>5 DEF Hit
  <2> QED
    BY <2>2, <2>3
<1>4. place \in Scanning /\ place # Idle
  <2>1. [s \in read |-> Found(s)] \in [read -> Hit]
    BY <1>3
  <2>2. place \in Scanning
    BY <2>1 DEF Scanning, Hits
  <2> QED
    BY <2>2, RowTypes
<1>5. /\ scan'[t] = place
      /\ \A u \in Scanners \ {t} : scan'[u] = scan[u]
      /\ scan' \in [Scanners -> Scanning \union {Idle}]
      /\ DOMAIN scan'[t].hits = read
      /\ \A s \in read : scan'[t].hits[s] = Found(s)
      /\ scan'[t].twin = twin
  BY <1>1, <1>4 DEF PortfolioInv, PortfolioTypeOK
<1> HIDE DEF place
<1>11. /\ \A s : Scans(t, s)' <=> s \in read
       /\ \A u \in Scanners \ {t}, s \in Sources : Scans(u, s)' <=> Scans(u, s)
  BY <1>4, <1>5 DEF Scans
<1>6. PortfolioTypeOK'
  BY <1>1, <1>5 DEF PortfolioInv, PortfolioTypeOK, Keys
<1>7. LookupsAreAlone'
  <2> SUFFICES ASSUME NEW u \in Scanners, NEW v \in Scanners, NEW s \in Sources,
                      Scans(u, s)', Scans(v, s)', u # v
               PROVE  s \in doubled'
    BY <1>1 DEF PortfolioInv, LookupsAreAlone
  <2>1. CASE u # t /\ v # t
    BY <1>1, <1>11, <2>1 DEF PortfolioInv, LookupsAreAlone
  <2>2. CASE u = t \/ v = t
    BY <1>1, <1>11, <2>2
  <2> QED
    BY <2>1, <2>2
<1>8. LookupsAreCurrent'
  <2>1. ASSUME NEW u \in Scanners, NEW s \in Sources \ doubled',
               Scans(u, s)', scan'[u].hits[s].rank = 0
        PROVE  Rows(s) = {} /\ s \notin scan'[u].twin
    <3>1. CASE u = t
      BY <1>1, <1>3, <1>5, <1>11, <2>1, <3>1
    <3>2. CASE u # t
      BY <1>1, <1>5, <1>11, <2>1, <3>2 DEF PortfolioInv, LookupsAreCurrent
    <3> QED
      BY <3>1, <3>2
  <2>2. \A i \in Importers, url \in Urls \ doubled' :
            import'[i] # Idle /\ url \in import'[i].new => Rows(url) = {}
    BY <1>1 DEF PortfolioInv, LookupsAreCurrent
  <2> QED
    BY <1>2, <2>1, <2>2 DEF LookupsAreCurrent
<1>9. DraftsAreHeld'
  <2>1. ASSUME NEW x \in AssetIds, x \notin held, Loaded(x)', InTable(x)
        PROVE  assets[x].status = "draft"
    <3>1. PICK u \in Scanners : /\ Scans(u, x[1])'
                                /\ scan'[u].hits[x[1]].rank = x[2]
                                /\ scan'[u].hits[x[1]].row.status = "draft"
      BY <2>1 DEF Loaded
    <3>2. CASE u = t
      <4>1. /\ x[1] \in read
            /\ Found(x[1]).rank = x[2] /\ Found(x[1]).row.status = "draft"
        BY <1>5, <1>11, <3>1, <3>2
      <4>2. x = <<x[1], x[2]>> /\ x[2] # 0
        BY AssetPairs, PortfolioAssumption DEF Ranks
      <4> QED
        BY <1>3, <4>1, <4>2
    <3>3. CASE u # t
      BY <1>5, <2>1, <3>1, <3>3 DEF PortfolioInv, DraftsAreHeld, Loaded, Scans
    <3> QED
      BY <3>2, <3>3
  <2> QED
    BY <1>1, <1>2, <2>1 DEF DraftsAreHeld
<1>10. RanksInOrder' /\ OneRowPerKey'
  BY <1>1, <1>2 DEF PortfolioInv, RanksInOrder, OneRowPerKey
<1> QED
  BY <1>6, <1>7, <1>8, <1>9, <1>10 DEF PortfolioInv

LEMMA InsertedRanks ==
    ASSUME RanksInOrder, NEW key \in Keys, Fresh(key) # {}, NEW c \in {1, 2},
           \A n \in Ranks : IF n \in NextRank(key) .. NextRank(key) + c - 1
                            THEN assets'[<<key, n>>] # NoAsset
                            ELSE assets'[<<key, n>>] = NoAsset <=> assets[<<key, n>>] = NoAsset,
           NEW m \in Ranks, NEW n \in Ranks, m < n, assets'[<<key, m>>] = NoAsset
    PROVE  assets'[<<key, n>>] = NoAsset
<1>1. /\ NextRank(key) \in Ranks
      /\ \A k \in Ranks : k >= NextRank(key) => assets[<<key, k>>] = NoAsset
      /\ \A k \in Ranks : k < NextRank(key) => assets[<<key, k>>] # NoAsset
  BY FreshFromNext
<1>2. m \in Int /\ n \in Int /\ NextRank(key) \in Int /\ c \in Int
  BY <1>1, PortfolioAssumption DEF Ranks
<1>3. m \notin NextRank(key) .. NextRank(key) + c - 1 /\ assets[<<key, m>>] = NoAsset
  OBVIOUS
<1>4. m >= NextRank(key)
  BY <1>1, <1>2, <1>3
<1>5. m > NextRank(key) + c - 1
  BY <1>2, <1>3, <1>4
<1>6. n \notin NextRank(key) .. NextRank(key) + c - 1 /\ n >= NextRank(key)
  BY <1>2, <1>4, <1>5
<1> QED
  BY <1>1, <1>6

LEMMA ScanCloses ==
    ASSUME PortfolioTypeOK, NEW t \in Scanners, scan' = [scan EXCEPT ![t] = Idle]
    PROVE  /\ scan' \in [Scanners -> Scanning \union {Idle}]
           /\ \A u \in Scanners : scan'[u] # Idle => u # t /\ scan'[u] = scan[u]
           /\ \A s : \A u \in Scanners : Scans(u, s)' => u # t /\ Scans(u, s) /\ scan'[u] = scan[u]
           /\ \A x : Loaded(x)' => Loaded(x)
<1>1. /\ scan' \in [Scanners -> Scanning \union {Idle}]
      /\ \A u \in Scanners : scan'[u] # Idle => u # t /\ scan'[u] = scan[u]
  BY DEF PortfolioTypeOK
<1>2. \A s : \A u \in Scanners : Scans(u, s)' => u # t /\ Scans(u, s) /\ scan'[u] = scan[u]
  BY <1>1 DEF Scans
<1>3. ASSUME NEW x, Loaded(x)'
      PROVE  Loaded(x)
  BY <1>2, <1>3 DEF Loaded
<1> QED
  BY <1>1, <1>2, <1>3

\* What a row of a file becomes when the file has changed.
LEMMA RefreshedRow ==
    ASSUME NEW row \in Asset, NEW hit \in Hit
    PROVE  /\ Refreshed(row, hit) \in Asset
           /\ Refreshed(row, hit).status = row.status
           /\ Refreshed(row, hit).hint # row.hint => hit.row.status = "draft"
<1>1. CASE hit.row.hash = hit.says
  BY <1>1 DEF Refreshed
<1>2. CASE hit.row.hash # hit.says
  <2> DEFINE hash == Written(row.hash, hit.row.hash, hit.says)
             hint == IF hit.row.status = "draft"
                     THEN Written(row.hint, hit.row.hint, hit.says) ELSE row.hint
  <2>1. Refreshed(row, hit) = [row EXCEPT !.hash = hash, !.hint = hint]
    BY <1>2 DEF Refreshed
  <2>2. hash \in Contents \union {"api"} /\ hint \in Contents \union {"curated", "api"}
    BY DEF Written, Asset, Hit
  <2>3. hint # row.hint => hit.row.status = "draft"
    OBVIOUS
  <2> HIDE DEF hash, hint
  <2>4. [row EXCEPT !.hash = hash, !.hint = hint] \in Asset
    BY <2>2 DEF Asset
  <2>5. /\ [row EXCEPT !.hash = hash, !.hint = hint].status = row.status
        /\ [row EXCEPT !.hash = hash, !.hint = hint].hint = hint
    BY DEF Asset
  <2> QED
    BY <2>1, <2>3, <2>4, <2>5
<1> QED
  BY <1>1, <1>2

LEMMA DraftRow ==
    ASSUME NEW says \in Contents
    PROVE  Draft(says) \in Asset /\ Draft(says).status = "draft"
  BY DEF Draft, Asset

(***************************************************************************)
(* What a scan's commit does to the table.                                 *)
(***************************************************************************)
LEMMA CommitScanTable ==
    ASSUME PortfolioInv, NEW t \in Scanners, CommitScan(t)
    PROVE  /\ assets' \in [AssetIds -> Asset \union {NoAsset, DeletedAsset}]
           /\ \A x \in AssetIds :
                 \/ assets'[x] = assets[x]
                 \/ assets[x] = NoAsset /\ assets'[x] \in Asset /\ assets'[x].status = "draft"
                 \/ /\ InTable(x)
                    /\ assets'[x] \in Asset
                    /\ assets'[x].status = assets[x].status
                    /\ assets'[x].hint # assets[x].hint => Loaded(x)
           /\ \A key \in Keys, n \in Ranks :
                 ~Scans(t, key) => assets'[<<key, n>>] = assets[<<key, n>>]
           /\ RanksInOrder'
           /\ \A s \in Sources \ doubled : ~Doubled(s)'
<1> DEFINE hits == scan[t].hits
           read == DOMAIN hits
           new == {s \in read : hits[s].rank = 0}
<1>1. /\ scan[t] # Idle
      /\ read \subseteq Sources
      /\ \A s \in read : hits[s] \in Hit
      /\ \A s : Scans(t, s) <=> s \in read
  BY ScanTypes DEF CommitScan, PortfolioInv, Scans
<1>2. assets \in [AssetIds -> Asset \union {NoAsset, DeletedAsset}]
  BY DEF PortfolioInv, PortfolioTypeOK
<1>3. CASE assets' = assets
  <2>1. \A key : Doubled(key)' <=> Doubled(key)
    BY <1>3 DEF Doubled, Rows, InTable
  <2>2. Sources \subseteq Keys
    BY DEF Keys
  <2> QED
    BY <1>2, <1>3, <2>1, <2>2 DEF PortfolioInv, RanksInOrder, OneRowPerKey
<1>4. CASE /\ \A s \in new : Fresh(s) # {} /\ NextRank(s) + Copies(t, s) - 1 \in Ranks
           /\ assets' = [x \in AssetIds |->
                IF NewRow(t, new, x) THEN Draft(hits[x[1]].says)
                ELSE IF x[1] \in read \ new /\ x[2] = hits[x[1]].rank /\ InTable(x)
                THEN Refreshed(assets[x], hits[x[1]])
                ELSE assets[x]]
  <2> HIDE DEF hits, read
  <2>1. \A s \in read : hits[s] \in Hit /\ hits[s].says \in Contents /\ s \in Keys
    BY <1>1 DEF Hit, Keys
  <2>2. \A s : Copies(t, s) \in {1, 2}
    BY DEF Copies
  <2>3. ASSUME NEW x \in AssetIds
        PROVE  /\ NewRow(t, new, x) => /\ assets[x] = NoAsset
                                       /\ assets'[x] \in Asset
                                       /\ assets'[x].status = "draft"
               /\ ~NewRow(t, new, x) =>
                     \/ assets'[x] = assets[x]
                     \/ /\ InTable(x)
                        /\ assets'[x] \in Asset
                        /\ assets'[x].status = assets[x].status
                        /\ assets'[x].hint # assets[x].hint => Loaded(x)
    <3>1. x = <<x[1], x[2]>> /\ x[1] \in Keys /\ x[2] \in Ranks
      BY AssetPairs
    <3>2. CASE NewRow(t, new, x)
      <4>1. x[1] \in new /\ x[2] \in NextRank(x[1]) .. NextRank(x[1]) + Copies(t, x[1]) - 1
        BY <3>2 DEF NewRow
      <4>2. x[1] \in read /\ Fresh(x[1]) # {}
        BY <1>4, <4>1
      <4>3. /\ NextRank(x[1]) \in Ranks
            /\ \A n \in Ranks : n >= NextRank(x[1]) => assets[<<x[1], n>>] = NoAsset
        BY <2>1, <4>2, FreshFromNext DEF PortfolioInv
      <4>4. x[2] >= NextRank(x[1])
        BY <4>1
      <4>5. assets[x] = NoAsset
        BY <3>1, <4>3, <4>4
      <4>6. assets'[x] = Draft(hits[x[1]].says)
        BY <1>4, <3>2
      <4> QED
        BY <2>1, <3>2, <4>2, <4>5, <4>6, DraftRow
    <3>3. CASE /\ ~NewRow(t, new, x)
               /\ x[1] \in read \ new /\ x[2] = hits[x[1]].rank /\ InTable(x)
      <4>1. assets'[x] = Refreshed(assets[x], hits[x[1]])
        BY <1>4, <3>3
      <4>2. assets[x] \in Asset /\ hits[x[1]] \in Hit
        BY <2>1, <3>3, TableRows DEF PortfolioInv
      <4>3. hits[x[1]].row.status = "draft" => Loaded(x)
        BY <1>1, <3>3 DEF Loaded, hits
      <4> QED
        BY <3>3, <4>1, <4>2, <4>3, RefreshedRow
    <3>4. CASE /\ ~NewRow(t, new, x)
               /\ ~(x[1] \in read \ new /\ x[2] = hits[x[1]].rank /\ InTable(x))
      BY <1>4, <3>4
    <3> QED
      BY <3>2, <3>3, <3>4
  <2>4. assets' \in [AssetIds -> Asset \union {NoAsset, DeletedAsset}]
    <3>1. \A x \in AssetIds : assets'[x] \in Asset \union {NoAsset, DeletedAsset}
      BY <1>2, <2>3
    <3>2. assets' = [x \in AssetIds |-> assets'[x]]
      BY <1>4
    <3> QED
      BY <3>1, <3>2
  <2>5. ASSUME NEW key \in Keys, NEW n \in Ranks
        PROVE  /\ <<key, n>> \in AssetIds
               /\ NewRow(t, new, <<key, n>>) <=>
                     key \in new /\ n \in NextRank(key) .. NextRank(key) + Copies(t, key) - 1
    BY PairsAreAssets DEF NewRow
  <2>6. ASSUME NEW key \in Keys, NEW n \in Ranks, ~Scans(t, key)
        PROVE  assets'[<<key, n>>] = assets[<<key, n>>]
    <3>1. key \notin read
      BY <1>1, <2>6
    <3>2. <<key, n>> \in AssetIds /\ ~NewRow(t, new, <<key, n>>)
      BY <2>5, <3>1
    <3> QED
      BY <1>4, <3>1, <3>2
  <2>7. RanksInOrder'
    <3>1. ASSUME NEW key \in Keys, NEW m \in Ranks, NEW n \in Ranks,
                 m < n, assets'[<<key, m>>] = NoAsset
          PROVE  assets'[<<key, n>>] = NoAsset
      <4>1. \A k \in Ranks : IF NewRow(t, new, <<key, k>>)
                             THEN assets'[<<key, k>>] # NoAsset
                             ELSE assets'[<<key, k>>] = NoAsset <=> assets[<<key, k>>] = NoAsset
        BY <2>3, <2>5, RowTypes DEF InTable
      <4>2. CASE key \in new
        <5>1. Fresh(key) # {} /\ Copies(t, key) \in {1, 2}
          BY <1>4, <2>2, <4>2
        <5>2. \A k \in Ranks : IF k \in NextRank(key) .. NextRank(key) + Copies(t, key) - 1
                               THEN assets'[<<key, k>>] # NoAsset
                               ELSE assets'[<<key, k>>] = NoAsset <=> assets[<<key, k>>] = NoAsset
          BY <2>5, <4>1, <4>2
        <5> QED
          BY <3>1, <5>1, <5>2, InsertedRanks DEF PortfolioInv
      <4>3. CASE key \notin new
        <5>1. \A k \in Ranks : assets'[<<key, k>>] = NoAsset <=> assets[<<key, k>>] = NoAsset
          BY <2>5, <4>1, <4>3
        <5> QED
          BY <3>1, <5>1 DEF PortfolioInv, RanksInOrder
      <4> QED
        BY <4>2, <4>3
    <3> QED
      BY <3>1 DEF RanksInOrder
  <2>8. ASSUME NEW s \in Sources \ doubled
        PROVE  ~Doubled(s)'
    <3>1. s \in Keys
      BY DEF Keys
    <3>2. ASSUME NEW n \in Ranks, ~NewRow(t, new, <<s, n>>)
          PROVE  InTable(<<s, n>>)' <=> InTable(<<s, n>>)
      <4>1. <<s, n>> \in AssetIds
        BY <2>5, <3>1
      <4>2. \/ assets'[<<s, n>>] = assets[<<s, n>>]
            \/ InTable(<<s, n>>) /\ assets'[<<s, n>>] \in Asset
        BY <2>3, <3>2, <4>1
      <4> QED
        BY <4>2, RowTypes DEF InTable
    <3>3. CASE s \in new
      <4>1. Rows(s) = {} /\ s \notin scan[t].twin
        BY <1>1, <3>3 DEF PortfolioInv, LookupsAreCurrent, hits
      <4>2. Copies(t, s) = 1
        BY <4>1 DEF Copies
      <4>3. NextRank(s) \in Int
        BY <1>4, <3>1, <3>3, FreshFromNext, PortfolioAssumption DEF PortfolioInv, Ranks
      <4>4. \A n \in Ranks : n # NextRank(s) => ~NewRow(t, new, <<s, n>>)
        BY <2>5, <3>1, <4>2, <4>3
      <4> QED
        BY <3>1, <3>2, <4>1, <4>4, FirstRow
    <3>4. CASE s \notin new
      <4>1. \A n \in Ranks : ~NewRow(t, new, <<s, n>>)
        BY <2>5, <3>1, <3>4
      <4> QED
        BY <3>1, <3>2, <4>1, RowsStay DEF PortfolioInv, OneRowPerKey
    <3> QED
      BY <3>3, <3>4
  <2> QED
    BY <2>3, <2>4, <2>6, <2>7, <2>8
<1> QED
  BY <1>3, <1>4 DEF CommitScan

\* The keys a scan has not read keep their rows.
LEMMA ScanSparesRows ==
    ASSUME PortfolioInv, NEW t \in Scanners, CommitScan(t), NEW key \in Keys, ~Scans(t, key)
    PROVE  Rows(key)' = Rows(key) /\ (Doubled(key)' <=> Doubled(key))
<1>1. \A n \in Ranks : assets'[<<key, n>>] = assets[<<key, n>>]
  BY CommitScanTable
<1>2. \A n \in Ranks : InTable(<<key, n>>)' <=> InTable(<<key, n>>)
  BY <1>1 DEF InTable
<1> QED
  BY <1>2, RowsStay

LEMMA CommitScanStep ==
    ASSUME PortfolioInv, NEW t \in Scanners, CommitScan(t)
    PROVE  PortfolioInv'
<1>1. /\ scan[t] # Idle
      /\ scan' = [scan EXCEPT ![t] = Idle]
      /\ disk' = disk /\ import' = import /\ doubled' = doubled /\ held' = held
  BY DEF CommitScan
<1>2. PortfolioTypeOK
  BY DEF PortfolioInv
<1>3. PortfolioTypeOK'
  BY <1>1, <1>2, CommitScanTable, ScanCloses DEF PortfolioTypeOK
<1>4. \A s : \A u \in Scanners : Scans(u, s)' => u # t /\ Scans(u, s) /\ scan'[u] = scan[u]
  BY <1>1, <1>2, ScanCloses
<1>5. LookupsAreAlone'
  BY <1>1, <1>4 DEF PortfolioInv, LookupsAreAlone
<1>6. ASSUME NEW url \in Urls
      PROVE  url \in Keys /\ Rows(url)' = Rows(url) /\ (Doubled(url)' <=> Doubled(url))
  <2>1. url \in Keys /\ ~Scans(t, url)
    BY <1>1, <1>2, ScanTypes, PortfolioAssumption DEF Keys, Scans
  <2> QED
    BY <2>1, ScanSparesRows
<1>7. LookupsAreCurrent'
  <2>1. ASSUME NEW u \in Scanners, NEW s \in Sources \ doubled,
               Scans(u, s)', scan'[u].hits[s].rank = 0
        PROVE  Rows(s)' = {} /\ s \notin scan'[u].twin
    <3>1. u # t /\ Scans(u, s) /\ scan'[u] = scan[u]
      BY <1>4, <2>1
    <3>2. Rows(s) = {} /\ s \notin scan[u].twin
      BY <2>1, <3>1 DEF PortfolioInv, LookupsAreCurrent
    <3>3. ~Scans(t, s)
      BY <2>1, <3>1 DEF PortfolioInv, LookupsAreAlone
    <3>4. Rows(s)' = Rows(s)
      BY <3>3, ScanSparesRows DEF Keys
    <3> QED
      BY <3>1, <3>2, <3>4
  <2>2. \A i \in Importers, url \in Urls \ doubled :
           import'[i] # Idle /\ url \in import'[i].new => Rows(url)' = {}
    BY <1>1, <1>6 DEF PortfolioInv, LookupsAreCurrent
  <2> QED
    BY <1>1, <2>1, <2>2 DEF LookupsAreCurrent
<1>8. DraftsAreHeld'
  <2> SUFFICES ASSUME NEW x \in AssetIds, x \notin held, Loaded(x)', InTable(x)'
               PROVE  assets'[x].status = "draft"
    BY <1>1 DEF DraftsAreHeld
  <2>1. Loaded(x)
    BY <1>1, <1>2, ScanCloses
  <2>2. CASE assets'[x] = assets[x]
    BY <2>1, <2>2 DEF PortfolioInv, DraftsAreHeld, InTable
  <2>3. CASE InTable(x) /\ assets'[x].status = assets[x].status
    BY <2>1, <2>3 DEF PortfolioInv, DraftsAreHeld
  <2> QED
    BY <2>2, <2>3, CommitScanTable
<1>9. OneRowPerKey'
  BY <1>1, <1>6, CommitScanTable DEF PortfolioInv, OneRowPerKey, Keys
<1> QED
  BY <1>3, <1>5, <1>7, <1>8, <1>9, CommitScanTable DEF PortfolioInv

\* What an import's commit does to the table.
LEMMA AddedRows ==
    ASSUME PortfolioTypeOK, RanksInOrder, NEW urls \in SUBSET Urls, NEW row \in Asset,
           \A url \in urls : Fresh(url) # {}, assets' = Added(urls, row)
    PROVE  /\ assets' \in [AssetIds -> Asset \union {NoAsset, DeletedAsset}]
           /\ RanksInOrder'
           /\ \A key \in Keys, n \in Ranks :
                 IF key \in urls /\ n = NextRank(key)
                 THEN assets[<<key, n>>] = NoAsset /\ assets'[<<key, n>>] = row
                 ELSE assets'[<<key, n>>] = assets[<<key, n>>]
<1>1. ASSUME NEW key \in Keys, NEW n \in Ranks
      PROVE  assets'[<<key, n>>] = IF key \in urls /\ n = NextRank(key) THEN row
                                   ELSE assets[<<key, n>>]
  BY <1>1, PairsAreAssets DEF Added
<1>2. ASSUME NEW key \in Keys, NEW n \in Ranks, key \in urls, n = NextRank(key)
      PROVE  assets[<<key, n>>] = NoAsset
  BY <1>2, NextRankIsFresh DEF Fresh
<1>3. assets' \in [AssetIds -> Asset \union {NoAsset, DeletedAsset}]
  BY DEF PortfolioTypeOK, Added
<1>4. RanksInOrder'
  <2> SUFFICES ASSUME NEW key \in Keys, NEW m \in Ranks, NEW n \in Ranks,
                      m < n, assets'[<<key, m>>] = NoAsset
               PROVE  assets'[<<key, n>>] = NoAsset
    BY DEF RanksInOrder
  <2>1. CASE key \in urls
    <3>1. Fresh(key) # {} /\ NextRank(key) \in Int
      BY <2>1, FreshFromNext, PortfolioAssumption DEF Ranks
    <3>2. \A k \in Ranks : k \in NextRank(key) .. NextRank(key) + 1 - 1 <=> k = NextRank(key)
      BY <3>1, PortfolioAssumption DEF Ranks
    <3>3. \A k \in Ranks : IF k \in NextRank(key) .. NextRank(key) + 1 - 1
                           THEN assets'[<<key, k>>] # NoAsset
                           ELSE assets'[<<key, k>>] = NoAsset <=> assets[<<key, k>>] = NoAsset
      BY <1>1, <2>1, <3>2, RowTypes
    <3>4. 1 \in {1, 2}
      OBVIOUS
    <3> QED
      BY <3>1, <3>3, <3>4, InsertedRanks
  <2>2. CASE key \notin urls
    BY <1>1, <2>2 DEF RanksInOrder
  <2> QED
    BY <2>1, <2>2
<1> QED
  BY <1>1, <1>2, <1>3, <1>4

LEMMA ImportedRow ==
    ASSUME NEW status \in {"draft", "published"}
    PROVE  Imported(status) \in Asset
  BY DEF Imported, Asset

\* A step that adds rows for urls and changes nothing a scan has looked up.
LEMMA AddedStep ==
    ASSUME PortfolioInv, NEW urls \in SUBSET Urls, NEW row \in Asset,
           \A url \in urls : Fresh(url) # {}, assets' = Added(urls, row),
           UNCHANGED <<disk, scan, held>>,
           import' \in [Importers -> Importing \union {Idle}],
           \A i \in Importers : import'[i] # Idle => import'[i] = import[i],
           doubled' \in SUBSET Keys, doubled \subseteq doubled',
           \A url \in urls \ doubled' : Rows(url) = {},
           \A i \in Importers : import'[i] # Idle => urls \subseteq doubled'
    PROVE  PortfolioInv'
<1>1. PortfolioTypeOK /\ RanksInOrder
  BY DEF PortfolioInv
<1> DEFINE Change(key, n) ==
      IF key \in urls /\ n = NextRank(key)
      THEN assets[<<key, n>>] = NoAsset /\ assets'[<<key, n>>] = row
      ELSE assets'[<<key, n>>] = assets[<<key, n>>]
<1>2. /\ assets' \in [AssetIds -> Asset \union {NoAsset, DeletedAsset}]
      /\ RanksInOrder'
      /\ \A key \in Keys, n \in Ranks : Change(key, n)
  BY <1>1, AddedRows
<1>3. PortfolioTypeOK'
  BY <1>1, <1>2 DEF PortfolioTypeOK
<1>4. LookupsAreAlone'
  BY DEF PortfolioInv, LookupsAreAlone, Scans
<1>5. ASSUME NEW key \in Keys, key \notin urls
      PROVE  Rows(key)' = Rows(key) /\ (Doubled(key)' <=> Doubled(key))
  <2>1. \A n \in Ranks : assets'[<<key, n>>] = assets[<<key, n>>]
    BY <1>2, <1>5
  <2>2. \A n \in Ranks : InTable(<<key, n>>)' <=> InTable(<<key, n>>)
    BY <2>1 DEF InTable
  <2> QED
    BY <2>2, RowsStay
<1>6. Sources \subseteq Keys /\ Urls \subseteq Keys /\ Sources \intersect urls = {}
  BY PortfolioAssumption DEF Keys
<1>7. LookupsAreCurrent'
  <2>1. ASSUME NEW t \in Scanners, NEW s \in Sources \ doubled',
               Scans(t, s), scan[t].hits[s].rank = 0
        PROVE  Rows(s)' = {} /\ s \notin scan[t].twin
    BY <1>5, <1>6, <2>1 DEF PortfolioInv, LookupsAreCurrent
  <2>2. ASSUME NEW i \in Importers, NEW url \in Urls \ doubled',
               import'[i] # Idle, url \in import'[i].new
        PROVE  Rows(url)' = {}
    BY <1>5, <1>6, <2>2 DEF PortfolioInv, LookupsAreCurrent
  <2> QED
    BY <2>1, <2>2 DEF LookupsAreCurrent, Scans
<1>8. DraftsAreHeld'
  <2> SUFFICES ASSUME NEW x \in AssetIds, x \notin held, Loaded(x)', InTable(x)'
               PROVE  assets'[x].status = "draft"
    BY DEF DraftsAreHeld
  <2>1. Loaded(x) /\ x[1] \in Sources
    BY <1>1, ScanTypes DEF Loaded, Scans
  <2>2. x = <<x[1], x[2]>> /\ x[1] \in Keys /\ x[2] \in Ranks
    BY AssetPairs
  <2>3. assets'[x] = assets[x]
    BY <1>2, <1>6, <2>1, <2>2
  <2> QED
    BY <2>1, <2>3 DEF PortfolioInv, DraftsAreHeld, InTable
<1>9. OneRowPerKey'
  <2> SUFFICES ASSUME NEW key \in Keys \ doubled'
               PROVE  ~Doubled(key)'
    BY DEF OneRowPerKey
  <2>1. CASE key \in urls
    <3>1. Rows(key) = {}
      BY <2>1
    <3>2. \A n \in Ranks : n # NextRank(key) => assets'[<<key, n>>] = assets[<<key, n>>]
      BY <1>2
    <3>3. \A n \in Ranks :
             n # NextRank(key) => (InTable(<<key, n>>)' <=> InTable(<<key, n>>))
      BY <3>2 DEF InTable
    <3> QED
      BY <3>1, <3>3, FirstRow
  <2>2. CASE key \notin urls
    BY <1>5, <2>2 DEF PortfolioInv, OneRowPerKey
  <2> QED
    BY <2>1, <2>2
<1> QED
  BY <1>2, <1>3, <1>4, <1>7, <1>8, <1>9 DEF PortfolioInv

LEMMA CommitImportStep ==
    ASSUME PortfolioInv, NEW i \in Importers, CommitImport(i)
    PROVE  PortfolioInv'
<1>1. import[i] \in Importing /\ import[i] # Idle /\ import[i].new \in SUBSET Urls
  BY DEF CommitImport, PortfolioInv, PortfolioTypeOK, Importing
<1>2. /\ import' \in [Importers -> Importing \union {Idle}]
      /\ \A k \in Importers : import'[k] # Idle => k # i /\ import'[k] = import[k]
  BY DEF CommitImport, PortfolioInv, PortfolioTypeOK
<1>3. Imported("draft") \in Asset
  BY ImportedRow
<1>4. /\ doubled' = doubled /\ doubled \in SUBSET Keys
      /\ disk' = disk /\ scan' = scan /\ held' = held
      /\ \A url \in import[i].new : Fresh(url) # {}
      /\ assets' = Added(import[i].new, Imported("draft"))
  BY DEF CommitImport, PortfolioInv, PortfolioTypeOK
<1>5. \A url \in import[i].new \ doubled' : Rows(url) = {}
  BY <1>1, <1>4 DEF PortfolioInv, LookupsAreCurrent
<1>6. \A k \in Importers : import'[k] # Idle => import[i].new \subseteq doubled'
  BY <1>1, <1>2, <1>4 DEF PortfolioInv, LookupsAreAlone
<1> QED
  BY <1>1, <1>2, <1>3, <1>4, <1>5, <1>6, AddedStep

LEMMA AddUncheckedStep ==
    ASSUME PortfolioInv, NEW urls \in SUBSET Urls, NEW status \in {"draft", "published"},
           AddUnchecked(urls, status)
    PROVE  PortfolioInv'
<1>1. Imported(status) \in Asset
  BY ImportedRow
<1>2. /\ import' = import /\ disk' = disk /\ scan' = scan /\ held' = held
      /\ import \in [Importers -> Importing \union {Idle}]
      /\ doubled' = doubled \union urls /\ doubled' \in SUBSET Keys
      /\ \A url \in urls : Fresh(url) # {}
      /\ assets' = Added(urls, Imported(status))
  BY DEF AddUnchecked, PortfolioInv, PortfolioTypeOK, Keys
<1> QED
  BY <1>1, <1>2, AddedStep

LEMMA BeginImportStep ==
    ASSUME PortfolioInv, NEW i \in Importers, NEW urls \in SUBSET Urls, BeginImport(i, urls)
    PROVE  PortfolioInv'
<1> DEFINE place == [pc |-> "commit", new |-> Unseen(urls)]
<1>1. /\ assets' = assets /\ disk' = disk /\ scan' = scan /\ held' = held
      /\ import' = [import EXCEPT ![i] = place]
      /\ doubled \subseteq doubled' /\ doubled' \subseteq doubled \union Urls
      /\ (\E k \in Importers : import[k] # Idle) => Urls \subseteq doubled'
      /\ import[i] = Idle
  BY DEF BeginImport
<1>2. /\ \A key : Rows(key)' = Rows(key) /\ (Doubled(key)' <=> Doubled(key))
      /\ \A x : InTable(x)' <=> InTable(x)
  BY <1>1 DEF Rows, Doubled, InTable
<1>3. /\ Unseen(urls) \subseteq Urls
      /\ \A url \in Unseen(urls) : Rows(url) = {}
  BY DEF Unseen
<1>4. place \in Importing /\ place # Idle /\ place.new = Unseen(urls)
  <2>1. place \in Importing /\ place.new = Unseen(urls)
    BY <1>3 DEF Importing
  <2> QED
    BY <2>1, RowTypes
<1> HIDE DEF place
<1>5. /\ import' \in [Importers -> Importing \union {Idle}]
      /\ import'[i] = place
      /\ \A k \in Importers \ {i} : import'[k] = import[k]
  BY <1>1, <1>4 DEF PortfolioInv, PortfolioTypeOK
<1>6. PortfolioTypeOK'
  BY <1>1, <1>5 DEF PortfolioInv, PortfolioTypeOK, Keys
<1>7. LookupsAreAlone'
  BY <1>1, <1>5 DEF PortfolioInv, LookupsAreAlone, Scans
<1>8. LookupsAreCurrent'
  <2>1. ASSUME NEW k \in Importers, NEW url \in Urls \ doubled',
               import'[k] # Idle, url \in import'[k].new
        PROVE  Rows(url) = {}
    <3>1. CASE k = i
      BY <1>3, <1>4, <1>5, <2>1, <3>1
    <3>2. CASE k # i
      BY <1>1, <1>5, <2>1, <3>2 DEF PortfolioInv, LookupsAreCurrent
    <3> QED
      BY <3>1, <3>2
  <2> QED
    BY <1>1, <1>2, <2>1 DEF PortfolioInv, LookupsAreCurrent, Scans
<1>9. DraftsAreHeld' /\ RanksInOrder' /\ OneRowPerKey'
  BY <1>1, <1>2 DEF PortfolioInv, DraftsAreHeld, Loaded, Scans, RanksInOrder, OneRowPerKey
<1> QED
  BY <1>6, <1>7, <1>8, <1>9 DEF PortfolioInv

\* A step of the user at one row, that keeps its place in the table or empties it.
LEMMA RowStep ==
    ASSUME PortfolioInv, NEW x \in AssetIds, NEW row \in Asset \union {DeletedAsset},
           InTable(x), assets' = [assets EXCEPT ![x] = row],
           UNCHANGED <<disk, scan, import, doubled>>, held' \in SUBSET AssetIds,
           held \ {x} \subseteq held',
           x \notin held' =>
               \/ ~Loaded(x)
               \/ row = DeletedAsset
    PROVE  PortfolioInv'
<1>1. /\ assets' \in [AssetIds -> Asset \union {NoAsset, DeletedAsset}]
      /\ assets'[x] = row /\ row # NoAsset /\ assets[x] # NoAsset
      /\ \A y \in AssetIds \ {x} : assets'[y] = assets[y]
  BY RowTypes DEF PortfolioInv, PortfolioTypeOK, InTable
<1>2. PortfolioTypeOK'
  BY <1>1 DEF PortfolioInv, PortfolioTypeOK
<1>3. \A y \in AssetIds : /\ InTable(y)' => InTable(y)
                          /\ assets'[y] = NoAsset <=> assets[y] = NoAsset
  BY <1>1 DEF InTable
<1>4. \A key \in Keys : Rows(key)' \subseteq Rows(key)
  BY <1>3, PairsAreAssets DEF Rows
<1>5. RanksInOrder'
  BY <1>3, PairsAreAssets DEF PortfolioInv, RanksInOrder
<1>6. OneRowPerKey'
  BY <1>4 DEF PortfolioInv, OneRowPerKey, Doubled
<1>7. LookupsAreAlone' /\ LookupsAreCurrent'
  BY <1>4 DEF PortfolioInv, LookupsAreAlone, LookupsAreCurrent, Scans, Keys
<1>8. DraftsAreHeld'
  <2> SUFFICES ASSUME NEW y \in AssetIds, y \notin held', Loaded(y)', InTable(y)'
               PROVE  assets'[y].status = "draft"
    BY DEF DraftsAreHeld
  <2>1. Loaded(y)
    BY DEF Loaded, Scans
  <2>2. y # x
    BY <1>1, <2>1 DEF InTable
  <2> QED
    BY <1>1, <1>3, <2>1, <2>2 DEF PortfolioInv, DraftsAreHeld
<1> QED
  BY <1>2, <1>5, <1>6, <1>7, <1>8 DEF PortfolioInv

LEMMA ReviewAssetStep ==
    ASSUME PortfolioInv, NEW x \in AssetIds, NEW status \in {"published", "skipped"},
           ReviewAsset(x, status)
    PROVE  PortfolioInv'
<1> DEFINE row == [assets[x] EXCEPT !.status = status]
<1>1. assets[x] \in Asset
  BY TableRows DEF ReviewAsset, PortfolioInv
<1>2. row \in Asset
  BY <1>1 DEF Asset
<1>3. assets' = [assets EXCEPT ![x] = row] /\ InTable(x)
  BY DEF ReviewAsset
<1> HIDE DEF row
<1>4. /\ UNCHANGED <<disk, scan, import, doubled>>
      /\ held' \in SUBSET AssetIds /\ held \ {x} \subseteq held'
      /\ x \notin held' => ~Loaded(x)
  BY DEF ReviewAsset, PortfolioInv, PortfolioTypeOK
<1> QED
  BY <1>2, <1>3, <1>4, RowStep

LEMMA CurateHintStep ==
    ASSUME PortfolioInv, NEW x \in AssetIds, CurateHint(x)
    PROVE  PortfolioInv'
<1> DEFINE row == [assets[x] EXCEPT !.hint = "curated"]
<1>1. assets[x] \in Asset
  BY TableRows DEF CurateHint, PortfolioInv
<1>2. row \in Asset
  BY <1>1 DEF Asset
<1>3. assets' = [assets EXCEPT ![x] = row] /\ InTable(x)
  BY DEF CurateHint
<1> HIDE DEF row
<1>4. /\ UNCHANGED <<disk, scan, import, doubled>>
      /\ held' \in SUBSET AssetIds /\ held \ {x} \subseteq held'
      /\ x \notin held' => ~Loaded(x)
  BY DEF CurateHint, PortfolioInv, PortfolioTypeOK
<1> QED
  BY <1>2, <1>3, <1>4, RowStep

LEMMA DeleteAssetStep ==
    ASSUME PortfolioInv, NEW x \in AssetIds, DeleteAsset(x)
    PROVE  PortfolioInv'
<1>1. /\ UNCHANGED <<disk, scan, import, doubled>>
      /\ held' \in SUBSET AssetIds /\ held \ {x} \subseteq held'
      /\ InTable(x) /\ assets' = [assets EXCEPT ![x] = DeletedAsset]
  BY DEF DeleteAsset, PortfolioInv, PortfolioTypeOK
<1> QED
  BY <1>1, RowStep

\* The row enters the table once more, for the url, and leaves it for the url it had.
LEMMA PatchUrlStep ==
    ASSUME PortfolioInv, NEW x \in AssetIds, NEW url \in Urls, PatchUrl(x, url)
    PROVE  PortfolioInv'
<1> DEFINE y == <<url, NextRank(url)>>
<1>1. /\ InTable(x) /\ x[1] # url /\ Fresh(url) # {} /\ url \in doubled'
      /\ doubled' = doubled \union {url}
      /\ UNCHANGED <<disk, scan, import, held>>
      /\ PortfolioTypeOK /\ RanksInOrder
  BY DEF PatchUrl, PortfolioInv
<1>2. /\ url \in Keys /\ NextRank(url) \in Ranks
      /\ Sources \subseteq Keys /\ Urls \subseteq Keys /\ Sources \intersect Urls = {}
  BY <1>1, FreshFromNext, PortfolioAssumption DEF Keys
<1>3. y \in AssetIds /\ x # y /\ assets[y] = NoAsset
  BY <1>1, <1>2, PairsAreAssets, NextRankIsFresh DEF Fresh
<1>4. /\ assets'[y] = assets[x] /\ assets[x] \in Asset
      /\ \A z \in AssetIds \ {y} :
            \/ assets'[z] = assets[z]
            \/ z = x /\ x[1] \in Urls /\ assets'[z] = DeletedAsset
      /\ assets' \in [AssetIds -> Asset \union {NoAsset, DeletedAsset}]
  <2>1. assets' = [z \in AssetIds |-> IF z = y THEN assets[x]
                                     ELSE IF z = x /\ x[1] \in Urls THEN DeletedAsset
                                     ELSE assets[z]]
    BY DEF PatchUrl
  <2>2. assets[x] \in Asset
    BY <1>1, TableRows
  <2> HIDE DEF y
  <2>3. assets'[y] = assets[x]
    BY <1>3, <2>1
  <2>4. ASSUME NEW z \in AssetIds, z # y
        PROVE  \/ assets'[z] = assets[z]
               \/ z = x /\ x[1] \in Urls /\ assets'[z] = DeletedAsset
    BY <2>1, <2>4
  <2>5. \A z \in AssetIds : assets'[z] \in Asset \union {NoAsset, DeletedAsset}
    BY <1>1, <2>2, <2>3, <2>4 DEF PortfolioTypeOK
  <2>6. assets' = [z \in AssetIds |-> assets'[z]]
    BY <2>1
  <2> QED
    BY <2>2, <2>3, <2>4, <2>5, <2>6
<1>5. \A z \in AssetIds \ {y} :
         /\ InTable(z)' => InTable(z)
         /\ assets'[z] = NoAsset <=> assets[z] = NoAsset
  BY <1>1, <1>4, RowTypes DEF InTable
<1>6. ASSUME NEW key \in Keys, key # url
      PROVE  Rows(key)' \subseteq Rows(key)
  <2>1. \A n \in Ranks : <<key, n>> \in AssetIds \ {y}
    BY <1>6, PairsAreAssets
  <2> QED
    BY <1>5, <2>1 DEF Rows
<1>7. PortfolioTypeOK'
  BY <1>1, <1>2, <1>4 DEF PortfolioTypeOK
<1>8. RanksInOrder'
  <2> SUFFICES ASSUME NEW key \in Keys, NEW m \in Ranks, NEW n \in Ranks,
                      m < n, assets'[<<key, m>>] = NoAsset
               PROVE  assets'[<<key, n>>] = NoAsset
    BY DEF RanksInOrder
  <2>1. \A k \in Ranks : <<key, k>> \in AssetIds
    BY PairsAreAssets
  <2>2. CASE key = url
    <3>1. \A k \in Ranks : k \in NextRank(url) .. NextRank(url) + 1 - 1 <=> k = NextRank(url)
      BY <1>2, PortfolioAssumption DEF Ranks
    <3>2. \A k \in Ranks : IF k = NextRank(url)
                           THEN assets'[<<url, k>>] # NoAsset
                           ELSE assets'[<<url, k>>] = NoAsset <=> assets[<<url, k>>] = NoAsset
      BY <1>4, <1>5, <2>1, <2>2, RowTypes
    <3>3. \A k \in Ranks : IF k \in NextRank(url) .. NextRank(url) + 1 - 1
                           THEN assets'[<<url, k>>] # NoAsset
                           ELSE assets'[<<url, k>>] = NoAsset <=> assets[<<url, k>>] = NoAsset
      BY <3>1, <3>2
    <3>4. 1 \in {1, 2}
      OBVIOUS
    <3> QED
      BY <1>1, <1>2, <2>2, <3>3, <3>4, InsertedRanks
  <2>3. CASE key # url
    <3>1. \A k \in Ranks : <<key, k>> # y
      BY <2>3
    <3>2. \A k \in Ranks : assets'[<<key, k>>] = NoAsset <=> assets[<<key, k>>] = NoAsset
      BY <1>5, <2>1, <3>1
    <3> QED
      BY <1>1, <3>2 DEF RanksInOrder
  <2> QED
    BY <2>2, <2>3
<1>9. LookupsAreAlone'
  BY <1>1 DEF PortfolioInv, LookupsAreAlone, Scans
<1>10. LookupsAreCurrent'
  BY <1>1, <1>2, <1>6 DEF PortfolioInv, LookupsAreCurrent, Scans
<1>11. DraftsAreHeld'
  <2> SUFFICES ASSUME NEW z \in AssetIds, z \notin held, Loaded(z)', InTable(z)'
               PROVE  assets'[z].status = "draft"
    BY <1>1 DEF DraftsAreHeld
  <2>1. Loaded(z) /\ z[1] \in Sources
    BY <1>1, ScanTypes DEF Loaded, Scans
  <2>2. z # y /\ ~(z = x /\ x[1] \in Urls)
    BY <1>2, <2>1
  <2>3. assets'[z] = assets[z]
    BY <1>4, <2>2
  <2> QED
    BY <2>1, <2>3 DEF PortfolioInv, DraftsAreHeld, InTable
<1>12. OneRowPerKey'
  BY <1>1, <1>6 DEF PortfolioInv, OneRowPerKey, Doubled
<1> QED
  BY <1>7, <1>8, <1>9, <1>10, <1>11, <1>12 DEF PortfolioInv

\* A step that leaves the table alone, and each lookup under way as it is, or over.
LEMMA QuietStep ==
    ASSUME PortfolioInv, UNCHANGED <<assets, doubled, held>>,
           disk' \in [Sources -> Contents],
           scan' \in [Scanners -> Scanning \union {Idle}],
           import' \in [Importers -> Importing \union {Idle}],
           \A t \in Scanners : scan'[t] = Idle \/ scan'[t] = scan[t],
           \A i \in Importers : import'[i] = Idle \/ import'[i] = import[i]
    PROVE  PortfolioInv'
<1>1. PortfolioTypeOK'
  BY DEF PortfolioInv, PortfolioTypeOK
<1>2. /\ \A key : Rows(key)' = Rows(key) /\ (Doubled(key)' <=> Doubled(key))
      /\ \A x : InTable(x)' <=> InTable(x)
      /\ \A s : \A t \in Scanners : Scans(t, s)' => Scans(t, s) /\ scan'[t] = scan[t]
  BY DEF Doubled, Rows, InTable, Scans
<1>6. ASSUME NEW x, Loaded(x)'
      PROVE  Loaded(x)
  BY <1>2, <1>6 DEF Loaded
<1>3. RanksInOrder' /\ OneRowPerKey' /\ DraftsAreHeld'
  BY <1>2, <1>6 DEF PortfolioInv, RanksInOrder, OneRowPerKey, DraftsAreHeld
<1>4. LookupsAreAlone'
  BY <1>2 DEF PortfolioInv, LookupsAreAlone
<1>5. LookupsAreCurrent'
  BY <1>2 DEF PortfolioInv, LookupsAreCurrent
<1> QED
  BY <1>1, <1>3, <1>4, <1>5 DEF PortfolioInv

LEMMA EditFileStep ==
    ASSUME PortfolioInv, NEW s \in Sources, NEW says \in Contents, EditFile(s, says)
    PROVE  PortfolioInv'
  BY QuietStep DEF EditFile, PortfolioInv, PortfolioTypeOK

LEMMA RestartPortfolioStep ==
    ASSUME PortfolioInv, RestartPortfolio
    PROVE  PortfolioInv'
  BY QuietStep DEF RestartPortfolio, PortfolioInv, PortfolioTypeOK

LEMMA PortfolioInvInit == PortfolioInit => PortfolioInv
<1> SUFFICES ASSUME PortfolioInit PROVE PortfolioInv
  OBVIOUS
<1>1. PortfolioTypeOK
  BY DEF PortfolioInit, PortfolioTypeOK
<1>2. \A x \in AssetIds : assets[x] = NoAsset /\ ~InTable(x)
  BY DEF PortfolioInit, InTable
<1>3. RanksInOrder /\ OneRowPerKey
  BY <1>2, PairsAreAssets DEF RanksInOrder, OneRowPerKey, Doubled, Rows
<1>4. LookupsAreAlone /\ LookupsAreCurrent /\ DraftsAreHeld
  BY DEF PortfolioInit, LookupsAreAlone, LookupsAreCurrent, DraftsAreHeld, Loaded, Scans
<1> QED
  BY <1>1, <1>3, <1>4 DEF PortfolioInv

LEMMA PortfolioInvStep == PortfolioInv /\ [PortfolioNext]_portfolioVars => PortfolioInv'
<1> SUFFICES ASSUME PortfolioInv, [PortfolioNext]_portfolioVars PROVE PortfolioInv'
  OBVIOUS
<1>1. CASE UNCHANGED portfolioVars
  BY <1>1, QuietStep DEF portfolioVars, PortfolioInv, PortfolioTypeOK
<1>2. CASE PortfolioNext
  BY <1>2, CommitScanStep, BeginScanStep, CommitImportStep, BeginImportStep,
     AddUncheckedStep, EditFileStep, ReviewAssetStep, CurateHintStep, PatchUrlStep,
     DeleteAssetStep, RestartPortfolioStep
     DEF PortfolioNext
<1> QED
  BY <1>1, <1>2

LEMMA PortfolioInvariance == PortfolioSpec => []PortfolioInv
  BY PortfolioInvInit, PortfolioInvStep, PTL DEF PortfolioSpec

(***************************************************************************)
(* For any number of scans, imports, files and urls: a file or url has one *)
(* row at most, unless two lookups were under way at once, a scan reached  *)
(* the file twice, or the url came by a way that looks nothing up: scraped *)
(* pages, POST or PATCH.                                                   *)
(***************************************************************************)
THEOREM KeysHaveOneRow == PortfolioSpec => []OneRowPerKey
<1>1. PortfolioInv => OneRowPerKey
  BY DEF PortfolioInv
<1> QED
  BY <1>1, PortfolioInvariance, PTL

\* What a step makes of the hint of a reviewed asset.
HintKept ==
    \A x \in AssetIds \ held :
        /\ InTable(x)
        /\ assets[x].status # "draft"
        /\ assets'[x] # DeletedAsset
        => assets'[x].hint \in {assets[x].hint, "curated"}

LEMMA AddingKeepsHints ==
    ASSUME PortfolioInv, NEW urls \in SUBSET Urls, NEW row \in Asset,
           \A url \in urls : Fresh(url) # {}, assets' = Added(urls, row)
    PROVE  HintKept
<1>1. \A key \in Keys, n \in Ranks :
         IF key \in urls /\ n = NextRank(key)
         THEN assets[<<key, n>>] = NoAsset /\ assets'[<<key, n>>] = row
         ELSE assets'[<<key, n>>] = assets[<<key, n>>]
  BY AddedRows DEF PortfolioInv
<1>2. \A x \in AssetIds : InTable(x) => assets'[x] = assets[x]
  BY <1>1, AssetPairs DEF InTable
<1> QED
  BY <1>2 DEF HintKept

LEMMA HintStep == PortfolioInv /\ PortfolioNext => HintKept \/ assets' = assets
<1> SUFFICES ASSUME PortfolioInv, PortfolioNext PROVE HintKept \/ assets' = assets
  OBVIOUS
<1>1. ASSUME NEW t \in Scanners, CommitScan(t)
      PROVE  HintKept
  <2> SUFFICES ASSUME NEW x \in AssetIds, x \notin held, InTable(x), assets[x].status # "draft"
               PROVE  assets'[x].hint = assets[x].hint
    BY DEF HintKept
  <2>1. ~Loaded(x)
    BY DEF PortfolioInv, DraftsAreHeld
  <2>2. assets[x] # NoAsset
    BY DEF InTable
  <2> QED
    BY <1>1, <2>1, <2>2, CommitScanTable
<1>2. ASSUME NEW i \in Importers, CommitImport(i)
      PROVE  HintKept
  <2>1. import[i].new \in SUBSET Urls
    BY <1>2 DEF CommitImport, PortfolioInv, PortfolioTypeOK, Importing
  <2> QED
    BY <1>2, <2>1, ImportedRow, AddingKeepsHints DEF CommitImport
<1>3. ASSUME NEW urls \in SUBSET Urls, NEW status \in {"draft", "published"},
             AddUnchecked(urls, status)
      PROVE  HintKept
  BY <1>3, ImportedRow, AddingKeepsHints DEF AddUnchecked
<1>4. ASSUME NEW x \in AssetIds, NEW row, InTable(x), assets' = [assets EXCEPT ![x] = row],
             \/ row = [assets[x] EXCEPT !.status = "published"]
             \/ row = [assets[x] EXCEPT !.status = "skipped"]
             \/ row = [assets[x] EXCEPT !.hint = "curated"]
             \/ row = DeletedAsset
      PROVE  HintKept
  <2>1. assets[x] \in Asset
    BY <1>4, TableRows DEF PortfolioInv
  <2>2. row = DeletedAsset \/ row.hint \in {assets[x].hint, "curated"}
    BY <1>4, <2>1 DEF Asset
  <2>3. \A y \in AssetIds : assets'[y] = IF y = x THEN row ELSE assets[y]
    BY <1>4 DEF PortfolioInv, PortfolioTypeOK
  <2> QED
    BY <2>2, <2>3 DEF HintKept
<1>5. ASSUME NEW x \in AssetIds, NEW status \in {"published", "skipped"}, ReviewAsset(x, status)
      PROVE  HintKept
  BY <1>4, <1>5 DEF ReviewAsset
<1>6. ASSUME NEW x \in AssetIds, CurateHint(x) \/ DeleteAsset(x)
      PROVE  HintKept
  BY <1>4, <1>6 DEF CurateHint, DeleteAsset
<1>7. ASSUME NEW x \in AssetIds, NEW url \in Urls, PatchUrl(x, url)
      PROVE  HintKept
  <2>1. NextRank(url) \in Ranks /\ assets[<<url, NextRank(url)>>] = NoAsset
    BY <1>7, NextRankIsFresh DEF PatchUrl, Fresh
  <2>2. \A y \in AssetIds : assets'[y] = IF y = <<url, NextRank(url)>> THEN assets[x]
                                         ELSE IF y = x /\ x[1] \in Urls THEN DeletedAsset
                                         ELSE assets[y]
    BY <1>7 DEF PatchUrl
  <2>3. \A y \in AssetIds :
           InTable(y) => assets'[y] = assets[y] \/ assets'[y] = DeletedAsset
    BY <2>1, <2>2 DEF InTable
  <2> QED
    BY <2>3 DEF HintKept
<1>8. ASSUME \/ \E t \in Scanners, read, twin \in SUBSET Sources : BeginScan(t, read, twin)
             \/ \E i \in Importers, urls \in SUBSET Urls : BeginImport(i, urls)
             \/ \E s \in Sources, says \in Contents : EditFile(s, says)
             \/ RestartPortfolio
      PROVE  assets' = assets
  BY <1>8 DEF BeginScan, BeginImport, EditFile, RestartPortfolio
<1> QED
  BY <1>1, <1>2, <1>3, <1>5, <1>6, <1>7, <1>8 DEF PortfolioNext

(***************************************************************************)
(* No scan overwrites the hint of a reviewed asset, however many scans and *)
(* reviews overlap, unless the review fell between the scan's read of that *)
(* asset and its commit.                                                   *)
(***************************************************************************)
THEOREM HintsAreKept == PortfolioSpec => CuratedHintKept
<1>1. PortfolioInv /\ [PortfolioNext]_portfolioVars => [HintKept]_assets
  BY HintStep DEF portfolioVars
<1>2. PortfolioSpec => [][HintKept]_assets
  BY <1>1, PortfolioInvariance, PTL DEF PortfolioSpec
<1> QED
  BY <1>2 DEF CuratedHintKept, HintKept

-----------------------------------------------------------------------------
(***************************************************************************)
(* Migrations.                                                             *)
(***************************************************************************)

\* What revision k makes of the database that is at k - 1, and of the one at k + 1.
Above(d, k) == AtRevision(Upgraded(d, k), k)

Below(d, k) == AtRevision(Downgraded(d, k + 1), k)

LEMMA UpwardFunction ==
    ASSUME NEW n \in Nat, db.rev \in Nat
    PROVE  /\ db.rev \in db.rev .. n => Upward(n)[db.rev] = db
           /\ \A k \in db.rev + 1 .. n : Upward(n)[k] = Above(Upward(n)[k - 1], k)
<1> DEFINE Along(after, m) ==
              after = [k \in db.rev .. m |->
                         IF k = db.rev THEN db ELSE Above(after[k - 1], k)]
           Short == {m \in Nat : ~\E after : Along(after, m)}
<1>1. Short = {}
  <2> SUFFICES ASSUME Short # {} PROVE FALSE
    OBVIOUS
  <2>1. PICK m \in Short : \A i \in Short : ~(<<i, m>> \in OpToRel(<, Nat))
    BY NatLessThanWellFounded, WFMin
  <2>2. m \in Nat /\ \A i \in Nat : i < m => i \notin Short
    BY <2>1 DEF OpToRel
  <2>3. CASE m <= db.rev
    <3> DEFINE only == [k \in db.rev .. m |-> db]
    <3>1. \A k \in db.rev .. m : k = db.rev
      BY <2>2, <2>3
    <3>2. only = [k \in db.rev .. m |-> IF k = db.rev THEN db ELSE Above(only[k - 1], k)]
      BY <3>1
    <3> QED
      BY <2>1, <3>2
  <2>4. CASE m > db.rev
    <3>1. m - 1 \in Nat /\ m - 1 < m
      BY <2>2, <2>4
    <3>2. PICK before : Along(before, m - 1)
      BY <2>2, <3>1
    <3> DEFINE after == [k \in db.rev .. m |->
                           IF k = m THEN Above(before[m - 1], m) ELSE before[k]]
    <3>3. \A k \in db.rev .. m : k # m => k \in db.rev .. (m - 1)
      BY <2>2
    <3>4. ASSUME NEW k \in db.rev .. m
          PROVE  after[k] = IF k = db.rev THEN db ELSE Above(after[k - 1], k)
      <4>1. CASE k = m
        <5>1. k - 1 \in db.rev .. m /\ k - 1 # m
          BY <2>2, <2>4, <4>1
        <5>2. after[k - 1] = before[m - 1]
          BY <4>1, <5>1
        <5> HIDE DEF Above
        <5> QED
          BY <2>4, <4>1, <5>2
      <4>2. CASE k # m
        <5>1. after[k] = before[k] /\ k \in db.rev .. (m - 1)
          BY <3>3, <4>2
        <5>2. before[k] = IF k = db.rev THEN db ELSE Above(before[k - 1], k)
          BY <3>2, <5>1
        <5>3. CASE k = db.rev
          BY <5>1, <5>2, <5>3
        <5>4. CASE k # db.rev
          <6>1. k - 1 \in db.rev .. m /\ k - 1 # m
            BY <2>2, <5>1, <5>4
          <6>2. after[k - 1] = before[k - 1]
            BY <6>1
          <6> QED
            BY <5>1, <5>2, <5>4, <6>2
        <5> QED
          BY <5>3, <5>4
      <4> QED
        BY <4>1, <4>2
    <3>5. Along(after, m)
      BY <3>4
    <3> QED
      BY <2>1, <3>5
  <2> QED
    BY <2>2, <2>3, <2>4
<1>2. \E after : Along(after, n)
  BY <1>1
<1>3. Upward(n) = CHOOSE after : Along(after, n)
  BY DEF Upward, Above
<1>4. Along(Upward(n), n)
  BY <1>2, <1>3
<1> QED
  BY <1>4

LEMMA DownwardFunction ==
    ASSUME NEW n \in Nat, db.rev \in Nat, n <= db.rev
    PROVE  /\ Downward(n)[db.rev] = db
           /\ \A k \in n .. db.rev - 1 : Downward(n)[k] = Below(Downward(n)[k + 1], k)
<1> DEFINE Along(after, m) ==
              after = [k \in db.rev - m .. db.rev |->
                         IF k = db.rev THEN db ELSE Below(after[k + 1], k)]
           Short == {m \in Nat : ~\E after : Along(after, m)}
<1>1. Short = {}
  <2> SUFFICES ASSUME Short # {} PROVE FALSE
    OBVIOUS
  <2>1. PICK m \in Short : \A i \in Short : ~(<<i, m>> \in OpToRel(<, Nat))
    BY NatLessThanWellFounded, WFMin
  <2>2. m \in Nat /\ \A i \in Nat : i < m => i \notin Short
    BY <2>1 DEF OpToRel
  <2>3. CASE m = 0
    <3> DEFINE only == [k \in db.rev .. db.rev |-> db]
    <3>1. only = [k \in db.rev - m .. db.rev |->
                    IF k = db.rev THEN db ELSE Below(only[k + 1], k)]
      BY <2>3
    <3> QED
      BY <2>1, <3>1
  <2>4. CASE m > 0
    <3> DEFINE low == db.rev - m
    <3>1. m - 1 \in Nat /\ m - 1 < m /\ db.rev - (m - 1) = low + 1 /\ low \in Int
      BY <2>2, <2>4
    <3>2. PICK before : Along(before, m - 1)
      BY <2>2, <3>1
    <3> DEFINE after == [k \in low .. db.rev |->
                           IF k = low THEN Below(before[low + 1], low) ELSE before[k]]
    <3>3. \A k \in low .. db.rev : k # low => k \in db.rev - (m - 1) .. db.rev
      BY <2>2, <3>1
    <3>4. ASSUME NEW k \in low .. db.rev
          PROVE  after[k] = IF k = db.rev THEN db ELSE Below(after[k + 1], k)
      <4>1. CASE k = low
        <5>1. k + 1 \in low .. db.rev /\ k + 1 # low /\ k # db.rev
          BY <2>2, <2>4, <4>1
        <5>2. after[k + 1] = before[low + 1]
          BY <4>1, <5>1
        <5> HIDE DEF Below
        <5> QED
          BY <4>1, <5>1, <5>2
      <4>2. CASE k # low
        <5>1. after[k] = before[k] /\ k \in db.rev - (m - 1) .. db.rev
          BY <3>3, <4>2
        <5>2. before[k] = IF k = db.rev THEN db ELSE Below(before[k + 1], k)
          BY <3>2, <5>1
        <5>3. CASE k = db.rev
          BY <5>1, <5>2, <5>3
        <5>4. CASE k # db.rev
          <6>1. k + 1 \in low .. db.rev /\ k + 1 # low
            BY <2>2, <3>1, <5>1, <5>4
          <6>2. after[k + 1] = before[k + 1]
            BY <6>1
          <6> QED
            BY <5>1, <5>2, <5>4, <6>2
        <5> QED
          BY <5>3, <5>4
      <4> QED
        BY <4>1, <4>2
    <3>5. Along(after, m)
      BY <3>4
    <3> QED
      BY <2>1, <3>5
  <2> QED
    BY <2>2, <2>3, <2>4
<1> HIDE DEF Along
<1>2. db.rev - n \in Nat /\ db.rev - (db.rev - n) = n
  OBVIOUS
<1>3. \E after : Along(after, db.rev - n)
  BY <1>1, <1>2
<1>4. Downward(n) = CHOOSE after : Along(after, db.rev - n)
  BY <1>2 DEF Downward, Below, Along
<1>5. Along(Downward(n), db.rev - n)
  BY <1>3, <1>4
<1> QED
  BY <1>2, <1>5 DEF Along

-----------------------------------------------------------------------------
\* A rollback to revision 11 loses less than a cent, a second one nothing more.
LEMMA CentsAndCredits ==
    \A c \in Nat : /\ Cents(c) \in Nat
                    /\ UsedCredits(c) \in Nat
                    /\ MonthlyCredits(c) \in Nat
                    /\ Cents(UsedCredits(c)) = c
                    /\ UsedCredits(Cents(c)) - c \in -5 .. 5
  BY DEF Cents, UsedCredits, MonthlyCredits

\* The account is one that revision 11 made; its usage is what a release has
\* written, or what is left of that once it has been cents.
AccountIsKept(d, s) ==
    /\ d.rev < 11 => d.account = Nothing
    /\ d.account # Nothing =>
          IF d.rev >= 12 THEN d.account.used \in {s, UsedCredits(Cents(s))}
                         ELSE d.account.used = Cents(s)

ListedOnce(d) == \A i \in Configured(d) : d.configs[i].added <= 1

FitsColumn(d) == d.rev < 14 => d.source # "long"

Kept(d, s) == d \in Database /\ FitsColumn(d) /\ ListedOnce(d) /\ AccountIsKept(d, s)

LEMMA RowsAreSound ==
    ASSUME NEW d \in Database
    PROVE  /\ d = [rev |-> d.rev, jobs |-> d.jobs, configs |-> d.configs,
                   account |-> d.account, source |-> d.source]
           /\ d.rev \in Revisions
           /\ \A j \in Listed(d) : d.jobs[j] \in Posting
           /\ \A j \in Postings \ Listed(d) : d.jobs[j] = Nothing
           /\ \A i \in Configured(d) : d.configs[i] \in Config
           /\ \A i \in Slots \ Configured(d) : d.configs[i] = Nothing
           /\ d.account # Nothing => d.account \in Account
           /\ d.jobs = [j \in Postings |-> d.jobs[j]]
           /\ d.configs = [i \in Slots |-> d.configs[i]]
  BY DEF Database, Listed, Configured

LEMMA NothingIsNoRow == Nothing \notin Posting /\ Nothing \notin Config /\ Nothing \notin Account
  BY DEF Nothing, Posting, Config, Account

LEMMA SeededRows ==
    ASSUME NEW d \in Database, ListedOnce(d)
    PROVE  /\ Seeded(d) \in Database
           /\ ListedOnce(Seeded(d))
           /\ Seeded(d).rev = d.rev /\ Seeded(d).account = d.account
           /\ Seeded(d).source = d.source
<1>1. CASE Configured(d) # {}
  BY <1>1 DEF Seeded
<1>2. CASE Configured(d) = {}
  <2>1. PICK i \in Slots : Seeded(d) = [d EXCEPT !.configs[i] = [keywords |-> "loose", added |-> 0]]
    BY <1>2, MigrationsAssumption DEF Seeded
  <2> QED
    BY <1>2, <2>1 DEF Database, Config, ListedOnce, Configured
<1> QED
  BY <1>1, <1>2

\* A database with other configurations.
LEMMA ConfigsReplaced ==
    ASSUME NEW d \in Database, NEW configs \in [Slots -> Config \union {Nothing}]
    PROVE  /\ [d EXCEPT !.configs = configs] \in Database
           /\ ListedOnce([d EXCEPT !.configs = configs])
                 <=> \A i \in Slots : configs[i] # Nothing => configs[i].added <= 1
           /\ [d EXCEPT !.configs = configs].rev = d.rev
           /\ [d EXCEPT !.configs = configs].account = d.account
           /\ [d EXCEPT !.configs = configs].source = d.source
  BY DEF Database, ListedOnce, Configured

LEMMA ExtendedRows ==
    ASSUME NEW d \in Database
    PROVE  /\ Extended(d) \in Database
           /\ ListedOnce(d) => ListedOnce(Extended(d))
           /\ Extended(d).rev = d.rev /\ Extended(d).account = d.account
           /\ Extended(d).source = d.source
<1> DEFINE configs == [i \in Slots |-> IF i \in Configured(d)
                                       THEN [d.configs[i] EXCEPT !.added = IF @ = 0 THEN 1 ELSE @]
                                       ELSE d.configs[i]]
<1>1. Extended(d) = [d EXCEPT !.configs = configs]
  BY DEF Extended, EachConfig, Database
<1>2. ASSUME NEW i \in Slots
      PROVE  /\ configs[i] \in Config \union {Nothing}
             /\ ListedOnce(d) /\ configs[i] # Nothing => configs[i].added <= 1
  <2>1. CASE i \in Configured(d)
    <3>1. d.configs[i] \in Config /\ (ListedOnce(d) => d.configs[i].added <= 1)
      BY <2>1, RowsAreSound DEF ListedOnce
    <3>2. configs[i] = [d.configs[i] EXCEPT !.added = IF @ = 0 THEN 1 ELSE @]
      BY <2>1
    <3> QED
      BY <3>1, <3>2 DEF Config
  <2>2. CASE i \notin Configured(d)
    BY <2>2, RowsAreSound
  <2> QED
    BY <2>1, <2>2
<1>3. configs \in [Slots -> Config \union {Nothing}]
  BY <1>2
<1> HIDE DEF configs
<1> QED
  BY <1>1, <1>2, <1>3, ConfigsReplaced

LEMMA ShortenedRows ==
    ASSUME NEW d \in Database
    PROVE  /\ Shortened(d) \in Database
           /\ ListedOnce(Shortened(d))
           /\ Shortened(d).rev = d.rev /\ Shortened(d).account = d.account
           /\ Shortened(d).source = d.source
<1> DEFINE configs == [i \in Slots |-> IF i \in Configured(d)
                                       THEN [d.configs[i] EXCEPT !.added = 0]
                                       ELSE d.configs[i]]
<1>1. Shortened(d) = [d EXCEPT !.configs = configs]
  BY DEF Shortened, EachConfig, Database
<1>2. ASSUME NEW i \in Slots
      PROVE  /\ configs[i] \in Config \union {Nothing}
             /\ configs[i] # Nothing => configs[i].added <= 1
  <2>1. CASE i \in Configured(d)
    <3>1. d.configs[i] \in Config /\ (ListedOnce(d) => d.configs[i].added <= 1)
      BY <2>1, RowsAreSound DEF ListedOnce
    <3>2. configs[i] = [d.configs[i] EXCEPT !.added = 0]
      BY <2>1
    <3> QED
      BY <3>1, <3>2 DEF Config
  <2>2. CASE i \notin Configured(d)
    BY <2>2, RowsAreSound
  <2> QED
    BY <2>1, <2>2
<1>3. configs \in [Slots -> Config \union {Nothing}]
  BY <1>2
<1> HIDE DEF configs
<1> QED
  BY <1>1, <1>2, <1>3, ConfigsReplaced

LEMMA LoosenedRows ==
    ASSUME NEW d \in Database
    PROVE  /\ Loosened(d) \in Database
           /\ ListedOnce(d) => ListedOnce(Loosened(d))
           /\ Loosened(d).rev = d.rev /\ Loosened(d).account = d.account
           /\ Loosened(d).source = d.source
<1> DEFINE configs == [i \in Slots |-> IF i \in Configured(d)
                                       THEN [d.configs[i] EXCEPT !.keywords = "loose"]
                                       ELSE d.configs[i]]
<1>1. Loosened(d) = [d EXCEPT !.configs = configs]
  BY DEF Loosened, EachConfig, Database
<1>2. ASSUME NEW i \in Slots
      PROVE  /\ configs[i] \in Config \union {Nothing}
             /\ ListedOnce(d) /\ configs[i] # Nothing => configs[i].added <= 1
  <2>1. CASE i \in Configured(d)
    <3>1. d.configs[i] \in Config /\ (ListedOnce(d) => d.configs[i].added <= 1)
      BY <2>1, RowsAreSound DEF ListedOnce
    <3>2. configs[i] = [d.configs[i] EXCEPT !.keywords = "loose"]
      BY <2>1
    <3> QED
      BY <3>1, <3>2 DEF Config
  <2>2. CASE i \notin Configured(d)
    BY <2>2, RowsAreSound
  <2> QED
    BY <2>1, <2>2
<1>3. configs \in [Slots -> Config \union {Nothing}]
  BY <1>2
<1> HIDE DEF configs
<1> QED
  BY <1>1, <1>2, <1>3, ConfigsReplaced

\* A database with other postings.
LEMMA PostingsReplaced ==
    ASSUME NEW d \in Database, NEW jobs \in [Postings -> Posting \union {Nothing}]
    PROVE  /\ [d EXCEPT !.jobs = jobs] \in Database
           /\ ListedOnce(d) => ListedOnce([d EXCEPT !.jobs = jobs])
           /\ [d EXCEPT !.jobs = jobs].rev = d.rev
           /\ [d EXCEPT !.jobs = jobs].account = d.account
           /\ [d EXCEPT !.jobs = jobs].source = d.source
  BY DEF Database, ListedOnce, Configured

LEMMA WithoutRows ==
    ASSUME NEW d \in Database, NEW gone
    PROVE  /\ Without(d, gone) \in Database
           /\ ListedOnce(d) => ListedOnce(Without(d, gone))
           /\ Without(d, gone).rev = d.rev /\ Without(d, gone).account = d.account
           /\ Without(d, gone).source = d.source
<1> DEFINE jobs == [j \in Postings |-> IF j \in gone THEN Nothing ELSE d.jobs[j]]
<1>1. Without(d, gone) = [d EXCEPT !.jobs = jobs]
  BY DEF Without
<1>2. jobs \in [Postings -> Posting \union {Nothing}]
  BY DEF Database
<1> HIDE DEF jobs
<1> QED
  BY <1>1, <1>2, PostingsReplaced

LEMMA StrippedRow ==
    ASSUME NEW row \in Posting
    PROVE  /\ Stripped(row) \in Posting
           /\ row.html <= 1 => Stripped(row).html = 0
           /\ row.html = 0 => Stripped(row) = row
           /\ Stripped(row).ai = row.ai /\ Stripped(row).status = row.status
<1> DEFINE left == IF row.html = 0 THEN 0 ELSE row.html - 1
<1>1. row.html \in Nat
  BY DEF Posting
<1>2. Stripped(row) = [row EXCEPT !.html = left]
  BY DEF Stripped
<1>3. left \in Nat /\ (row.html <= 1 => left = 0) /\ (row.html = 0 => left = row.html)
  BY <1>1
<1> HIDE DEF left
<1>4. /\ [row EXCEPT !.html = left] \in Posting
      /\ [row EXCEPT !.html = left].html = left
      /\ left = row.html => [row EXCEPT !.html = left] = row
      /\ [row EXCEPT !.html = left].ai = row.ai
      /\ [row EXCEPT !.html = left].status = row.status
  BY <1>3 DEF Posting
<1> QED
  BY <1>2, <1>3, <1>4

LEMMA CleanedRows ==
    ASSUME NEW d \in Database
    PROVE  /\ Cleaned(d) \in Database
           /\ ListedOnce(d) => ListedOnce(Cleaned(d))
           /\ Cleaned(d).rev = d.rev /\ Cleaned(d).account = d.account
           /\ Cleaned(d).source = d.source
<1> DEFINE jobs == [j \in Postings |-> IF j \in Listed(d)
                                       THEN Stripped(d.jobs[j])
                                       ELSE d.jobs[j]]
<1>1. Cleaned(d) = Without([d EXCEPT !.jobs = jobs], OffTopic(d))
  BY DEF Cleaned
<1>2. ASSUME NEW j \in Postings
      PROVE  jobs[j] \in Posting \union {Nothing}
  <2>1. CASE j \in Listed(d)
    <3>1. d.jobs[j] \in Posting
      BY <2>1, RowsAreSound
    <3>2. jobs[j] = Stripped(d.jobs[j])
      BY <2>1
    <3> QED
      BY <3>1, <3>2, StrippedRow
  <2>2. CASE j \notin Listed(d)
    BY <2>2, RowsAreSound
  <2> QED
    BY <2>1, <2>2
<1>3. jobs \in [Postings -> Posting \union {Nothing}]
  BY <1>2
<1> HIDE DEF jobs
<1> DEFINE plain == [d EXCEPT !.jobs = jobs]
<1>4. /\ plain \in Database
      /\ ListedOnce(d) => ListedOnce(plain)
      /\ plain.rev = d.rev /\ plain.account = d.account /\ plain.source = d.source
  BY <1>3, PostingsReplaced
<1>5. Cleaned(d) = Without(plain, OffTopic(d))
  BY <1>1
<1> HIDE DEF plain
<1>6. /\ Without(plain, OffTopic(d)) \in Database
      /\ ListedOnce(plain) => ListedOnce(Without(plain, OffTopic(d)))
      /\ Without(plain, OffTopic(d)).rev = plain.rev
      /\ Without(plain, OffTopic(d)).account = plain.account
      /\ Without(plain, OffTopic(d)).source = plain.source
  BY <1>4, WithoutRows
<1> QED
  BY <1>4, <1>5, <1>6

LEMMA UndismissedRows ==
    ASSUME NEW d \in Database
    PROVE  /\ Undismissed(d) \in Database
           /\ ListedOnce(d) => ListedOnce(Undismissed(d))
           /\ Undismissed(d).rev = d.rev /\ Undismissed(d).account = d.account
           /\ Undismissed(d).source = d.source
<1> DEFINE jobs == [j \in Postings |-> IF j \in Listed(d)
                                       THEN [d.jobs[j] EXCEPT !.irrelevant = FALSE]
                                       ELSE d.jobs[j]]
<1>1. Undismissed(d) = [d EXCEPT !.jobs = jobs]
  BY DEF Undismissed
<1>2. ASSUME NEW j \in Postings
      PROVE  jobs[j] \in Posting \union {Nothing}
  <2>1. CASE j \in Listed(d)
    <3>1. d.jobs[j] \in Posting
      BY <2>1, RowsAreSound
    <3>2. jobs[j] = [d.jobs[j] EXCEPT !.irrelevant = FALSE]
      BY <2>1
    <3> QED
      BY <3>1, <3>2 DEF Posting
  <2>2. CASE j \notin Listed(d)
    BY <2>2, RowsAreSound
  <2> QED
    BY <2>1, <2>2
<1>3. jobs \in [Postings -> Posting \union {Nothing}]
  BY <1>2
<1> HIDE DEF jobs
<1> QED
  BY <1>1, <1>3, PostingsReplaced

LEMMA RefinedRows ==
    ASSUME NEW d \in Database
    PROVE  /\ Refined(d) \in Database
           /\ ListedOnce(d) => ListedOnce(Refined(d))
           /\ Refined(d).rev = d.rev /\ Refined(d).account = d.account
           /\ Refined(d).source = d.source
<1> DEFINE configs == [i \in Slots |-> IF i \in Configured(d)
                                        THEN [d.configs[i] EXCEPT !.keywords = "refined"]
                                        ELSE d.configs[i]]
           each == [d EXCEPT !.configs = configs]
<1>1. Refined(d) = Without(each, Irrelevant(d))
  BY DEF Refined, EachConfig, Database
<1>2. ASSUME NEW i \in Slots
      PROVE  /\ configs[i] \in Config \union {Nothing}
             /\ ListedOnce(d) /\ configs[i] # Nothing => configs[i].added <= 1
  <2>1. CASE i \in Configured(d)
    <3>1. d.configs[i] \in Config /\ (ListedOnce(d) => d.configs[i].added <= 1)
      BY <2>1, RowsAreSound DEF ListedOnce
    <3>2. configs[i] = [d.configs[i] EXCEPT !.keywords = "refined"]
      BY <2>1
    <3> QED
      BY <3>1, <3>2 DEF Config
  <2>2. CASE i \notin Configured(d)
    BY <2>2, RowsAreSound
  <2> QED
    BY <2>1, <2>2
<1>3. configs \in [Slots -> Config \union {Nothing}]
  BY <1>2
<1> HIDE DEF configs
<1>4. /\ each \in Database
      /\ ListedOnce(d) => ListedOnce(each)
      /\ each.rev = d.rev /\ each.account = d.account /\ each.source = d.source
  BY <1>2, <1>3, ConfigsReplaced
<1> HIDE DEF each
<1>5. /\ Without(each, Irrelevant(d)) \in Database
      /\ ListedOnce(each) => ListedOnce(Without(each, Irrelevant(d)))
      /\ Without(each, Irrelevant(d)).rev = each.rev
      /\ Without(each, Irrelevant(d)).account = each.account
      /\ Without(each, Irrelevant(d)).source = each.source
  BY <1>4, WithoutRows
<1> QED
  BY <1>1, <1>4, <1>5

\* Revisions 1 and 2 going: only the tables of the postings, configurations and CVs.
LEMMA DroppedRows ==
    ASSUME NEW d \in Database
    PROVE  /\ Dropped(d) \in Database
           /\ ListedOnce(d) => ListedOnce(Dropped(d))
           /\ Dropped(d).rev = d.rev /\ Dropped(d).account = d.account
           /\ Dropped(d).source = d.source
  BY PostingsReplaced DEF Dropped, Empty

LEMMA UnseededRows ==
    ASSUME NEW d \in Database
    PROVE  /\ Unseeded(d) \in Database
           /\ ListedOnce(Unseeded(d))
           /\ Unseeded(d).rev = d.rev /\ Unseeded(d).account = d.account
           /\ Unseeded(d).source = d.source
  BY ConfigsReplaced DEF Unseeded, Empty

LEMMA ReducedRows ==
    ASSUME NEW d \in Database
    PROVE  /\ Reduced(d) \in Database
           /\ ListedOnce(Reduced(d))
           /\ Reduced(d).rev = d.rev /\ Reduced(d).account = d.account
           /\ Reduced(d).source = "none"
<1> DEFINE jobs == [j \in Postings |-> IF j \in Listed(d)
                                       THEN [d.jobs[j] EXCEPT !.applied = FALSE]
                                       ELSE d.jobs[j]]
<1> DEFINE none == [i \in Slots |-> Nothing]
<1>1. Reduced(d) = [[[d EXCEPT !.configs = none] EXCEPT !.source = "none"] EXCEPT !.jobs = jobs]
  <2>1. Empty.configs = none
    BY DEF Empty
  <2>2. Reduced(d) = [d EXCEPT !.configs = none, !.source = "none", !.jobs = jobs]
    BY <2>1 DEF Reduced
  <2> HIDE DEF none, jobs
  <2> QED
    BY <2>2, RowsAreSound DEF Database
<1>2. ASSUME NEW j \in Postings
      PROVE  jobs[j] \in Posting \union {Nothing}
  <2>1. CASE j \in Listed(d)
    <3>1. d.jobs[j] \in Posting
      BY <2>1, RowsAreSound
    <3>2. jobs[j] = [d.jobs[j] EXCEPT !.applied = FALSE]
      BY <2>1
    <3> QED
      BY <3>1, <3>2 DEF Posting
  <2>2. CASE j \notin Listed(d)
    BY <2>2, RowsAreSound
  <2> QED
    BY <2>1, <2>2
<1>3. jobs \in [Postings -> Posting \union {Nothing}]
  BY <1>2
<1>4. none \in [Slots -> Config \union {Nothing}] /\ \A i \in Slots : none[i] = Nothing
  OBVIOUS
<1> HIDE DEF jobs, none
<1>5. Configured(Reduced(d)) = {}
  BY <1>1, <1>4 DEF Configured, Database
<1> QED
  BY <1>1, <1>3, <1>4, <1>5 DEF Database, ListedOnce

\* A database with another account.
LEMMA AccountReplaced ==
    ASSUME NEW d \in Database, NEW account \in Account \union {Nothing}
    PROVE  /\ [d EXCEPT !.account = account] \in Database
           /\ ListedOnce(d) => ListedOnce([d EXCEPT !.account = account])
           /\ [d EXCEPT !.account = account].rev = d.rev
           /\ [d EXCEPT !.account = account].account = account
           /\ [d EXCEPT !.account = account].source = d.source
  BY DEF Database, ListedOnce, Configured

LEMMA UnpooledRows ==
    ASSUME NEW d \in Database
    PROVE  /\ Unpooled(d) \in Database
           /\ ListedOnce(d) => ListedOnce(Unpooled(d))
           /\ Unpooled(d).rev = d.rev /\ Unpooled(d).account = Nothing
           /\ Unpooled(d).source = d.source
  BY AccountReplaced DEF Unpooled

LEMMA InCreditsRows ==
    ASSUME NEW d \in Database
    PROVE  /\ InCredits(d) \in Database
           /\ ListedOnce(d) => ListedOnce(InCredits(d))
           /\ InCredits(d).rev = d.rev /\ InCredits(d).source = d.source
           /\ d.account = Nothing => InCredits(d).account = Nothing
           /\ d.account # Nothing => InCredits(d).account.used = UsedCredits(d.account.used)
<1>1. CASE d.account = Nothing
  BY <1>1 DEF InCredits
<1>2. CASE d.account # Nothing
  <2> DEFINE account == [monthly |-> MonthlyCredits(d.account.monthly),
                         used |-> UsedCredits(d.account.used)]
  <2>1. InCredits(d) = [d EXCEPT !.account = account]
    BY <1>2 DEF InCredits
  <2>2. d.account.monthly \in Nat /\ d.account.used \in Nat
    BY <1>2, RowsAreSound DEF Account
  <2>3. account \in Account /\ account.used = UsedCredits(d.account.used)
    BY <2>2, CentsAndCredits DEF Account
  <2> HIDE DEF account
  <2> QED
    BY <1>2, <2>1, <2>3, AccountReplaced
<1> QED
  BY <1>1, <1>2

LEMMA InDollarsRows ==
    ASSUME NEW d \in Database
    PROVE  /\ InDollars(d) \in Database
           /\ ListedOnce(d) => ListedOnce(InDollars(d))
           /\ InDollars(d).rev = d.rev /\ InDollars(d).source = d.source
           /\ d.account = Nothing => InDollars(d).account = Nothing
           /\ d.account # Nothing => InDollars(d).account.used = Cents(d.account.used)
<1>1. CASE d.account = Nothing
  BY <1>1 DEF InDollars
<1>2. CASE d.account # Nothing
  <2> DEFINE account == [monthly |-> Cents(d.account.monthly),
                         used |-> Cents(d.account.used)]
  <2>1. InDollars(d) = [d EXCEPT !.account = account]
    BY <1>2 DEF InDollars
  <2>2. d.account.monthly \in Nat /\ d.account.used \in Nat
    BY <1>2, RowsAreSound DEF Account
  <2>3. account \in Account /\ account.used = Cents(d.account.used)
    BY <2>2, CentsAndCredits DEF Account
  <2> HIDE DEF account
  <2> QED
    BY <1>2, <2>1, <2>3, AccountReplaced
<1> QED
  BY <1>1, <1>2

LEMMA NarrowedRows ==
    ASSUME NEW d \in Database
    PROVE  /\ Narrowed(d) \in Database
           /\ ListedOnce(d) => ListedOnce(Narrowed(d))
           /\ Narrowed(d).rev = d.rev /\ Narrowed(d).account = d.account
           /\ Narrowed(d).source # "long"
  BY DEF Narrowed, Database, ListedOnce, Configured

LEMMA AtRevisionRows ==
    ASSUME NEW d \in Database, NEW k \in Revisions
    PROVE  /\ AtRevision(d, k) \in Database
           /\ ListedOnce(d) => ListedOnce(AtRevision(d, k))
           /\ AtRevision(d, k).rev = k /\ AtRevision(d, k).account = d.account
           /\ AtRevision(d, k).source = d.source
  BY DEF AtRevision, Database, ListedOnce, Configured

-----------------------------------------------------------------------------
\* One revision up keeps what is kept.
LEMMA AboveKeeps ==
    ASSUME NEW d, NEW s \in Nat, NEW k \in 1 .. Head, Kept(d, s), d.rev = k - 1
    PROVE  Kept(Above(d, k), s) /\ Above(d, k).rev = k
<1> DEFINE e == Upgraded(d, k)
<1>1. d \in Database /\ k \in Revisions /\ k \in Nat
  BY DEF Kept, Revisions, Head
<1>2. /\ e \in Database /\ ListedOnce(e) /\ e.source = d.source
      /\ k # 12 => e.account = d.account
      /\ k = 12 => e = InCredits(d)
  <2>1. CASE k = 4
    BY <1>1, <2>1, SeededRows DEF Upgraded, Kept
  <2>2. CASE k = 5
    BY <1>1, <2>2, ExtendedRows DEF Upgraded, Kept
  <2>3. CASE k = 8
    BY <1>1, <2>3, CleanedRows DEF Upgraded, Kept
  <2>4. CASE k = 9
    BY <1>1, <2>4, RefinedRows DEF Upgraded, Kept
  <2>5. CASE k = 12
    BY <1>1, <2>5, InCreditsRows DEF Upgraded, Kept
  <2>6. CASE k \notin {4, 5, 8, 9, 12}
    BY <1>1, <2>6 DEF Upgraded, Kept
  <2> QED
    BY <2>1, <2>2, <2>3, <2>4, <2>5, <2>6
<1> HIDE DEF e
<1>3. /\ Above(d, k) \in Database /\ ListedOnce(Above(d, k))
      /\ Above(d, k).rev = k /\ Above(d, k).source = d.source
      /\ Above(d, k).account = e.account
  BY <1>1, <1>2, AtRevisionRows DEF Above, e
<1>4. FitsColumn(Above(d, k))
  BY <1>1, <1>3 DEF FitsColumn, Kept
<1>5. AccountIsKept(Above(d, k), s)
  <2>1. CASE k = 12
    <3>1. d.account # Nothing => d.account.used = Cents(s)
      BY <2>1 DEF Kept, AccountIsKept
    <3>2. /\ e.account = Nothing <=> d.account = Nothing
          /\ d.account # Nothing => e.account.used = UsedCredits(d.account.used)
      <4>1. e = InCredits(d)
        BY <1>2, <2>1
      <4>2. e.account # Nothing => d.account # Nothing
        BY <1>1, <4>1, InCreditsRows
      <4>3. d.account # Nothing => e.account # Nothing
        BY <4>1, NothingIsNoRow DEF InCredits, Nothing
      <4> QED
        BY <1>1, <4>1, <4>2, <4>3, InCreditsRows
    <3> QED
      BY <1>3, <2>1, <3>1, <3>2 DEF AccountIsKept
  <2>2. CASE k # 12
    BY <1>1, <1>2, <1>3, <2>2 DEF AccountIsKept, Kept
  <2> QED
    BY <2>1, <2>2
<1> QED
  BY <1>3, <1>4, <1>5 DEF Kept

\* One revision down does.
LEMMA BelowKeeps ==
    ASSUME NEW d, NEW s \in Nat, NEW k \in 0 .. Head - 1, Kept(d, s), d.rev = k + 1
    PROVE  Kept(Below(d, k), s) /\ Below(d, k).rev = k
<1> DEFINE e == Downgraded(d, k + 1)
<1>1. d \in Database /\ k \in Revisions /\ k \in Nat /\ k <= 13
  BY DEF Kept, Revisions, Head
<1>2. /\ e \in Database /\ ListedOnce(e)
      /\ e.source \in {d.source, "none"} \/ e.source # "long"
      /\ k = 13 => e.source # "long"
      /\ k \notin {10, 11} => e.account = d.account
      /\ k = 10 => e.account = Nothing
      /\ k = 11 => e = InDollars(d)
  <2>1. CASE k = 13
    BY <1>1, <2>1, NarrowedRows DEF Downgraded, Kept
  <2>2. CASE k = 12
    BY <1>1, <2>2, UndismissedRows DEF Downgraded, Kept
  <2>3. CASE k = 11
    BY <1>1, <2>3, InDollarsRows DEF Downgraded, Kept
  <2>4. CASE k = 10
    BY <1>1, <2>4, UnpooledRows DEF Downgraded, Kept
  <2>5. CASE k = 8
    BY <1>1, <2>5, LoosenedRows DEF Downgraded, Kept
  <2>6. CASE k = 4
    BY <1>1, <2>6, ShortenedRows DEF Downgraded, Kept
  <2>7. CASE k = 3
    BY <1>1, <2>7, UnseededRows DEF Downgraded, Kept
  <2>8. CASE k = 1
    BY <1>1, <2>8, ReducedRows DEF Downgraded, Kept
  <2>9. CASE k = 0
    BY <1>1, <2>9, DroppedRows DEF Downgraded, Kept
  <2>10. CASE k \in {2, 5, 6, 7, 9}
    <3>1. e = d
      BY <2>10 DEF Downgraded
    <3> QED
      BY <1>1, <2>10, <3>1 DEF Kept
  <2> QED
    BY <1>1, <2>1, <2>2, <2>3, <2>4, <2>5, <2>6, <2>7, <2>8, <2>9, <2>10
<1> HIDE DEF e
<1>3. /\ Below(d, k) \in Database /\ ListedOnce(Below(d, k))
      /\ Below(d, k).rev = k /\ Below(d, k).source = e.source
      /\ Below(d, k).account = e.account
  BY <1>1, <1>2, AtRevisionRows DEF Below, e
<1>4. FitsColumn(Below(d, k))
  BY <1>1, <1>2, <1>3 DEF FitsColumn, Kept
<1>5. AccountIsKept(Below(d, k), s)
  <2>1. CASE k = 11
    <3>1. d.account # Nothing => d.account.used \in {s, UsedCredits(Cents(s))}
      BY <2>1 DEF Kept, AccountIsKept
    <3>2. /\ d.account = Nothing => e.account = Nothing
          /\ d.account # Nothing => e.account.used = Cents(d.account.used)
      BY <1>1, <1>2, <2>1, InDollarsRows
    <3>3. Cents(UsedCredits(Cents(s))) = Cents(s)
      BY CentsAndCredits
    <3> QED
      BY <1>3, <2>1, <3>1, <3>2, <3>3 DEF AccountIsKept
  <2>2. CASE k # 11
    BY <1>1, <1>2, <1>3, <2>2 DEF AccountIsKept, Kept
  <2> QED
    BY <2>1, <2>2
<1> QED
  BY <1>3, <1>4, <1>5 DEF Kept

MigrationsInv == said \in Nat /\ Kept(db, said)

LEMMA RevisionRange ==
    ASSUME MigrationsInv
    PROVE  /\ db \in Database /\ said \in Nat
           /\ db.rev \in Nat /\ db.rev <= Head
           /\ Head \in Nat /\ Revisions = 0 .. Head
<1>1. db \in Database /\ said \in Nat
  BY DEF MigrationsInv, Kept
<1>2. db.rev \in Revisions
  BY <1>1 DEF Database
<1> QED
  BY <1>1, <1>2 DEF Revisions, Head

\* By induction on the revision that has been reached.
LEMMA UpwardKeeps ==
    ASSUME MigrationsInv, NEW n \in Revisions, n > db.rev
    PROVE  Kept(Upward(n)[n], said)
<1>1. db.rev \in Nat /\ n \in Nat /\ n <= Head /\ said \in Nat /\ Head \in Nat
  BY RevisionRange
<1>2. /\ Upward(n)[db.rev] = db
      /\ \A k \in db.rev + 1 .. n : Upward(n)[k] = Above(Upward(n)[k - 1], k)
  BY <1>1, UpwardFunction
<1> DEFINE Lost == {k \in Nat : /\ k \in db.rev .. n
                                /\ ~(Kept(Upward(n)[k], said) /\ Upward(n)[k].rev = k)}
<1>3. Lost = {}
  <2> SUFFICES ASSUME Lost # {} PROVE FALSE
    OBVIOUS
  <2>1. PICK k \in Lost : \A i \in Lost : ~(<<i, k>> \in OpToRel(<, Nat))
    BY NatLessThanWellFounded, WFMin
  <2>2. k \in Nat /\ \A i \in Nat : i < k => i \notin Lost
    BY <2>1 DEF OpToRel
  <2>3. CASE k = db.rev
    BY <1>2, <2>1, <2>3 DEF MigrationsInv
  <2>4. CASE k # db.rev
    <3>1. /\ k - 1 \in Nat /\ k - 1 < k /\ k - 1 \in db.rev .. n
          /\ k \in db.rev + 1 .. n /\ k \in 1 .. Head
      <4>1. k \in Nat /\ k \in db.rev .. n
        BY <2>1
      <4> QED
        BY <1>1, <2>4, <4>1
    <3>2. Kept(Upward(n)[k - 1], said) /\ Upward(n)[k - 1].rev = k - 1
      BY <2>2, <3>1
    <3>3. Kept(Above(Upward(n)[k - 1], k), said) /\ Above(Upward(n)[k - 1], k).rev = k
      BY <1>1, <3>1, <3>2, AboveKeeps
    <3> QED
      BY <1>2, <2>1, <3>1, <3>3
  <2> QED
    BY <2>3, <2>4
<1> QED
  BY <1>1, <1>3

\* By induction on how many have been taken back.
LEMMA DownwardKeeps ==
    ASSUME MigrationsInv, NEW n \in Revisions, n < db.rev
    PROVE  Kept(Downward(n)[n], said) /\ Downward(n)[n].rev = n
<1>1. db.rev \in Nat /\ n \in Nat /\ db.rev <= Head /\ said \in Nat /\ Head \in Nat
  BY RevisionRange
<1>2. /\ Downward(n)[db.rev] = db
      /\ \A k \in n .. db.rev - 1 : Downward(n)[k] = Below(Downward(n)[k + 1], k)
  BY <1>1, DownwardFunction
<1> DEFINE Good(k) == Kept(Downward(n)[k], said) /\ Downward(n)[k].rev = k
           Lost == {m \in Nat : m <= db.rev - n /\ ~Good(db.rev - m)}
<1>3. Lost = {}
  <2> SUFFICES ASSUME Lost # {} PROVE FALSE
    OBVIOUS
  <2>1. PICK m \in Lost : \A i \in Lost : ~(<<i, m>> \in OpToRel(<, Nat))
    BY NatLessThanWellFounded, WFMin
  <2>2. m \in Nat /\ \A i \in Nat : i < m => i \notin Lost
    BY <2>1 DEF OpToRel
  <2>3. CASE m = 0
    <3>1. Good(db.rev)
      BY <1>2 DEF MigrationsInv
    <3>2. db.rev - m = db.rev
      BY <1>1, <2>3
    <3> HIDE DEF Good
    <3> QED
      BY <2>1, <3>1, <3>2
  <2>4. CASE m # 0
    <3> DEFINE k == db.rev - m
    <3>1. /\ m - 1 \in Nat /\ m - 1 < m /\ m - 1 <= db.rev - n /\ db.rev - (m - 1) = k + 1
          /\ k \in n .. db.rev - 1 /\ k \in 0 .. Head - 1
      <4>1. m \in Nat /\ m <= db.rev - n
        BY <2>1
      <4> HIDE DEF Lost, Good
      <4> QED
        BY <1>1, <2>4, <4>1
    <3>2. Good(k + 1)
      BY <2>2, <3>1
    <3> HIDE DEF k
    <3>3. Kept(Below(Downward(n)[k + 1], k), said) /\ Below(Downward(n)[k + 1], k).rev = k
      BY <1>1, <3>1, <3>2, BelowKeeps
    <3>4. Good(k)
      BY <1>2, <3>1, <3>3
    <3> QED
      BY <2>1, <3>4 DEF k
  <2> QED
    BY <2>3, <2>4
<1>4. db.rev - n \in Nat /\ db.rev - (db.rev - n) = n
  BY <1>1
<1> HIDE DEF Good
<1>5. Good(n)
  BY <1>3, <1>4
<1> QED
  BY <1>5 DEF Good

LEMMA UpgradeStep ==
    ASSUME MigrationsInv, NEW n \in Revisions, Upgrade(n)
    PROVE  MigrationsInv'
  BY UpwardKeeps DEF Upgrade, MigrationsInv

LEMMA DowngradeStep ==
    ASSUME MigrationsInv, NEW n \in Revisions, Downgrade(n)
    PROVE  MigrationsInv'
<1>1. Kept(db', said) /\ db'.rev = n
  BY DownwardKeeps DEF Downgrade
<1>2. CASE n < 11
  <2>1. db'.account = Nothing /\ said' = 0
    BY <1>1, <1>2 DEF Kept, AccountIsKept, Downgrade
  <2> QED
    BY <1>1, <2>1 DEF MigrationsInv, Kept, AccountIsKept
<1>3. CASE ~(n < 11)
  BY <1>1, <1>3 DEF MigrationsInv, Downgrade
<1> QED
  BY <1>2, <1>3

\* What a release writes among the postings.
LEMMA PostingsStep ==
    ASSUME MigrationsInv, NEW j \in Postings, NEW row \in Posting,
           db' = [db EXCEPT !.jobs[j] = row], UNCHANGED said
    PROVE  MigrationsInv'
<1> DEFINE jobs == [db.jobs EXCEPT ![j] = row]
<1>1. jobs \in [Postings -> Posting \union {Nothing}]
  BY DEF MigrationsInv, Kept, Database
<1>2. db' = [db EXCEPT !.jobs = jobs]
  OBVIOUS
<1> HIDE DEF jobs
<1>3. /\ db' \in Database /\ ListedOnce(db')
      /\ db'.rev = db.rev /\ db'.account = db.account /\ db'.source = db.source
  BY <1>1, <1>2, PostingsReplaced DEF MigrationsInv, Kept
<1> QED
  BY <1>3 DEF MigrationsInv, Kept, FitsColumn, AccountIsKept

LEMMA ConfigsStep ==
    ASSUME MigrationsInv, NEW i \in Slots, NEW row \in Config \union {Nothing},
           row = Nothing \/ row.added <= 1,
           db' = [db EXCEPT !.configs[i] = row], UNCHANGED said
    PROVE  MigrationsInv'
<1> DEFINE configs == [db.configs EXCEPT ![i] = row]
<1>1. configs \in [Slots -> Config \union {Nothing}]
  BY DEF MigrationsInv, Kept, Database
<1>2. db' = [db EXCEPT !.configs = configs]
  OBVIOUS
<1>3. \A k \in Slots : configs[k] # Nothing => configs[k].added <= 1
  BY DEF MigrationsInv, Kept, Database, ListedOnce, Configured
<1> HIDE DEF configs
<1>4. /\ db' \in Database /\ ListedOnce(db')
      /\ db'.rev = db.rev /\ db'.account = db.account /\ db'.source = db.source
  BY <1>1, <1>2, <1>3, ConfigsReplaced DEF MigrationsInv, Kept
<1> QED
  BY <1>4 DEF MigrationsInv, Kept, FitsColumn, AccountIsKept

LEMMA AccountStep ==
    ASSUME MigrationsInv, NEW account \in Account, db.rev >= 11,
           db' = [db EXCEPT !.account = account], said' = CreditsOf(account.used)
    PROVE  MigrationsInv'
<1>1. db \in Database /\ account.used \in Nat
  BY DEF MigrationsInv, Kept, Account
<1>2. /\ db' \in Database /\ ListedOnce(db')
      /\ db'.rev = db.rev /\ db'.account = account /\ db'.source = db.source
  BY <1>1, AccountReplaced DEF MigrationsInv, Kept
<1>3. db.rev \in Nat
  BY <1>1, RevisionRange
<1>4. /\ said' \in Nat
      /\ IF db.rev >= 12 THEN said' = account.used ELSE account.used = Cents(said')
  BY <1>1, <1>3 DEF CreditsOf, Cents
<1>5. AccountIsKept(db', said')
  BY <1>2, <1>3, <1>4 DEF AccountIsKept
<1> QED
  BY <1>1, <1>2, <1>4, <1>5 DEF MigrationsInv, Kept, FitsColumn

LEMMA ReleaseStep ==
    ASSUME MigrationsInv, Release
    PROVE  MigrationsInv'
<1>1. db \in Database /\ said \in Nat
  BY DEF MigrationsInv, Kept
<1>2. ASSUME NEW j \in Postings, NEW ai \in BOOLEAN, NEW html \in Depths, Scrape(j, ai, html)
      PROVE  MigrationsInv'
  <2> DEFINE row == [ai |-> ai, html |-> html, status |-> "new", applied |-> FALSE,
                     irrelevant |-> FALSE]
             stored == IF db.rev >= 8 THEN Stripped(row) ELSE row
  <2>1. row \in Posting
    BY MigrationsAssumption DEF Posting
  <2>2. db' = [db EXCEPT !.jobs[j] = stored] /\ UNCHANGED said
    BY <1>2 DEF Scrape
  <2> HIDE DEF row
  <2>3. stored \in Posting
    BY <2>1, StrippedRow
  <2> QED
    BY <2>2, <2>3, PostingsStep
<1>3. ASSUME NEW j \in Postings, Apply(j) \/ Score(j) \/ Dismiss(j)
      PROVE  MigrationsInv'
  <2>1. PICK row \in Posting : db' = [db EXCEPT !.jobs[j] = row] /\ said' = said
    <3>1. db.jobs[j] \in Posting
      BY <1>1, <1>3, RowsAreSound DEF Apply, Score, Dismiss
    <3>2. CASE Apply(j)
      <4>1. db' = [db EXCEPT !.jobs[j] = [@ EXCEPT !.applied = TRUE]]
        BY <3>2 DEF Apply
      <4>2. [db.jobs[j] EXCEPT !.applied = TRUE] \in Posting
        BY <3>1 DEF Posting
      <4> QED
        BY <3>2, <4>1, <4>2 DEF Apply
    <3>3. CASE Score(j)
      <4>1. db' = [db EXCEPT !.jobs[j] = [@ EXCEPT !.status = "scored"]]
        BY <3>3 DEF Score
      <4>2. [db.jobs[j] EXCEPT !.status = "scored"] \in Posting
        BY <3>1 DEF Posting
      <4> QED
        BY <3>3, <4>1, <4>2 DEF Score
    <3>4. CASE Dismiss(j)
      <4>1. db' = [db EXCEPT !.jobs[j] = [@ EXCEPT !.irrelevant = TRUE]]
        BY <3>4 DEF Dismiss
      <4>2. [db.jobs[j] EXCEPT !.irrelevant = TRUE] \in Posting
        BY <3>1 DEF Posting
      <4> QED
        BY <3>4, <4>1, <4>2 DEF Dismiss
    <3> QED
      BY <1>3, <3>2, <3>3, <3>4
  <2> QED
    BY <2>1, PostingsStep
<1>4. ASSUME NEW i \in Slots, NEW added \in {0, 1}, AddConfig(i, added) \/ EditConfig(i, added)
      PROVE  MigrationsInv'
  <2> DEFINE row == [keywords |-> "own", added |-> added]
  <2>1. row \in Config /\ row.added <= 1
    BY DEF Config
  <2>2. db' = [db EXCEPT !.configs[i] = row] /\ said' = said
    BY <1>4 DEF AddConfig, EditConfig
  <2> QED
    BY <2>1, <2>2, ConfigsStep
<1>5. ASSUME NEW i \in Slots, DropConfig(i)
      PROVE  MigrationsInv'
  BY <1>5, ConfigsStep DEF DropConfig
<1>6. ASSUME NEW limit \in Limits, AddAccount(limit)
      PROVE  MigrationsInv'
  <2> DEFINE account == [monthly |-> limit, used |-> 0]
  <2>1. account \in Account /\ account.used = 0
    BY MigrationsAssumption DEF Account
  <2>2. db.rev >= 11 /\ db' = [db EXCEPT !.account = account] /\ said' = CreditsOf(0)
    BY <1>6 DEF AddAccount, CreditsOf
  <2> HIDE DEF account
  <2> QED
    BY <2>1, <2>2, AccountStep
<1>7. ASSUME NEW pages \in Pages, Charge(pages)
      PROVE  MigrationsInv'
  <2> DEFINE account == [db.account EXCEPT !.used = @ + pages]
  <2>1. db.account \in Account /\ pages \in Nat
    BY <1>1, <1>7, RowsAreSound, MigrationsAssumption DEF Charge
  <2>2. account \in Account /\ account.used = db.account.used + pages
    BY <2>1 DEF Account
  <2>3. db' = [db EXCEPT !.account = account] /\ said' = CreditsOf(account.used)
    BY <1>7, <2>2 DEF Charge
  <2> HIDE DEF account
  <2>4. db.rev >= 11
    BY <1>1, <1>7, RevisionRange DEF Charge, MigrationsInv, Kept, AccountIsKept
  <2> QED
    BY <2>2, <2>3, <2>4, AccountStep
<1>8. ASSUME NEW length \in {"manual", "short", "long"}, SaveCv(length)
      PROVE  MigrationsInv'
  <2>1. /\ db' \in Database /\ db'.source = length /\ db'.rev = db.rev
        /\ db'.account = db.account /\ db'.configs = db.configs /\ said' = said
    BY <1>1, <1>8 DEF SaveCv, Database
  <2>2. FitsColumn(db')
    BY <1>8, <2>1, RevisionRange DEF SaveCv, FitsColumn, Head
  <2>3. ListedOnce(db') /\ AccountIsKept(db', said')
    BY <2>1 DEF ListedOnce, Configured, AccountIsKept, MigrationsInv, Kept
  <2> QED
    BY <1>1, <2>1, <2>2, <2>3 DEF MigrationsInv, Kept
<1> QED
  BY <1>2, <1>3, <1>4, <1>5, <1>6, <1>7, <1>8 DEF Release

LEMMA MigrationsInvInit == MigrationsInit => MigrationsInv
<1> SUFFICES ASSUME MigrationsInit PROVE MigrationsInv
  OBVIOUS
<1>1. db = Empty /\ said = 0
  BY DEF MigrationsInit
<1>2. Empty \in Database
  BY DEF Empty, Database, Revisions, Head
<1>3. Empty.rev = 0 /\ Empty.source = "none" /\ Empty.account = Nothing /\ Configured(Empty) = {}
  BY DEF Empty, Configured
<1> QED
  BY <1>1, <1>2, <1>3 DEF MigrationsInv, Kept, FitsColumn, ListedOnce, AccountIsKept

LEMMA MigrationsInvStep == MigrationsInv /\ [MigrationsNext]_migrationVars => MigrationsInv'
<1> SUFFICES ASSUME MigrationsInv, [MigrationsNext]_migrationVars PROVE MigrationsInv'
  OBVIOUS
<1>1. CASE UNCHANGED migrationVars
  BY <1>1 DEF migrationVars, MigrationsInv
<1> QED
  BY <1>1, UpgradeStep, DowngradeStep, ReleaseStep DEF MigrationsNext

\* What the invariant says of the usage.
LEMMA KeptUsage == MigrationsInv => RollbackKeepsUsage
<1> SUFFICES ASSUME MigrationsInv, db.account # Nothing
             PROVE  CreditsOf(db.account.used) - said \in -5 .. 5
  BY DEF RollbackKeepsUsage
<1>1. said \in Nat /\ UsedCredits(Cents(said)) - said \in -5 .. 5
  BY CentsAndCredits DEF MigrationsInv
<1>2. CASE db.rev >= 12
  BY <1>1, <1>2 DEF MigrationsInv, Kept, AccountIsKept, CreditsOf
<1>3. CASE ~(db.rev >= 12)
  BY <1>1, <1>3 DEF MigrationsInv, Kept, AccountIsKept, UsedCredits, CreditsOf
<1> QED
  BY <1>2, <1>3

LEMMA MigrationsInvariance == MigrationsSpec => []MigrationsInv
  BY MigrationsInvInit, MigrationsInvStep, PTL DEF MigrationsSpec

(***************************************************************************)
(* However often a release is deployed and taken back, over whatever users *)
(* have written in between, revision 5 lists no source twice.              *)
(***************************************************************************)
THEOREM SourcesListedOnce == MigrationsSpec => []SourcesOnce
<1>1. MigrationsInv => SourcesOnce
  BY DEF MigrationsInv, Kept, ListedOnce, SourcesOnce
<1> QED
  BY <1>1, MigrationsInvariance, PTL

(***************************************************************************)
(* Whatever pages are charged and whenever: rollbacks to dollars and the   *)
(* deployments after them leave the usage within 5 credits of what a       *)
(* release last wrote.  Errors do not add up, since a usage that has been  *)
(* cents once comes back from further rollbacks as it was.                 *)
(***************************************************************************)
THEOREM RollbacksKeepUsage == MigrationsSpec => []RollbackKeepsUsage
  BY KeptUsage, MigrationsInvariance, PTL

-----------------------------------------------------------------------------
(***************************************************************************)
(* Revisions run again.                                                    *)
(***************************************************************************)
LEMMA NothingToExtend ==
    ASSUME NEW d \in Database, \A i \in Configured(d) : d.configs[i].added # 0
    PROVE  Extended(d) = d
<1> DEFINE configs == [i \in Slots |-> IF i \in Configured(d)
                                       THEN [d.configs[i] EXCEPT !.added = IF @ = 0 THEN 1 ELSE @]
                                       ELSE d.configs[i]]
<1>1. Extended(d) = [d EXCEPT !.configs = configs]
  BY DEF Extended, EachConfig, Database
<1>2. ASSUME NEW i \in Configured(d)
      PROVE  [d.configs[i] EXCEPT !.added = IF @ = 0 THEN 1 ELSE @] = d.configs[i]
  <2>1. d.configs[i] \in Config /\ d.configs[i].added # 0
    BY RowsAreSound
  <2> QED
    BY <2>1 DEF Config
<1>3. configs = d.configs
  BY <1>2, RowsAreSound
<1> HIDE DEF configs
<1> QED
  BY <1>1, <1>3 DEF Database

LEMMA ExtendedLists ==
    ASSUME NEW d \in Database
    PROVE  \A i \in Configured(Extended(d)) : Extended(d).configs[i].added # 0
<1> DEFINE configs == [i \in Slots |-> IF i \in Configured(d)
                                       THEN [d.configs[i] EXCEPT !.added = IF @ = 0 THEN 1 ELSE @]
                                       ELSE d.configs[i]]
<1>1. Extended(d) = [d EXCEPT !.configs = configs]
  BY DEF Extended, EachConfig, Database
<1>2. Extended(d).configs = configs
  BY <1>1 DEF Database
<1>3. ASSUME NEW i \in Configured(Extended(d))
      PROVE  configs[i].added # 0
  <2>1. i \in Slots /\ configs[i] # Nothing
    BY <1>2, <1>3 DEF Configured
  <2>2. i \in Configured(d)
    BY <2>1, RowsAreSound
  <2>3. configs[i] = [d.configs[i] EXCEPT !.added = IF @ = 0 THEN 1 ELSE @]
    BY <2>1, <2>2
  <2>4. d.configs[i] \in Config
    BY <2>2, RowsAreSound
  <2> QED
    BY <2>3, <2>4 DEF Config
<1> QED
  BY <1>2, <1>3

LEMMA NothingToClean ==
    ASSUME NEW d \in Database, OffTopic(d) = {}, \A j \in Listed(d) : d.jobs[j].html = 0
    PROVE  Cleaned(d) = d
<1> DEFINE jobs == [j \in Postings |-> IF j \in Listed(d)
                                       THEN Stripped(d.jobs[j])
                                       ELSE d.jobs[j]]
<1>1. Cleaned(d) = Without([d EXCEPT !.jobs = jobs], {})
  BY DEF Cleaned
<1>2. ASSUME NEW j \in Listed(d)
      PROVE  Stripped(d.jobs[j]) = d.jobs[j]
  <2>1. d.jobs[j] \in Posting
    BY RowsAreSound
  <2> QED
    BY <2>1, StrippedRow
<1>3. jobs = d.jobs
  BY <1>2, RowsAreSound
<1> HIDE DEF jobs
<1>4. [d EXCEPT !.jobs = jobs] = d
  BY <1>3 DEF Database
<1>5. Without(d, {}) = d
  BY DEF Without, Database
<1> QED
  BY <1>1, <1>4, <1>5

LEMMA CleanedPostings ==
    ASSUME NEW d \in Database
    PROVE  /\ OffTopic(Cleaned(d)) = {}
           /\ (\A j \in Listed(d) : d.jobs[j].html <= 1)
                 => \A j \in Listed(Cleaned(d)) : Cleaned(d).jobs[j].html = 0
<1> DEFINE jobs == [j \in Postings |-> IF j \in Listed(d)
                                       THEN Stripped(d.jobs[j])
                                       ELSE d.jobs[j]]
           left == [j \in Postings |-> IF j \in OffTopic(d) THEN Nothing ELSE jobs[j]]
<1>1. Cleaned(d).jobs = left
  <2> DEFINE plain == [d EXCEPT !.jobs = jobs]
  <2>1. plain.jobs = jobs /\ DOMAIN plain = {"rev", "jobs", "configs", "account", "source"}
    BY DEF Database
  <2>2. Cleaned(d) = Without(plain, OffTopic(d))
    BY DEF Cleaned
  <2> HIDE DEF plain, jobs
  <2> QED
    BY <2>1, <2>2 DEF Without
<1>2. ASSUME NEW j \in Listed(Cleaned(d))
      PROVE  /\ j \in Listed(d) /\ j \notin OffTopic(d)
             /\ left[j] = Stripped(d.jobs[j])
             /\ d.jobs[j] \in Posting
  <2>1. j \in Postings /\ left[j] # Nothing
    BY <1>1, <1>2 DEF Listed
  <2>2. j \in Listed(d) /\ j \notin OffTopic(d)
    BY <2>1, RowsAreSound
  <2> QED
    BY <2>1, <2>2, RowsAreSound
<1> HIDE DEF left
<1>3. ASSUME NEW j \in Listed(Cleaned(d))
      PROVE  /\ d.jobs[j].html <= 1 => left[j].html = 0
             /\ left[j].ai = d.jobs[j].ai /\ left[j].status = d.jobs[j].status
  BY <1>2, <1>3, StrippedRow DEF Posting
<1> QED
  BY <1>1, <1>2, <1>3 DEF OffTopic

\* Descriptions are changed, no posting is taken.
LEMMA CleaningKeepsPostings ==
    ASSUME NEW d \in Database, OffTopic(d) = {}
    PROVE  Listed(Cleaned(d)) = Listed(d)
<1> DEFINE jobs == [j \in Postings |-> IF j \in Listed(d)
                                       THEN Stripped(d.jobs[j])
                                       ELSE d.jobs[j]]
           stripped == [d EXCEPT !.jobs = jobs]
<1>1. Cleaned(d) = Without(stripped, {})
  BY DEF Cleaned
<1>2. ASSUME NEW j \in Postings
      PROVE  jobs[j] = Nothing <=> d.jobs[j] = Nothing
  <2>1. CASE j \in Listed(d)
    <3>1. jobs[j] \in Posting /\ d.jobs[j] \in Posting
      BY <2>1, RowsAreSound, StrippedRow
    <3> QED
      BY <3>1, NothingIsNoRow
  <2>2. CASE j \notin Listed(d)
    BY <2>2
  <2> QED
    BY <2>1, <2>2
<1>3. stripped.jobs = jobs /\ DOMAIN stripped = {"rev", "jobs", "configs", "account", "source"}
  BY DEF Database
<1> HIDE DEF stripped
<1>4. Cleaned(d).jobs = [j \in Postings |-> IF j \in {} THEN Nothing ELSE jobs[j]]
  BY <1>1, <1>3 DEF Without
<1> HIDE DEF jobs
<1> QED
  BY <1>2, <1>4 DEF Listed

(***************************************************************************)
(* Revisions 4, 5 and 8 say that they are idempotent, "re-running is a     *)
(* no-op".  4 and 5, run again on what they have made of any database,     *)
(* change nothing, whatever configurations users have left in it.  8 takes *)
(* no further posting, and changes nothing unless a description had escaped*)
(* tags in it: those become tags in the first run and go in the second.    *)
(***************************************************************************)
THEOREM RerunsAreNoOps ==
    \A d \in Database : /\ Seeded(Seeded(d)) = Seeded(d)
                        /\ Extended(Extended(d)) = Extended(d)
                        /\ Listed(Cleaned(Cleaned(d))) = Listed(Cleaned(d))
                        /\ (\A j \in Listed(d) : d.jobs[j].html <= 1)
                              => Cleaned(Cleaned(d)) = Cleaned(d)
<1> TAKE d \in Database
<1>1. Seeded(Seeded(d)) = Seeded(d)
  <2>1. CASE Configured(d) # {}
    BY <2>1 DEF Seeded
  <2>2. CASE Configured(d) = {}
    <3> DEFINE row == [keywords |-> "loose", added |-> 0]
    <3>1. PICK i \in Slots : Seeded(d) = [d EXCEPT !.configs[i] = row]
      BY <2>2, MigrationsAssumption DEF Seeded
    <3>2. Seeded(d).configs[i] = row /\ row # Nothing
      BY <3>1 DEF Database, Nothing
    <3>3. i \in Configured(Seeded(d))
      BY <3>2 DEF Configured
    <3> QED
      BY <3>3 DEF Seeded
  <2> QED
    BY <2>1, <2>2
<1>2. Extended(Extended(d)) = Extended(d)
  BY ExtendedRows, ExtendedLists, NothingToExtend
<1>3. Listed(Cleaned(Cleaned(d))) = Listed(Cleaned(d))
  BY CleanedRows, CleanedPostings, CleaningKeepsPostings
<1>4. (\A j \in Listed(d) : d.jobs[j].html <= 1) => Cleaned(Cleaned(d)) = Cleaned(d)
  BY CleanedRows, CleanedPostings, NothingToClean
<1> QED
  BY <1>1, <1>2, <1>3, <1>4

-----------------------------------------------------------------------------
(***************************************************************************)
(* The four parts in one server.                                           *)
(***************************************************************************)

(***************************************************************************)
(* The server implements each of its four parts: what is proved of a part  *)
(* on its own holds of the server, whatever the other parts do.            *)
(***************************************************************************)
LEMMA PartsStayApart == Spec => BoxSpec /\ MasterSpec /\ PortfolioSpec /\ MigrationsSpec
<1>1. Init => BoxInit /\ MasterInit /\ PortfolioInit /\ MigrationsInit
  BY DEF Init
<1>2. [Next]_vars => /\ [BoxNext]_boxVars
                     /\ [MasterNext]_masterVars
                     /\ [PortfolioNext]_portfolioVars
                     /\ [MigrationsNext]_migrationVars
  BY DEF Next, vars, MailboxStep, MasterStep, PortfolioStep, MigrationsStep
<1> QED
  BY <1>1, <1>2, PTL DEF Spec, BoxSpec, MasterSpec, PortfolioSpec, MigrationsSpec

(***************************************************************************)
(* All tables and the places of all threads of the four parts are of their *)
(* types, and no source_type is longer than its column at the revision the *)
(* database is at.                                                         *)
(***************************************************************************)
THEOREM PartsTyping == Spec => []TypeOK
<1>1. BoxInv /\ MasterInv /\ PortfolioInv /\ MigrationsInv => TypeOK
  BY DEF TypeOK, BoxInv, MasterInv, PortfolioInv, MigrationsInv, MigrationsTypeOK, Kept,
     FitsColumn
<1> QED
  BY <1>1, PartsStayApart, BoxInvariance, MasterInvariance, PortfolioInvariance,
     MigrationsInvariance, PTL
=============================================================================
