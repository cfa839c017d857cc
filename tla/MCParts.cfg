\* Two accounts and two tests; three versions of the master CV by two authors and two
\* readers, one template; one file and two urls, by two scans and two imports; a
\* database of one posting, or of a configuration, an account and a master CV.
SPECIFICATION AloneSpec
CONSTANTS
    acc1 = acc1
    acc2 = acc2
    x1 = x1
    x2 = x2
    Accounts = {acc1, acc2}
    Testers = {x1, x2}
    EnvAccount = TRUE
    MaxMasters = 3
    Authors = {x1, x2}
    Readers = {x1, x2}
    Templates = {"plain"}
    Sources = {"CLAUDE.md"}
    url1 = url1
    url2 = url2
    Urls = {url1, url2}
    Contents = {"v1", "v2"}
    MaxRank = 2
    Scanners = {x1, x2}
    Importers = {x1, x2}
    Postings = {"job"}
    Depths = {0, 1, 2}
    Slots = {1}
    Pages = {1, 4}
    Limits = {525, 1500}
    MaxUsed = 24
INVARIANTS
    TypeOK
    MailGoesByTestedSettings
    OneActiveMaster
    DownloadMatchesRow
    OneRowPerKey
    SourcesOnce
    RollbackKeepsUsage
PROPERTIES
    CuratedHintKept
SYMMETRY Symmetry
\* Every part ends at its bounds.
CHECK_DEADLOCK FALSE
