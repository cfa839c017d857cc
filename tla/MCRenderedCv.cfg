\* Two applications, two CVs, two jobs, every fault; two downloads of one CV at once.
SPECIFICATION MCSpec
CONSTANTS
    w1 = w1
    w2 = w2
    a1 = a1
    a2 = a2
    v1 = v1
    v2 = v2
    Applications = {a1, a2}
    JobTypes <- MCJobTypes
    Progress <- MCProgress
    Faults <- MCFaults
    MaxJobs = 2
    MaxCvs = 2
    Workers = {w1, w2}
    Viewers = {v1, v2}
    Versions = {0, 1, 2}
INVARIANTS
    TypeOK
    NoOrphanTailoring
    OwnApplicationOnly
    LogNamesOneJobPerCv
    CachedPathHasFile
    EditedArtifactFresh
PROPERTIES
    JobsNeverReopen
    ImplementsShelf
    AnswerReachesNewest
