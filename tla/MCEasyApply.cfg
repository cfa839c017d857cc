\* One posting: two modals with a pair of jobs, or one with two pairs.
SPECIFICATION MCSpec
CONSTANTS
    p1 = p1
    t1 = t1
    t2 = t2
    Applications = {1, 2}
    JobTypes <- MCJobTypes
    Viewers <- MCViewers
    Progress <- MCProgress
    Faults <- MCFaults
    MaxJobs = 4
    Postings = {p1}
    Tabs = {t1, t2}
INVARIANTS
    TypeOK
    LastWordHolds
    OneApplicationPerPosting
    JobsKeepTheirApplication
    ReviewedBeforeSent
SYMMETRY TabSymmetry
\* Nothing is left to do once the jobs are used up and the posting is gone.
CHECK_DEADLOCK FALSE
