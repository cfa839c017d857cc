\* One modal, one pair of jobs, and nothing that fails.
SPECIFICATION FairSpec
CONSTANTS
    p1 = p1
    t1 = t1
    Applications = {1}
    JobTypes <- MCJobTypes
    Viewers <- MCViewers
    Progress <- MCProgress
    Faults = {}
    MaxJobs = 2
    Postings = {p1}
    Tabs = {t1}
PROPERTIES
    ReviewFollows
CHECK_DEADLOCK FALSE
