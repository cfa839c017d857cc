\* Two requests for one application, the older job answering last.
SPECIFICATION Spec
CONSTANTS
    w1 = w1
    a1 = a1
    Applications = {a1}
    JobTypes <- MCJobTypes
    Progress <- MCProgress
    Faults <- MCNoFaults
    MaxJobs = 2
    MaxCvs = 2
    Workers = {w1}
    Viewers = {}
    Versions = {}
INVARIANT
    CallbackFillsItsOwnRow
