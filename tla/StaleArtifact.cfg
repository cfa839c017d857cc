\* An edit while a download renders the text before it.
SPECIFICATION Spec
CONSTANTS
    a1 = a1
    w1 = w1
    v1 = v1
    v2 = v2
    Applications = {a1}
    JobTypes <- MCJobTypes
    Progress <- MCProgress
    Faults <- MCNoFaults
    MaxJobs = 1
    MaxCvs = 1
    Workers = {w1}
    Viewers = {v1, v2}
    Versions = {1, 2}
INVARIANT
    EditInvalidates
