\* One application, a request for everything and one for a follow-up.
SPECIFICATION Spec
CONSTANTS
    a1 = a1
    c1 = c1
    s1 = s1
    Applications = {a1}
    JobTypes <- MCJobTypes
    Progress <- MCProgress
    Faults <- MCNoFaults
    EmailTypes = {"initial", "follow_up_1"}
    Asked = {"all", "follow_up_1"}
    MaxJobs = 2
    Results <- MCResults
    MaxTwins = 1
    Callbacks = {c1}
    Versions = {}
    HasContact = {a1}
    AppStatuses <- MCAppStatuses
    MaxMails = 1
    Senders = {s1}
INVARIANTS
    FollowUpTargetsOneRow
