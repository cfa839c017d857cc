\* One application: two completions at once, or one draft that two requests send.
SPECIFICATION MCSpec
CONSTANTS
    a1 = a1
    c1 = c1
    c2 = c2
    s1 = s1
    s2 = s2
    Applications = {a1}
    JobTypes <- MCJobTypes
    Progress <- MCProgress
    Faults <- MCFaults
    EmailTypes = {"initial", "follow_up_1"}
    Asked = {"all"}
    MaxJobs = 2
    Results <- MCResults
    MaxTwins = 2
    Callbacks = {c1, c2}
    Versions = {1}
    HasContact = {a1}
    AppStatuses <- MCAppStatuses
    MaxMails = 2
    Senders = {s1, s2}
SYMMETRY ThreadSymmetry
INVARIANTS
    TypeOK
    OneDraftPerType
    ImapLinkHasCopy
    MailIsRecorded
PROPERTIES
    ApprovalCoversText
