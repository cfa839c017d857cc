\* What is spent: two gated sources, one account, one job.
SPECIFICATION Spec
CONSTANTS
    a1 = a1
    r1 = r1
    r2 = r2
    t1 = t1
    c1 = c1
    j1 = j1
    Accounts = {a1}
    Runs = {r1, r2}
    Admins = {t1}
    Monthlies = {4}
    Costs = {3}
    Reserve = 1
    Margin = 1
    MaxFailures = 2
    MaxSpent = 6
    Configs = {c1}
    Gated <- MCTwoSources
    Jobs = {j1}
    Faults <- MCFaults
SYMMETRY MCSymmetry
INVARIANTS
    TypeOK
    UsageIsKept
PROPERTIES
    ImplementsLease
    FoundIsKept
    OverdrawnOnceAtMost
