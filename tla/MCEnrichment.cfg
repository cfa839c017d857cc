\* A posting with one account, or other pages alone with two.
SPECIFICATION MCSpec
CONSTANTS
    a1 = a1
    a2 = a2
    c1 = c1
    c2 = c2
    t1 = t1
    j1 = j1
    Accounts = {a1, a2}
    Callers = {c1, c2}
    Admins = {t1}
    Priorities = {1}
    Monthlies = {3}
    Margin = 1
    MaxFailures = 2
    MaxTries = 2
    MaxClock = 1
    Faults <- MCFaults
    Jobs = {j1}
    Lengths = {1, 2}
SYMMETRY MCSymmetry
INVARIANTS
    TypeOK
    UsageIsKept
PROPERTIES
    ImplementsLease
    TextGrows
    HeadroomKept
    RetryRotates
