\* That runs end: no account, so that gated sources are skipped, and two jobs which runs
\* insert in either order.
SPECIFICATION FairSpec
CONSTANTS
    r1 = r1
    r2 = r2
    c1 = c1
    j1 = j1
    j2 = j2
    Accounts = {}
    Runs = {r1, r2}
    Admins = {}
    Monthlies = {2}
    Costs = {1}
    Reserve = 1
    Margin = 1
    MaxFailures = 1
    MaxSpent = 1
    Configs = {c1}
    Gated <- MCOneSource
    Jobs = {j1, j2}
    Faults <- MCFaults
PROPERTIES
    RunsEnd
