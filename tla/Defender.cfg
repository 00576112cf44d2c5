SPECIFICATION Spec
CONSTANTS
    Node = {n1, n2}
    Behavior <- MCBehavior
    BanTime = 2
    MaxTime = 4
    MaxReports = 3
INVARIANTS TypeOK SuspicionSlow FairComparison
PROPERTY BadReportsRaise
\* The bounds on time and reports end the run.
CHECK_DEADLOCK FALSE
