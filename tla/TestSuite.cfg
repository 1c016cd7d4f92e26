SPECIFICATION Spec
CONSTANTS
    Procs = {p, q}
    SuiteFiles = {"s", "r"}
    ReadOnly = {"r"}
    DftFiles = {"d1", "d2"}
    Commands <- MCCommands
    FirstSuites <- MCFirstSuites
    MaxStarts = 2
    Times = {2, 3}
INVARIANTS ReportedIsStored VerdictIsRight
PROPERTY NothingLost
SYMMETRY Swaps
CHECK_DEADLOCK FALSE
