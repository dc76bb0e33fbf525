\* Two administrators of one process on SQLite that may die; two processes; one who polls.
SPECIFICATION PartSpec
CONSTANTS
    r1 = r1
    r2 = r2
    p1 = p1
    p2 = p2
    NoOne = NoOne
    Process = {p1}
    Request = {r1, r2}
    ProcessOf <- Together
    MaxRuns = 2
    MaxCrashes = 1
    Pg = FALSE
    Kinds = {"apply", "check"}
    FirstRow = {"unreported"}
    Faults = {}
INVARIANT StatusTrue
PROPERTY OneUpdate
SYMMETRY Interchangeable
CHECK_DEADLOCK FALSE
