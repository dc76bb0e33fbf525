\* A check that overlaps the start of an update, then a death of the process.
SPECIFICATION Spec
CONSTANTS
    r1 = r1
    r2 = r2
    p1 = p1
    p2 = p2
    NoOne = NoOne
    Process = {p1}
    Request = {r1, r2}
    ProcessOf <- Together
    MaxRuns = 2
    MaxCrashes = 1
    Pg = TRUE
    Kinds = {"apply", "status", "check"}
    FirstRow = {"unreported"}
    Faults = {}
INVARIANT SuccessIsTrue
SYMMETRY Interchangeable
