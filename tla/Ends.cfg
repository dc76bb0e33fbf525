\* Liveness of the components of Access, Estate and Cloud, and what must be whole at the end.
SPECIFICATION FairSpec
CONSTANTS
    None = None
    MaxBytes = 3
    Chunk = {1, 2}
    MaxBody = 6
    Procs = {1, 2}
    MaxCrashes = 1
    CaptureRequests = {1, 2}
    CaptureIds = {1, 2}
    CapturePolls = 2
INVARIANT NothingHalf
PROPERTIES RequestsEnd NobodyWaits CopiesAgree
CHECK_DEADLOCK FALSE
