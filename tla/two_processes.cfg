\* Two API processes on one database and one file system: their activating
\* transactions wait for each other, and one may report a false failure; the lock
\* of each is released.
SPECIFICATION FairSpec
CONSTANTS
    Procs = {p1, p2}
    Rebuilds = {r1, r2, r3}
    Searches = {}
    Docs = {d1}
    None = None
    MaxCrashes = 0
    MaxFaults = 1
    Ambiguous = {"activate"}
INVARIANT OneActivated
PROPERTY LockReleased
