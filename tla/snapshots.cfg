\* One API process as deployed, three rebuild requests, concurrent additions,
\* deletions and a search, a crash and a failed operation.
SPECIFICATION Spec
CONSTANTS
    Procs = {p1}
    Rebuilds = {r1, r2, r3}
    Searches = {s1}
    Docs = {d1, d2}
    None = None
    MaxCrashes = 1
    MaxFaults = 2
    Ambiguous = {}
SYMMETRY Symmetry
INVARIANTS TypeOK ActivatedIsOnDisk LeftoversDoNotBlock ServesActivated DeletedNotFound
PROPERTY ImplementsRegister
