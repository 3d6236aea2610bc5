\* The database is away when the worker records the outcome.
SPECIFICATION Spec
CONSTANTS
    Jobs = {j1}
    Uploads = {}
    Workers = {w1}
    Docs = {d1}
    Contents = {plain}
    Invalid = {}
    Unreadable = {}
    None = None
    MaxCrashes = 0
    MaxRedeliveries = 0
    MaxFaults = 1
    MaxRemovals = 0
    MaxDbErrors = 1
    Ambiguous = {}
INVARIANT StagedWhileNeeded
