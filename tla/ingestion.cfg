\* Two asynchronous uploads and one synchronous one, one worker as deployed;
\* a crash, a repeated delivery and a failed operation in any order.
SPECIFICATION Spec
CONSTANTS
    Jobs = {j1, j2}
    Uploads = {u1}
    Workers = {w1}
    Docs = {d1, d2, d3, d4}
    Contents = {plain, scan, empty}
    Invalid = {empty}
    Unreadable = {scan}
    None = None
    MaxCrashes = 1
    MaxRedeliveries = 1
    MaxFaults = 1
    MaxRemovals = 1
    MaxDbErrors = 0
    Ambiguous = {}
SYMMETRY Symmetry
INVARIANTS TypeOK JobRecordConsistent StagedWhileNeeded
    SourceRetained
PROPERTY ImplementsLibrary
