\* Everything at once: two workers, a lost process, repeated deliveries, and
\* operations that fail after they took effect.
SPECIFICATION FairSpec
CONSTANTS
    Jobs = {j1}
    Uploads = {u1}
    Workers = {w1, w2}
    Docs = {d1, d2, d3, d4}
    Contents = {plain, scan}
    Invalid = {}
    Unreadable = {scan}
    None = None
    MaxCrashes = 1
    MaxRedeliveries = 1
    MaxFaults = 1
    MaxRemovals = 1
    MaxDbErrors = 1
    Ambiguous = {"publish", "commit"}
ACTION_CONSTRAINTS IdsInOrder TwoFailures
INVARIANTS UniqueActiveContent FilesAccounted UnsettledIsCarried StagedFilesCarried
PROPERTY JobsSettle
