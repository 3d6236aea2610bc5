\* The database does not answer when the worker reads the job.
SPECIFICATION FairSpec
CONSTANTS
    Jobs = {j1}
    Uploads = {}
    Workers = {w1}
    Docs = {d1}
    Contents = {plain}
    Invalid = {}
    Unreadable = {}
    None = None
    MaxCrashes = 0
    MaxRedeliveries = 0
    MaxFaults = 0
    MaxRemovals = 0
    MaxDbErrors = 1
    Ambiguous = {}
PROPERTY AcceptedJobsSettle
