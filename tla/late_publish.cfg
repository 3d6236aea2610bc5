\* The message reaches the broker although enqueue raises.
SPECIFICATION Spec
CONSTANTS
    Jobs = {j1}
    Uploads = {}
    Workers = {w1}
    Docs = {d1}
    Contents = {plain}
    Invalid = {}
    Unreadable = {}
    None = None
    MaxCrashes = 0
    MaxRedeliveries = 0
    MaxFaults = 1
    MaxRemovals = 0
    MaxDbErrors = 0
    Ambiguous = {"publish"}
PROPERTY TerminalIsFinal
