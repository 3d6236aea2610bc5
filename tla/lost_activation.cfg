\* The activating commit takes effect although it raises.
SPECIFICATION Spec
CONSTANTS
    Procs = {p1}
    Rebuilds = {r1, r2}
    Searches = {}
    Docs = {d1}
    None = None
    MaxCrashes = 0
    MaxFaults = 1
    Ambiguous = {"activate"}
PROPERTY ActiveVersionSurvives
