\* One daemon that may die, lose its connection or outlive the server once, a second
\* request beside the one it left behind, two runs, one change of the watch set.
CONSTANTS
    Runs = {r1, r2}
    Requests = {q1, q2}
    None = None
    WaitFor = 4
    OnlineTtl = 6
    Refresh = 2
    CacheTtl = 3
    Patience = 6
    MaxEdits = 1
    MaxFaults = 1
SPECIFICATION Spec
INVARIANTS NoLostWakeup PresenceKept
PROPERTIES WatchConverges
