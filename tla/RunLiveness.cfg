\* Every open run closes, across a crash of the server.
CONSTANTS
    Loops = {l1}
    Runs = {r1}
    Fires = {f1}
    Polls = {p1}
    Sweeps = {s1}
    Reports = {x1}
    Finishes = {}
    Cancels = {}
    GoalLoops = {}
    None = None
    DispatchMayThrow = FALSE
    OwnerOps = {"goal","pause","resume","evolve"}
    MaxEdits = 1
    MaxRestarts = 1
SPECIFICATION FairSpec
PROPERTIES OpenRunsClose
\* The system may stop: every run identity is used and nothing is in flight.
CHECK_DEADLOCK FALSE
