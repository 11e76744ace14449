\* Who fills and empties the slot of a loop: two triggers that fire together,
\* two polls that race, and the sweep; the dispatcher may throw.
CONSTANTS
    Loops = {l1}
    Runs = {r1, r2}
    Fires = {f1, f2}
    Polls = {p1, p2}
    Sweeps = {s1}
    Reports = {}
    Finishes = {}
    Cancels = {}
    GoalLoops = {}
    None = None
    DispatchMayThrow = TRUE
    OwnerOps = {}
    MaxEdits = 0
    MaxRestarts = 0
SPECIFICATION Spec
SYMMETRY Interchangeable
INVARIANTS OneOpenRun
PROPERTIES ImplementsSlot
\* The system may stop: every run identity is used and nothing is in flight.
CHECK_DEADLOCK FALSE
