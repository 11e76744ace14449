\* Who decides how one run ended: two reports of the daemon, `finish`, the stop
\* button and the sweep, on a loop that may be deleted.
CONSTANTS
    Loops = {l1}
    Runs = {r1}
    Fires = {f1}
    Polls = {p1}
    Sweeps = {s1}
    Reports = {x1, x2}
    Finishes = {y1}
    Cancels = {c1}
    GoalLoops = {l1}
    None = None
    DispatchMayThrow = FALSE
    OwnerOps = {"delete"}
    MaxEdits = 0
    MaxRestarts = 0
SPECIFICATION Spec
SYMMETRY Interchangeable
INVARIANTS RunningHasLoop
PROPERTIES SettledIsFinal NeverReopened
\* The system may stop: every run identity is used and nothing is in flight.
CHECK_DEADLOCK FALSE
