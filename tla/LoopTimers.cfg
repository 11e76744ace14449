\* One loop, two handlers at a time, up to three in all, one crash.
CONSTANTS
    Loops = {l1}
    Exprs = {e1, e2}
    Jobs = {j1, j2}
    None = None
    MaxJobs = 3
    MaxRestarts = 1
SPECIFICATION Spec
INVARIANTS CronMatchesRow MissedIsCaughtUp
PROPERTIES OneShotServed
\* The system may stop: the loop is deleted and no handler is left.
CHECK_DEADLOCK FALSE
