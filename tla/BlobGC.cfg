\* One loop whose file comes and goes, one request of each kind in flight at a time,
\* the collector, one snapshot retained, one crash.
CONSTANTS
    Loops = {l1}
    Hashes = {h1}
    Syncs = {x1}
    Puts = {p1}
    Reports = {y1}
    None = None
    Keep = 1
    MaxRestarts = 1
SPECIFICATION Spec
INVARIANTS RowHasBytes KeptWhileReferred
PROPERTIES UnreferredIsCollected
