\* Two commands at a time of three in all: the verbs of runs and the owner's edits;
\* one call with two deploys around it; two setups of one agent's settings; three
\* runs, two of whose reports may be at work together, a breaker that trips at three.
CONSTANTS
    k1 = k1  k2 = k2
    Keys = {k1, k2}
    Runs = {r1}
    Reqs = {q1, q2}
    None = None
    Verbs <- MCVerbs
    Patches <- MCPatches
    MaxRequests = 3
    MaxDeploys = 2
    Agents <- MCAgents
    Others = {o1}
    ReportRuns = {1, 2, 3}
    TransientRetries = 1
    AutopauseStreak = 3
    NotifyEvery = 3
    MaxItems = 1
    MaxStamp = 3
    MaxToggles = 1
    MaxUpsets = 2
SPECIFICATION CommandsSpec
SYMMETRY Interchangeable
INVARIANTS
    TakesEffectOnce ZeroMeansDone
    HookCanRun
    NothingSkipped OutageSurfaced
PROPERTIES CompletionAgrees
\* The system may stop: the requests are bounded.
CHECK_DEADLOCK FALSE
