\* Two pids and two commands over two births; one agent with one process of its
\* own; one address and two credentials; both thresholds of the watchdog 2; the
\* timeline of two loops on two machines, one created or changed while it is open; two loops in
\* any of the places, five changes of up to three runs.
SPECIFICATION ProcessesSpec
CONSTANTS
  FailureThreshold = 2
  StarvedCeiling = 2
  Pids = {p1, p2}
  Commands = {c1, c2}
  MaxBirths = 2
  Sessions = {s1, s2}
  MaxEvents = 2
  Ips = {i1}
  Tokens = {t1, t2}
  NoToken = NoToken
  Capacity <- MCCapacity
  Refill <- MCRefill
  Cost = 2
  MaxKeys = 1
  MaxTime = 2
  MaxForward = 3
  Hosts = {hostA, hostB}
  hostA = hostA  hostB = hostB
  Loops = {"a", "b"}
  OwnedBy <- MCOwnedBy
  Created = {"a"}
  Fires = {3, 5}
  Slack = 1
  RunCap = 2
  MaxProjected = 1
  Day = 2
  Back = 2
  Ahead = 1
  Asks = {c3}
  Start = 3
  LastTime = 4
  MaxFires = 2
  MaxEdits = 1
  All = All
  Places <- MCPlaces
  Dirs <- MCDirs
  ScratchDir <- MCScratchDir
  NoPath = NoPath
  HomeRuns = 2
  LogRuns = 2
  MaxRuns = 3
  MaxChanges = 5
INVARIANTS
  DaemonIsRecorded
  StrangersAreSpared
  SurvivorsAreNamed
  RateIsBounded
  OutageIsBounded
  FireShownOnce
  NothingNewerMissing
  SameFolder
\* A part may stop: the agent is over, the process exited, the bounds are reached.
CHECK_DEADLOCK FALSE
