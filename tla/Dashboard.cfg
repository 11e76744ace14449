\* One machine and two connect keys, two requests in flight; two loops and three
\* requests on the loop page; one channel, one bot token and two requests of four in all;
\* a run's page that goes two pages back, and the page of another loop's run; one tab between two
\* teams; two changes of a team there is and one to be made, where `remove` is as `add`, `leave`
\* as `delete`, and `setRole`, `invite` and `revoke` as `rename` with less to read anew.
SPECIFICATION DashboardSpec
CONSTANTS
  Machines = {m1}
  Keys = {k1, k2}
  NoId = NoId
  Wires = {1, 2}
  SettlePolls = 2
  Loops = {l1, l2}
  Nobody = Nobody
  Calls = {1, 2, 3}
  Chans = {c1}
  Tokens = {t1}
  Reqs = {q1, q2}
  Typed = Typed
  Nothing = Nothing
  MaxRedirects = 1
  MaxRequests = 4
  Live = {l1}
  MaxPages = 2
  MaxDepth = 2
  Tabs = {b1}
  Teams = {home, team}
  Personal = home
  Idle = {home}
  None = None
  MaxShifts = 2
  Groups = {g1, g2}
  Active = g1
  Unborn = {g2}
  Ops = {"create", "rename", "delete", "add"}
  Slots = {1, 2}
  MaxWrites = 2
SYMMETRY Interchangeable
INVARIANTS
  CreatedIsNoticed
  DeletesAreMeant
  RouteLeadsSomewhere
  SettledPageIsWhole
  PinnedToItsTeam
  SettledDialogIsCurrent
\* A page may come to rest: the user is done with it.
CHECK_DEADLOCK FALSE
