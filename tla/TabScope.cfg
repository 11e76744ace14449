\* One tab between two teams; the cookie is moved by another.
CONSTANTS
  Tabs = {b1}
  Teams = {home, team}
  Personal = home
  Idle = {home}
  None = None
  MaxShifts = 0
SPECIFICATION Spec
INVARIANT ChannelsOfThisTeam
CHECK_DEADLOCK FALSE
