\* Two requests at a time of three in all: two users, their personal teams and a shared one.
CONSTANTS
    ua = ua  ub = ub  home_a = home_a  home_b = home_b  shared = shared
    Users = {ua, ub}
    Teams = {home_a, home_b, shared}
    Invites = {i1}
    Machines = {m1}
    Loops = {l1, l2}
    Reqs = {r1, r2}
    None = None
    Ops = {"deleteTeam", "add", "setRole", "remove", "leave", "invite", "revoke", "redeem", "machine", "enrol", "deleteMachine", "create"}
    MaxRequests = 3
    PersonalOf <- MCPersonalOf
SPECIFICATION Spec
SYMMETRY Interchangeable
INVARIANTS InviteGrantsOnce
PROPERTIES LastOwnerGuarded RetryReplays
\* Requests are bounded, and a fresh deployment may stay idle.
CHECK_DEADLOCK FALSE
