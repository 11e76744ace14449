------------------------------- MODULE TeamTabs -------------------------------
(***************************************************************************)
(* The browser tabs of one user who belongs to several teams.  A tab's url *)
(* names its team and its requests carry it; a cookie that all tabs share  *)
(* remembers the team used last, and the server falls back to it where a   *)
(* request names no team, and to the personal team where the user is no    *)
(* member.                                                                 *)
(*                                                                         *)
(*   auth.ts             requestScope, canAccessLoop                       *)
(*   server/loopApi.ts   canViewTeam, getDefaultTeam, the lists, mintClaim *)
(*   server/notifyFns.ts the channels dialog's calls                       *)
(*   routes              /, /t/<team>, /onboarding, /invite, a loop's page *)
(*   components          DashboardView, TeamSwitcher, OnboardingEntry      *)
(*                                                                         *)
(* The gate is on and the user stays signed in.  Left out: a navigation to *)
(* the page one is on, a poll that overtakes the one before, what the      *)
(* channels dialog lists, and all channels but one.                        *)
(***************************************************************************)
EXTENDS Naturals

CONSTANTS
  Tabs,
  Teams,
  Personal,   \* the team of the user's own, never lost
  Idle,       \* the teams with no loop and no machine
  None,
  MaxShifts   \* bound: memberships won and lost

TabsConstantsOK == Personal \in Teams /\ None \notin Teams

VARIABLES
  member,    \* the teams the user belongs to
  cookie,    \* loopany.team, or None
  dismissed, \* the teams the guided setup was offered for, in the browser's storage
  page,      \* page[b]: where a tab is, and what it shows; as history, whether its team was lost
             \* under it, and whether it minted a key for another team without that
  ask,       \* ask[b]: fetchLiveData on its way, with what has been read for it
  channel,   \* the channel there is: its team, and as history the page it was added on
  shifts

vars == <<member, cookie, dismissed, page, ask, channel, shifts>>

Blank ==
  [at |-> "closed", team |-> None, jobs |-> None, machines |-> None, active |-> None, offered |-> {},
   dialog |-> "none", lost |-> FALSE, strayed |-> FALSE]
NoAsk == [on |-> FALSE, jobs |-> None, machines |-> None, active |-> None, offered |-> {}]
Asked == [NoAsk EXCEPT !.on = TRUE]
MaybeTeam == Teams \cup {None}

TypeOK ==
  /\ Personal \in member /\ member \subseteq Teams /\ cookie \in MaybeTeam /\ dismissed \subseteq Teams
  /\ \A b \in Tabs :
       /\ page[b].at \in {"closed", "root", "gate", "loading", "shown", "refused", "failed",
                          "loop", "setup", "wizard", "invite"}
       /\ {page[b].team, page[b].jobs, page[b].machines, page[b].active} \subseteq MaybeTeam
       /\ page[b].dialog \in {"none", "compose", "notify", "teams"}
       /\ page[b].offered \subseteq Teams /\ {page[b].lost, page[b].strayed, ask[b].on} \subseteq BOOLEAN
       /\ {ask[b].jobs, ask[b].machines, ask[b].active} \subseteq MaybeTeam /\ ask[b].offered \subseteq Teams
  /\ channel \subseteq [of : Teams, on : Teams, lost : BOOLEAN]
  /\ shifts \in 0..MaxShifts

Init ==
  /\ member \in {{Personal}, Teams} /\ cookie = None /\ dismissed = {}
  /\ page = [b \in Tabs |-> Blank] /\ ask = [b \in Tabs |-> NoAsk]
  /\ channel = {} /\ shifts = 0

(***************************************************************************)
(* Scopes.                                                                 *)
(***************************************************************************)
(* requestScope with a team asked for, or with the cookie's. *)
Scope(t) == IF t \in member THEN t ELSE Personal
DefaultTeam == Scope(cookie)

(* Mutant: the lists follow the cookie, as they did before tabs had teams. *)
CookieScope(b) == DefaultTeam

(* The scope of the requests that carry the tab's team. *)
TabScope(b) == Scope(page[b].team)

CanView(t) == Scope(t) = t
CanAccessLoop(t) == t = DefaultTeam \/ t \in member

(***************************************************************************)
(* Navigation.  A page of another team is mounted anew, and answers for    *)
(* the one before are dropped.                                             *)
(***************************************************************************)
Go(b, at, t) ==
  /\ page' = [page EXCEPT ![b] = [Blank EXCEPT !.at = at, !.team = t]]
  /\ ask' = [ask EXCEPT ![b] = NoAsk]

Show(b, p) == page' = [page EXCEPT ![b] = p] /\ UNCHANGED ask

Stay == UNCHANGED <<member, cookie, dismissed, channel, shifts>>

(* A new tab, at /, at a team's bookmark, or at an invite. *)
OpenTab(b) ==
  /\ page[b].at = "closed"
  /\ \/ Go(b, "root", None) \/ Go(b, "invite", None)
     \/ \E t \in Teams : Go(b, "gate", t)
  /\ Stay

CloseTab(b) == page[b].at # "closed" /\ Go(b, "closed", None) /\ Stay

(* /: the loader redirects to the default team. *)
Redirect(b) == page[b].at = "root" /\ Go(b, "gate", DefaultTeam) /\ Stay

(* /t/<team>: canViewTeam, then the lists. *)
Gate(b) ==
  /\ page[b].at = "gate"
  /\ IF CanView(page[b].team)
     THEN page' = [page EXCEPT ![b].at = "loading"] /\ ask' = [ask EXCEPT ![b] = Asked]
     ELSE Go(b, "refused", page[b].team)
  /\ Stay

(* LoadErrorCard: router.invalidate *)
Retry(b) == page[b].at \in {"refused", "failed"} /\ Go(b, "gate", page[b].team) /\ Stay

(***************************************************************************)
(* fetchLiveData: three requests, each of which asks for its scope itself; *)
(* the list of teams is read after the scope that is answered with it.     *)
(***************************************************************************)
Read(b) ==
  /\ ask[b].on
  /\ \/ ask[b].jobs = None /\ ask' = [ask EXCEPT ![b].jobs = TabScope(b)]
     \/ ask[b].machines = None /\ ask' = [ask EXCEPT ![b].machines = TabScope(b)]
     \/ ask[b].active = None /\ ask' = [ask EXCEPT ![b].active = TabScope(b)]
     \/ ask[b].active # None /\ ask[b].offered = {} /\ ask' = [ask EXCEPT ![b].offered = member]
  /\ UNCHANGED page /\ Stay

(* The loader's data, and the poll's, are taken together. *)
Loaded(b) ==
  /\ ask[b].jobs # None /\ ask[b].machines # None /\ ask[b].offered # {}
  /\ page' = [page EXCEPT ![b].at = "shown", ![b].jobs = ask[b].jobs, ![b].machines = ask[b].machines,
                          ![b].active = ask[b].active, ![b].offered = ask[b].offered]
  /\ ask' = [ask EXCEPT ![b] = NoAsk]
  /\ Stay

(* A failed load is an error screen, a failed poll leaves what is there. *)
LoadFails(b) ==
  /\ ask[b].on
  /\ ask' = [ask EXCEPT ![b] = NoAsk]
  /\ page' = [page EXCEPT ![b].at = IF @ = "loading" THEN "failed" ELSE @]
  /\ Stay

(* The interval holds its breath while a dialog is open; a loop created in one asks at once. *)
Poll(b) ==
  /\ page[b].at = "shown" /\ page[b].dialog \in {"none", "compose"} /\ ~ask[b].on
  /\ ask' = [ask EXCEPT ![b] = Asked]
  /\ UNCHANGED page /\ Stay

(***************************************************************************)
(* What the user does on a dashboard.                                      *)
(***************************************************************************)
OnDashboard(b, dialog) == page[b].at = "shown" /\ page[b].dialog = dialog

OpenDialog(b) ==
  /\ OnDashboard(b, "none")
  /\ \E d \in {"compose", "notify", "teams"} :
       /\ d = "teams" => page[b].offered # {}
       /\ Show(b, [page[b] EXCEPT !.dialog = d])
  /\ Stay

CloseDialog(b) ==
  /\ page[b].at = "shown" /\ page[b].dialog # "none"
  /\ Show(b, [page[b] EXCEPT !.dialog = "none"])
  /\ Stay

(* mintClaim and createMachine bind a key to a team; MachinesModal's dialog is as ComposeModal's. *)
MintKey(b) ==
  /\ OnDashboard(b, "compose") \/ page[b].at = "wizard"
  /\ Show(b, [page[b] EXCEPT !.strayed = @ \/ (TabScope(b) # page[b].team /\ ~page[b].lost)])
  /\ Stay

(* setActiveTeamCookie, and a navigation to that team's page. *)
Follow(b, t) == cookie' = t /\ Go(b, "gate", t) /\ UNCHANGED <<member, dismissed, channel, shifts>>

(* TeamSwitcher: the select changes to another of the teams offered. *)
SwitchTeam(b) == OnDashboard(b, "none") /\ \E t \in page[b].offered \ {page[b].team, page[b].active} : Follow(b, t)

(* TeamsModal: "Open dashboard" of a team's detail *)
OpenDashboard(b) == OnDashboard(b, "teams") /\ \E t \in (member \cup page[b].offered) \ {page[b].team} : Follow(b, t)

(* A loop's page is open to the members of its team; its banner leads to that team. *)
VisitLoop(b) ==
  /\ OnDashboard(b, "none")
  /\ \E t \in Teams \ Idle : Go(b, IF CanAccessLoop(t) THEN "loop" ELSE "refused", t)
  /\ Stay

FollowLoop(b) == page[b].at = "loop" /\ page[b].team # DefaultTeam /\ Follow(b, page[b].team)

(* OnboardingEntry: once for a team with nothing in it, or at the banner's button. *)
StartSetup(b) == LET t == page[b].team IN
  /\ OnDashboard(b, "none") /\ page[b].jobs \in Idle
  /\ page[b].machines \in Idle /\ t \notin dismissed => dismissed' = dismissed \cup {t}
  /\ ~(page[b].machines \in Idle /\ t \notin dismissed) => UNCHANGED dismissed
  /\ Go(b, "setup", t)
  /\ UNCHANGED <<member, cookie, channel, shifts>>

(* /onboarding: the team it came from, else the default one. *)
Setup(b) ==
  /\ page[b].at = "setup"
  /\ Go(b, "wizard", IF CanView(page[b].team) THEN page[b].team ELSE DefaultTeam)
  /\ Stay

LeaveSetup(b) == page[b].at = "wizard" /\ Go(b, "gate", page[b].team) /\ Stay

(***************************************************************************)
(* The channels dialog, whose calls name no team.                          *)
(***************************************************************************)
ChannelScope(b) == DefaultTeam

AddChannel(b) ==
  /\ OnDashboard(b, "notify") /\ channel = {}
  /\ channel' = {[of |-> ChannelScope(b), on |-> page[b].team, lost |-> page[b].lost]}
  /\ UNCHANGED <<member, cookie, dismissed, page, ask, shifts>>

(* ownedChannel: a channel of another team than the scope's is not found. *)
RemoveChannel(b) ==
  /\ OnDashboard(b, "notify")
  /\ \E c \in channel : c.of = ChannelScope(b) /\ channel' = channel \ {c}
  /\ UNCHANGED <<member, cookie, dismissed, page, ask, shifts>>

(* A tab that is not among Tabs switches its team. *)
SwitchElsewhere == \E t \in member \ {cookie} : cookie' = t /\ UNCHANGED <<member, dismissed, page, ask, channel, shifts>>

(***************************************************************************)
(* Memberships.                                                            *)
(***************************************************************************)
Lost(pages, t) == [b \in Tabs |-> IF pages[b].team = t THEN [pages[b] EXCEPT !.lost = TRUE] ELSE pages[b]]

(* TeamsModal: who leaves or deletes the team of the tab is taken home. *)
LeaveTeam(b) ==
  /\ OnDashboard(b, "teams") /\ shifts < MaxShifts /\ shifts' = shifts + 1
  /\ \E t \in member \ {Personal} :
       /\ member' = member \ {t}
       /\ IF t = page[b].team
          THEN page' = [Lost(page, t) EXCEPT ![b] = [Blank EXCEPT !.at = "root"]] /\ ask' = [ask EXCEPT ![b] = NoAsk]
          ELSE page' = Lost(page, t) /\ UNCHANGED ask
  /\ UNCHANGED <<cookie, dismissed, channel>>

(* By others, on the way. *)
Removed ==
  /\ shifts < MaxShifts /\ shifts' = shifts + 1
  /\ \E t \in member \ {Personal} : member' = member \ {t} /\ page' = Lost(page, t)
  /\ UNCHANGED <<cookie, dismissed, ask, channel>>

Joined ==
  /\ shifts < MaxShifts /\ shifts' = shifts + 1
  /\ \E t \in Teams \ member : member' = member \cup {t}
  /\ UNCHANGED <<cookie, dismissed, page, ask, channel>>

(* The invite page redeems once; then it is the team's page, or an error with a way home. *)
Redeem(b) ==
  /\ page[b].at = "invite" /\ shifts < MaxShifts /\ shifts' = shifts + 1
  /\ \E t \in Teams \ {Personal} :
       /\ member' = member \cup {t} /\ cookie' = t /\ Go(b, "gate", t)
  /\ UNCHANGED <<dismissed, channel>>

RedeemFails(b) == page[b].at = "invite" /\ Go(b, "root", None) /\ Stay

Next ==
  \/ \E b \in Tabs :
       \/ OpenTab(b) \/ CloseTab(b) \/ Redirect(b) \/ Gate(b) \/ Retry(b)
       \/ Read(b) \/ Loaded(b) \/ LoadFails(b) \/ Poll(b)
       \/ OpenDialog(b) \/ CloseDialog(b) \/ MintKey(b) \/ SwitchTeam(b) \/ OpenDashboard(b)
       \/ VisitLoop(b) \/ FollowLoop(b) \/ StartSetup(b) \/ Setup(b) \/ LeaveSetup(b)
       \/ AddChannel(b) \/ RemoveChannel(b)
       \/ LeaveTeam(b) \/ Redeem(b) \/ RedeemFails(b)
  \/ SwitchElsewhere \/ Removed \/ Joined

Spec == Init /\ [][Next]_vars

------------------------------------------------------------------------------
(* Properties                                                              *)

(* SAFETY: whatever other tabs and the cookie do, what a tab shows and the keys it  *)
(* mints are of the team in its url (DashboardView.tsx:38); only a user who lost it *)
(* while the page was open gets their own team's in its place.                      *)
PinnedToItsTeam ==
  \A b \in Tabs :
    /\ {page[b].jobs, page[b].machines, page[b].active}
         \subseteq {page[b].team, None} \cup (IF page[b].lost THEN {Personal} ELSE {})
    /\ ~page[b].strayed

(* CLAIM (NotificationsModal.tsx:56): the channels of a tab's dialog are "for this team", *)
(* the team of the tab.                                                                   *)
ChannelsOfThisTeam == \A c \in channel : c.of = c.on \/ c.lost
===============================================================================
