----------------------------- MODULE MCDashboard -----------------------------
(***************************************************************************)
(* Parts of the dashboard that share no state, checked side by side: the   *)
(* initial state picks one of them, and only that one moves.               *)
(***************************************************************************)
EXTENDS TLC

CONSTANTS
  Machines, Keys, NoId, Wires, SettlePolls,                          \* Onboarding
  Loops, Nobody, Calls,                                              \* LoopPage
  Chans, Tokens, Reqs, Typed, Nothing, MaxRedirects, MaxRequests,    \* Channels
  Live, MaxPages, MaxDepth,                                          \* RunPage
  Tabs, Teams, Personal, Idle, None, MaxShifts,                      \* TeamTabs
  Groups, Active, Unborn, Ops, Slots, MaxWrites                      \* TeamsDialog

VARIABLES
  part,
  screen, w, d, k, mach, keys, run, results, net, pasted, missed, discarded,
  page, detail, editing, form, del, armed, rows, call, meant, sent, abandoned, late,
  stored, born, loop, req, addForm, busy, shown, test, timers, asked, raced, saved,
  runRow, viewed, runDetail, older, done, search, err, changes, trace, runCall, crossed, failed, unread,
  member, cookie, dismissed, tab, fetch, channel, shifts,
  group, writes, open, list, selected, roster, acting, typed, asking, strayed

screens == <<screen, w, d, k, mach, keys, run, results, net, pasted, missed, discarded>>
loopPage == <<page, detail, editing, form, del, armed, rows, call, meant, sent, abandoned, late>>
channels == <<stored, born, loop, req, addForm, busy, shown, test, timers, asked, raced, saved>>
runPage == <<runRow, viewed, runDetail, older, done, search, err, changes, trace, runCall, crossed, failed, unread>>
tabs == <<member, cookie, dismissed, tab, fetch, channel, shifts>>
teams == <<group, writes, open, list, selected, roster, acting, typed, asking, strayed>>

Screens == INSTANCE Onboarding
Page == INSTANCE LoopPage
Notifications == INSTANCE Channels WITH form <- addForm
OneRun == INSTANCE RunPage WITH Calls <- Reqs, row <- runRow, page <- viewed, detail <- runDetail, call <- runCall
Browser == INSTANCE TeamTabs WITH page <- tab, ask <- fetch
Manage == INSTANCE TeamsDialog WITH
  Teams <- Groups, Requests <- Slots, MaxChanges <- MaxWrites,
  row <- group, changes <- writes, detail <- roster, busy <- acting, call <- asking

ASSUME OnboardingConstants == Screens!OnboardingConstantsOK
ASSUME TabsConstants == Browser!TabsConstantsOK
ASSUME DialogConstants == Manage!DialogConstantsOK

(* The part that does not move has one initial state. *)
DashboardInit ==
  /\ part \in {"screens", "page", "channels", "run", "tabs", "teams"}
  /\ Screens!Init /\ (part # "screens" => screen = "wizard")
  /\ Page!Init
  /\ Notifications!Init
  /\ OneRun!Init
  /\ Manage!Init
  /\ Browser!Init /\ (part # "tabs" => member = {Personal})

ScreensMove == part = "screens" /\ Screens!Next /\ UNCHANGED <<part, loopPage, channels, runPage, tabs, teams>>
PageMoves == part = "page" /\ Page!Next /\ UNCHANGED <<part, screens, channels, runPage, tabs, teams>>
ChannelsMove == part = "channels" /\ Notifications!Next /\ UNCHANGED <<part, screens, loopPage, runPage, tabs, teams>>
RunMoves == part = "run" /\ OneRun!Next /\ UNCHANGED <<part, screens, loopPage, channels, tabs, teams>>
TabsMove == part = "tabs" /\ Browser!Next /\ UNCHANGED <<part, screens, loopPage, channels, runPage, teams>>
TeamsMove == part = "teams" /\ Manage!Next /\ UNCHANGED <<part, screens, loopPage, channels, runPage, tabs>>

DashboardNext == ScreensMove \/ PageMoves \/ ChannelsMove \/ RunMoves \/ TabsMove \/ TeamsMove

DashboardSpec == DashboardInit /\ [][DashboardNext]_<<part, screens, loopPage, channels, runPage, tabs, teams>>

(* The requests of the channels dialog and of the run's page, and the tokens pasted into the one. *)
Interchangeable ==
  {[x \in Reqs \cup Tokens |-> IF x \in Reqs THEN f[x] ELSE g[x]] :
     f \in Permutations(Reqs), g \in Permutations(Tokens)}

(***************************************************************************)
(* The properties of the parts, by their own names.                        *)
(***************************************************************************)
(* Onboarding: a screen that waits for a loop learns of it. *)
CreatedIsNoticed == Screens!CreatedIsNoticed
(* LoopPage: deletes are committed as they were meant. *)
DeletesAreMeant == Page!DeletesAreMeant
(* Channels: a loop is routed to a channel that exists, but for races. *)
RouteLeadsSomewhere == Notifications!RouteLeadsSomewhere
(* RunPage: a page that looks no more shows diff and transcript, but for what it read too early. *)
SettledPageIsWhole == OneRun!SettledPageIsWhole
(* TeamTabs: a tab shows the team of its url, whatever the cookie says. *)
PinnedToItsTeam == Browser!PinnedToItsTeam
(* TeamsDialog: both sides of the dialog show what the user changed, but for stray answers. *)
SettledDialogIsCurrent == Manage!SettledDialogIsCurrent
=============================================================================
