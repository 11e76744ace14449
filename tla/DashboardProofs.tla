--------------------------- MODULE DashboardProofs ---------------------------
(***************************************************************************)
(* The screens, each against the server it asks, for any number of         *)
(* requests in flight, loops, teams, channels and tabs: what a tab shows,  *)
(* what a page or dialog has settled on, what was deleted, where a message *)
(* goes and what a waiting screen will learn.  A reply may come late, out  *)
(* of order or never, and others change the same rows meanwhile; the       *)
(* invariants say what each reply in flight may still bring.               *)
(***************************************************************************)
EXTENDS MCDashboard, Sequences, WellFoundedInduction, TLAPS

(***************************************************************************)
(* TeamTabs.                                                               *)
(***************************************************************************)
TeamOrNone == Teams \cup {None}
Places == {"closed", "root", "gate", "loading", "shown", "refused", "failed", "loop", "setup", "wizard", "invite"}
Dialogs == {"none", "compose", "notify", "teams"}
TabRecord == [at : Places, team : TeamOrNone, jobs : TeamOrNone, machines : TeamOrNone,
              active : TeamOrNone, offered : SUBSET Teams, dialog : Dialogs, lost : BOOLEAN, strayed : BOOLEAN]
FetchRecord == [on : BOOLEAN, jobs : TeamOrNone, machines : TeamOrNone, active : TeamOrNone,
                offered : SUBSET Teams]
TabsTyped ==
  /\ Personal \in member /\ member \subseteq Teams /\ cookie \in TeamOrNone
  /\ tab \in [Tabs -> TabRecord] /\ fetch \in [Tabs -> FetchRecord]

(* What a tab may show or have fetched; and that, while it asks, the team it asks for is the user's or was lost. *)
Allowed(p) == {p.team, None} \cup (IF p.lost THEN {Personal} ELSE {})
Pinned(p, f, mine) ==
  /\ {p.jobs, p.machines, p.active, f.jobs, f.machines, f.active} \subseteq Allowed(p)
  /\ ~p.strayed /\ (f.on \/ f.jobs = None)
  /\ p.at \in {"loading", "shown", "wizard"} \/ f.on => p.team \in mine \/ p.lost

TabsInv == TabsTyped /\ \A b \in Tabs : Pinned(tab[b], fetch[b], member)

Fresh(at, t) == [Browser!Blank EXCEPT !.at = at, !.team = t]

LEMMA BlankTyped ==
  /\ Browser!Blank \in TabRecord
  /\ Browser!Blank.jobs = None /\ Browser!Blank.machines = None /\ Browser!Blank.active = None
  /\ Browser!Blank.lost = FALSE /\ Browser!Blank.strayed = FALSE /\ Browser!Blank.at = "closed"
<1>1. None \in TeamOrNone /\ {} \in SUBSET Teams  BY DEF TeamOrNone
<1>2. Browser!Blank \in TabRecord  BY <1>1 DEF Browser!Blank, TabRecord, Places, Dialogs
<1> QED  BY <1>2 DEF Browser!Blank

LEMMA FreshTyped ==
  ASSUME NEW at \in Places, NEW t \in TeamOrNone
  PROVE  Fresh(at, t) \in TabRecord /\ Fresh(at, t).at = at /\ Fresh(at, t).team = t
         /\ Fresh(at, t).jobs = None /\ Fresh(at, t).machines = None /\ Fresh(at, t).active = None
         /\ Fresh(at, t).lost = FALSE /\ Fresh(at, t).strayed = FALSE
BY BlankTyped DEF TabRecord, Fresh

LEMMA NoAskTyped ==
  /\ Browser!NoAsk \in FetchRecord /\ Browser!NoAsk.on = FALSE
  /\ Browser!NoAsk.jobs = None /\ Browser!NoAsk.machines = None /\ Browser!NoAsk.active = None
  /\ Browser!Asked \in FetchRecord /\ Browser!Asked.on = TRUE
  /\ Browser!Asked.jobs = None /\ Browser!Asked.machines = None /\ Browser!Asked.active = None
BY DEF FetchRecord, TeamOrNone, Browser!NoAsk, Browser!Asked

LEMMA TabsStart == Browser!Init => TabsInv
<1> SUFFICES ASSUME Browser!Init PROVE TabsInv  OBVIOUS
<1>1. \A b \in Tabs : tab[b] = Browser!Blank /\ fetch[b] = Browser!NoAsk  BY DEF Browser!Init
<1>3. TabsTyped
  BY <1>1, BlankTyped, NoAskTyped, TabsConstants DEF TabsTyped, Browser!Init, Browser!TabsConstantsOK, TeamOrNone
<1>4. Pinned(Browser!Blank, Browser!NoAsk, member)
  BY NoAskTyped, BlankTyped DEF Pinned, Allowed
<1> QED  BY <1>1, <1>3, <1>4 DEF TabsInv

(* One tab moves, and no team is lost. *)
LEMMA OneTab ==
  ASSUME TabsInv, NEW b \in Tabs, NEW p \in TabRecord, NEW f \in FetchRecord,
         tab' = [tab EXCEPT ![b] = p], fetch' = [fetch EXCEPT ![b] = f],
         member \subseteq member', member' \subseteq Teams, cookie' \in TeamOrNone, Pinned(p, f, member')
  PROVE  TabsInv'
<1>1. TabsTyped'  BY DEF TabsInv, TabsTyped
<1>2. \A c \in Tabs \ {b} : tab'[c] = tab[c] /\ fetch'[c] = fetch[c]  BY DEF TabsInv, TabsTyped
<1>3. tab'[b] = p /\ fetch'[b] = f  BY DEF TabsInv, TabsTyped
<1>4. \A c \in Tabs \ {b} : Pinned(tab[c], fetch[c], member')  BY DEF TabsInv, Pinned
<1> QED  BY <1>1, <1>2, <1>3, <1>4 DEF TabsInv

(* A navigation; the wizard alone opens on a team without asking. *)
LEMMA GoKeeps ==
  ASSUME TabsInv, NEW b \in Tabs, NEW at \in Places \ {"loading", "shown"}, NEW t \in TeamOrNone, Browser!Go(b, at, t),
         at = "wizard" => t \in member',
         member \subseteq member', member' \subseteq Teams, cookie' \in TeamOrNone
  PROVE  TabsInv'
<1>1. tab' = [tab EXCEPT ![b] = Fresh(at, t)] /\ fetch' = [fetch EXCEPT ![b] = Browser!NoAsk]
  BY DEF Browser!Go, Fresh
<1>2. Pinned(Fresh(at, t), Browser!NoAsk, member')  BY FreshTyped, NoAskTyped DEF Pinned, Allowed
<1> QED  BY <1>1, <1>2, FreshTyped, NoAskTyped, OneTab

LEMMA ScopeOwn ==
  ASSUME TabsInv
  PROVE  /\ \A t : Browser!Scope(t) \in member /\ (t \in member => Browser!Scope(t) = t)
         /\ \A t : Browser!Scope(t) = t \/ Browser!Scope(t) = Personal
         /\ Browser!DefaultTeam \in member /\ Browser!DefaultTeam \in TeamOrNone
BY DEF TabsInv, TabsTyped, Browser!Scope, Browser!DefaultTeam, TeamOrNone

LEMMA TabsGo ==
  ASSUME TabsInv, NEW b \in Tabs,
         \/ Browser!OpenTab(b) \/ Browser!CloseTab(b) \/ Browser!Redirect(b) \/ Browser!Retry(b)
         \/ Browser!SwitchTeam(b) \/ Browser!OpenDashboard(b) \/ Browser!VisitLoop(b) \/ Browser!FollowLoop(b)
         \/ Browser!StartSetup(b) \/ Browser!Setup(b) \/ Browser!LeaveSetup(b) \/ Browser!Redeem(b) \/ Browser!RedeemFails(b)
  PROVE  TabsInv'
<1>0. TabsTyped /\ tab[b] \in TabRecord  BY DEF TabsInv, TabsTyped
<1>a. None \in TeamOrNone /\ Teams \subseteq TeamOrNone /\ tab[b].team \in TeamOrNone /\ tab[b].offered \subseteq Teams
  BY <1>0 DEF TeamOrNone, TabRecord
<1>b. ASSUME Browser!Stay PROVE member' = member /\ member' \subseteq Teams /\ cookie' \in TeamOrNone
  BY <1>0, <1>b DEF TabsTyped, Browser!Stay
<1>c. ASSUME NEW t \in Teams, Browser!Follow(b, t) PROVE TabsInv'
  <2>1. Browser!Go(b, "gate", t) /\ member' = member /\ cookie' \in TeamOrNone /\ member' \subseteq Teams
    BY <1>0, <1>a, <1>c DEF Browser!Follow, TabsTyped
  <2> QED  BY <1>a, <2>1, GoKeeps DEF Places
<1>1. CASE Browser!OpenTab(b)
  <2>1. Browser!Stay  BY <1>1 DEF Browser!OpenTab
  <2>2. PICK at \in Places \ {"loading", "shown", "wizard"}, t \in TeamOrNone : Browser!Go(b, at, t)
    BY <1>1, <1>a DEF Browser!OpenTab, Places
  <2> QED  BY <1>b, <2>1, <2>2, GoKeeps
<1>2. CASE Browser!CloseTab(b)
  BY <1>2, <1>a, <1>b, GoKeeps DEF Browser!CloseTab, Places
<1>3. CASE Browser!Redirect(b)
  BY <1>3, <1>a, <1>b, GoKeeps, ScopeOwn DEF Browser!Redirect, Places
<1>4. CASE Browser!Retry(b)
  BY <1>4, <1>a, <1>b, GoKeeps DEF Browser!Retry, Places
<1>5. CASE Browser!SwitchTeam(b)
  BY <1>5, <1>a, <1>c DEF Browser!SwitchTeam
<1>6. CASE Browser!OpenDashboard(b)
  BY <1>0, <1>6, <1>a, <1>c DEF Browser!OpenDashboard, TabsTyped
<1>7. CASE Browser!VisitLoop(b)
  <2>1. Browser!Stay  BY <1>7 DEF Browser!VisitLoop
  <2>2. PICK at \in Places \ {"loading", "shown", "wizard"}, t \in TeamOrNone : Browser!Go(b, at, t)
    BY <1>7, <1>a DEF Browser!VisitLoop, Places
  <2> QED  BY <1>b, <2>1, <2>2, GoKeeps
<1>8. CASE Browser!FollowLoop(b)
  <2>1. CASE tab[b].team \in Teams  BY <1>8, <1>c, <2>1 DEF Browser!FollowLoop
  <2>2. CASE tab[b].team \notin Teams
    <3>1. Browser!Go(b, "gate", None) /\ member' = member /\ cookie' \in TeamOrNone /\ member' \subseteq Teams
      BY <1>0, <1>8, <1>a, <2>2 DEF Browser!FollowLoop, Browser!Follow, TabsTyped, TeamOrNone
    <3> QED  BY <1>a, <3>1, GoKeeps DEF Places
  <2> QED  BY <2>1, <2>2
<1>9. CASE Browser!StartSetup(b)
  <2>1. Browser!Go(b, "setup", tab[b].team) /\ member' = member /\ cookie' = cookie  BY <1>9 DEF Browser!StartSetup
  <2> QED  BY <1>0, <1>a, <2>1, GoKeeps DEF Places, TabsTyped
<1>10. CASE Browser!Setup(b)
  <2>1. Browser!Stay  BY <1>10 DEF Browser!Setup
  <2>2. PICK t \in member : Browser!Go(b, "wizard", t)
    BY <1>10, ScopeOwn DEF Browser!Setup, Browser!CanView
  <2>3. t \in TeamOrNone /\ t \in member'  BY <1>0, <1>a, <1>b, <2>1 DEF TabsTyped
  <2> QED  BY <1>b, <2>1, <2>2, <2>3, GoKeeps DEF Places
<1>11. CASE Browser!LeaveSetup(b)
  BY <1>11, <1>a, <1>b, GoKeeps DEF Browser!LeaveSetup, Places
<1>12. CASE Browser!Redeem(b)
  <2>1. PICK t \in Teams : member' = member \cup {t} /\ cookie' = t /\ Browser!Go(b, "gate", t)
    BY <1>12 DEF Browser!Redeem
  <2> QED  BY <1>0, <1>a, <2>1, GoKeeps DEF Places, TabsTyped
<1>13. CASE Browser!RedeemFails(b)
  BY <1>13, <1>a, <1>b, GoKeeps DEF Browser!RedeemFails, Places
<1> QED  BY <1>1, <1>2, <1>3, <1>4, <1>5, <1>6, <1>7, <1>8, <1>9, <1>10, <1>11, <1>12, <1>13
LEMMA GateKeeps == ASSUME TabsInv, NEW b \in Tabs, Browser!Gate(b) PROVE TabsInv'
<1>0. TabsTyped /\ tab[b] \in TabRecord /\ fetch[b] \in FetchRecord /\ Pinned(tab[b], fetch[b], member)
  BY DEF TabsInv, TabsTyped
<1>1. member' = member /\ member' \subseteq Teams /\ cookie' \in TeamOrNone
  BY <1>0 DEF TabsTyped, Browser!Gate, Browser!Stay
<1>2. CASE Browser!CanView(tab[b].team)
  <2> DEFINE p == [tab[b] EXCEPT !.at = "loading"]
  <2>1. tab' = [tab EXCEPT ![b] = p] /\ fetch' = [fetch EXCEPT ![b] = Browser!Asked]  BY <1>2 DEF Browser!Gate
  <2>2. p \in TabRecord /\ Allowed(p) = Allowed(tab[b]) /\ p.jobs = tab[b].jobs /\ p.machines = tab[b].machines
        /\ p.active = tab[b].active /\ p.strayed = tab[b].strayed /\ p.team = tab[b].team
    BY <1>0 DEF TabRecord, Allowed, Places
  <2> HIDE DEF p
  <2>3. p.team \in member  BY <1>2, <2>2, ScopeOwn DEF Browser!CanView
  <2>4. Pinned(p, Browser!Asked, member')
    <3>1. None \in Allowed(p)  BY DEF Allowed
    <3> QED  BY <1>0, <1>1, <2>2, <2>3, <3>1, NoAskTyped DEF Pinned
  <2> QED  BY <1>1, <2>1, <2>2, <2>4, NoAskTyped, OneTab
<1>3. CASE ~Browser!CanView(tab[b].team)
  <2>1. Browser!Go(b, "refused", tab[b].team) /\ tab[b].team \in TeamOrNone
    BY <1>0, <1>3 DEF Browser!Gate, TabRecord
  <2> QED  BY <1>1, <2>1, GoKeeps DEF Places
<1> QED  BY <1>2, <1>3

LEMMA FetchKeeps ==
  ASSUME TabsInv, NEW b \in Tabs, Browser!Read(b) \/ Browser!Loaded(b) \/ Browser!LoadFails(b) \/ Browser!Poll(b)
  PROVE  TabsInv'
<1>0. /\ TabsTyped /\ tab[b] \in TabRecord /\ fetch[b] \in FetchRecord /\ Pinned(tab[b], fetch[b], member)
      /\ tab \in [Tabs -> TabRecord] /\ fetch \in [Tabs -> FetchRecord]
  BY DEF TabsInv, TabsTyped
<1>1. Browser!Stay /\ member' = member /\ member' \subseteq Teams /\ cookie' \in TeamOrNone
  BY <1>0 DEF TabsTyped, Browser!Stay, Browser!Read, Browser!Loaded, Browser!LoadFails, Browser!Poll
<1>2. CASE Browser!Read(b)
  <2> DEFINE s == Browser!TabScope(b)
  <2>1. s \in TeamOrNone /\ s \in Allowed(tab[b])
    <3>1. tab[b].team \in member \/ tab[b].lost  BY <1>0, <1>2 DEF Browser!Read, Pinned
    <3>2. s \in member /\ (tab[b].team \in member => s = tab[b].team) /\ s \in {tab[b].team, Personal}
      BY ScopeOwn DEF Browser!TabScope
    <3> QED  BY <1>0, <3>1, <3>2 DEF Allowed, TabsTyped, TeamOrNone
  <2>2. PICK f : /\ fetch' = [fetch EXCEPT ![b] = f]
                 /\ f \in {[fetch[b] EXCEPT !.jobs = s], [fetch[b] EXCEPT !.machines = s],
                           [fetch[b] EXCEPT !.active = s], [fetch[b] EXCEPT !.offered = member]}
    <3>1. \/ fetch' = [fetch EXCEPT ![b] = [fetch[b] EXCEPT !.jobs = s]]
          \/ fetch' = [fetch EXCEPT ![b] = [fetch[b] EXCEPT !.machines = s]]
          \/ fetch' = [fetch EXCEPT ![b] = [fetch[b] EXCEPT !.active = s]]
          \/ fetch' = [fetch EXCEPT ![b] = [fetch[b] EXCEPT !.offered = member]]
      BY <1>2 DEF Browser!Read
    <3> QED  BY <3>1
  <2> HIDE DEF s
  <2>3. f \in FetchRecord /\ f.on = TRUE
        /\ f.jobs \in {fetch[b].jobs, s} /\ f.machines \in {fetch[b].machines, s} /\ f.active \in {fetch[b].active, s}
    <3>1. member \in SUBSET Teams /\ fetch[b].on = TRUE  BY <1>0, <1>2 DEF TabsTyped, Browser!Read, FetchRecord
    <3> QED  BY <1>0, <2>1, <2>2, <3>1 DEF FetchRecord
  <2>4. tab' = [tab EXCEPT ![b] = tab[b]]  BY <1>0, <1>2 DEF Browser!Read
  <2>5. tab[b].team \in member \/ tab[b].lost  BY <1>0, <1>2 DEF Browser!Read, Pinned
  <2>6. Pinned(tab[b], f, member')  BY <1>0, <1>1, <2>1, <2>3, <2>5 DEF Pinned
  <2> QED  BY <1>0, <1>1, <2>2, <2>3, <2>4, <2>6, OneTab
<1>3. CASE Browser!Loaded(b)
  <2> DEFINE f == fetch[b]
             p == [tab[b] EXCEPT !.at = "shown", !.jobs = f.jobs, !.machines = f.machines,
                                 !.active = f.active, !.offered = f.offered]
  <2>1. tab' = [tab EXCEPT ![b] = p] /\ fetch' = [fetch EXCEPT ![b] = Browser!NoAsk] /\ f.jobs # None
    BY <1>3 DEF Browser!Loaded
  <2>2. f.jobs \in TeamOrNone /\ f.machines \in TeamOrNone /\ f.active \in TeamOrNone /\ f.offered \in SUBSET Teams
    BY <1>0 DEF FetchRecord
  <2>3. f.on  BY <1>0, <2>1 DEF Pinned
  <2>4. {f.jobs, f.machines, f.active} \subseteq Allowed(tab[b]) /\ (tab[b].team \in member \/ tab[b].lost)
    BY <1>0, <2>3 DEF Pinned
  <2> HIDE DEF f
  <2>5. p \in TabRecord /\ p.team = tab[b].team /\ p.lost = tab[b].lost /\ p.jobs = f.jobs /\ p.machines = f.machines
        /\ p.active = f.active /\ p.strayed = tab[b].strayed
    BY <1>0, <2>2 DEF TabRecord, Places
  <2> HIDE DEF p
  <2>6. Allowed(p) = Allowed(tab[b]) /\ None \in Allowed(p)  BY <2>5 DEF Allowed
  <2>7. Pinned(p, Browser!NoAsk, member')  BY <1>0, <1>1, <2>4, <2>5, <2>6, NoAskTyped DEF Pinned
  <2> QED  BY <1>1, <2>1, <2>5, <2>7, NoAskTyped, OneTab
<1>4. CASE Browser!LoadFails(b)
  <2> DEFINE where == IF tab[b].at = "loading" THEN "failed" ELSE tab[b].at
             p == [tab[b] EXCEPT !.at = where]
  <2>1. tab' = [tab EXCEPT ![b] = p] /\ fetch' = [fetch EXCEPT ![b] = Browser!NoAsk]
    BY <1>4 DEF Browser!LoadFails
  <2>2. where \in Places /\ where \in {tab[b].at, "failed"}  BY <1>0 DEF TabRecord, Places
  <2> HIDE DEF where
  <2>5. p \in TabRecord /\ p.team = tab[b].team /\ p.lost = tab[b].lost /\ p.jobs = tab[b].jobs /\ p.machines = tab[b].machines
        /\ p.active = tab[b].active /\ p.strayed = tab[b].strayed /\ p.at = where
    BY <1>0, <2>2 DEF TabRecord
  <2> HIDE DEF p
  <2>6. Allowed(p) = Allowed(tab[b]) /\ None \in Allowed(p)  BY <2>5 DEF Allowed
  <2>7. Pinned(p, Browser!NoAsk, member')  BY <1>0, <1>1, <2>2, <2>5, <2>6, NoAskTyped DEF Pinned
  <2> QED  BY <1>1, <2>1, <2>5, <2>7, NoAskTyped, OneTab
<1>5. CASE Browser!Poll(b)
  <2>1. tab' = [tab EXCEPT ![b] = tab[b]] /\ fetch' = [fetch EXCEPT ![b] = Browser!Asked] /\ tab[b].at = "shown"
    BY <1>0, <1>5 DEF Browser!Poll
  <2>2. Pinned(tab[b], Browser!Asked, member')
    <3>1. None \in Allowed(tab[b])  BY DEF Allowed
    <3> QED  BY <1>0, <1>1, <2>1, <3>1, NoAskTyped DEF Pinned
  <2> QED  BY <1>0, <1>1, <2>1, <2>2, NoAskTyped, OneTab
<1> QED  BY <1>2, <1>3, <1>4, <1>5

LEMMA ShowKeeps ==
  ASSUME TabsInv, NEW b \in Tabs,
         \/ Browser!OpenDialog(b) \/ Browser!CloseDialog(b) \/ Browser!MintKey(b)
         \/ Browser!AddChannel(b) \/ Browser!RemoveChannel(b)
  PROVE  TabsInv'
<1>0. /\ TabsTyped /\ tab[b] \in TabRecord /\ fetch[b] \in FetchRecord /\ Pinned(tab[b], fetch[b], member)
      /\ tab \in [Tabs -> TabRecord] /\ fetch \in [Tabs -> FetchRecord]
  BY DEF TabsInv, TabsTyped
<1>1. ASSUME NEW p \in TabRecord, Browser!Show(b, p), Browser!Stay, p.at = tab[b].at, p.team = tab[b].team,
             p.lost = tab[b].lost, p.jobs = tab[b].jobs, p.machines = tab[b].machines, p.active = tab[b].active, ~p.strayed
      PROVE  TabsInv'
  <2>1. tab' = [tab EXCEPT ![b] = p] /\ fetch' = [fetch EXCEPT ![b] = fetch[b]] /\ member' = member /\ cookie' = cookie
    BY <1>0, <1>1 DEF Browser!Show, Browser!Stay
  <2>2. Pinned(p, fetch[b], member')  BY <1>0, <1>1, <2>1 DEF Pinned, Allowed
  <2> QED  BY <1>0, <1>1, <2>1, <2>2, OneTab DEF TabsTyped
<1>2. ASSUME NEW kind \in Dialogs, Browser!Show(b, [tab[b] EXCEPT !.dialog = kind]), Browser!Stay PROVE TabsInv'
  <2> DEFINE p == [tab[b] EXCEPT !.dialog = kind]
  <2>1. /\ p \in TabRecord /\ p.at = tab[b].at /\ p.team = tab[b].team
        /\ p.lost = tab[b].lost /\ p.jobs = tab[b].jobs /\ p.machines = tab[b].machines /\ p.active = tab[b].active
        /\ p.strayed = tab[b].strayed
    BY <1>0 DEF TabRecord
  <2>2. Browser!Show(b, p) /\ ~p.strayed  BY <1>0, <1>2, <2>1 DEF Pinned
  <2> HIDE DEF p
  <2> QED  BY <1>1, <1>2, <2>1, <2>2
<1>3. CASE Browser!OpenDialog(b)  BY <1>2, <1>3 DEF Browser!OpenDialog, Dialogs
<1>4. CASE Browser!CloseDialog(b)  BY <1>2, <1>4 DEF Browser!CloseDialog, Dialogs
<1>5. CASE Browser!MintKey(b)
  <2> DEFINE s == tab[b].strayed \/ (Browser!TabScope(b) # tab[b].team /\ ~tab[b].lost)
             p == [tab[b] EXCEPT !.strayed = s]
  <2>1. tab[b].team \in member \/ tab[b].lost  BY <1>0, <1>5 DEF Browser!MintKey, Browser!OnDashboard, Pinned
  <2>2. s = FALSE  BY <1>0, <2>1, ScopeOwn DEF Browser!TabScope, Pinned
  <2>3. Browser!Show(b, p) /\ Browser!Stay  BY <1>5 DEF Browser!MintKey
  <2> HIDE DEF s
  <2>4. /\ p \in TabRecord /\ p.at = tab[b].at /\ p.team = tab[b].team
        /\ p.lost = tab[b].lost /\ p.jobs = tab[b].jobs /\ p.machines = tab[b].machines /\ p.active = tab[b].active
        /\ ~p.strayed
    BY <1>0, <2>2 DEF TabRecord
  <2> HIDE DEF p
  <2> QED  BY <1>1, <2>3, <2>4
<1>6. CASE UNCHANGED <<tab, fetch, member, cookie>>
  BY <1>6 DEF TabsInv, TabsTyped
<1> QED  BY <1>3, <1>4, <1>5, <1>6 DEF Browser!AddChannel, Browser!RemoveChannel

(* A team is lost: the tabs that are on it say so. *)
LEMMA LostKeeps ==
  ASSUME TabsInv, NEW t \in member \ {Personal}, member' = member \ {t}, cookie' = cookie, fetch' = fetch,
         tab' = Browser!Lost(tab, t)
  PROVE  TabsInv'
<1>0. TabsTyped  BY DEF TabsInv
<1>1. ASSUME NEW b \in Tabs
      PROVE  /\ tab'[b] \in TabRecord /\ tab'[b].team = tab[b].team /\ tab'[b].at = tab[b].at
             /\ tab'[b].jobs = tab[b].jobs /\ tab'[b].machines = tab[b].machines /\ tab'[b].active = tab[b].active
             /\ tab'[b].strayed = tab[b].strayed /\ tab'[b].lost = (tab[b].lost \/ tab[b].team = t)
  <2>0. tab[b] \in TabRecord  BY <1>0 DEF TabsTyped
  <2>1. tab'[b] = IF tab[b].team = t THEN [tab[b] EXCEPT !.lost = TRUE] ELSE tab[b]  BY DEF Browser!Lost
  <2> QED  BY <2>0, <2>1 DEF TabRecord
<1>2. tab' \in [Tabs -> TabRecord]  BY <1>1 DEF Browser!Lost
<1>3. TabsTyped'  BY <1>0, <1>2 DEF TabsTyped
<1>4. ASSUME NEW b \in Tabs PROVE Pinned(tab'[b], fetch'[b], member')
  <2>1. Allowed(tab[b]) \subseteq Allowed(tab'[b])  BY <1>1 DEF Allowed
  <2>2. Pinned(tab[b], fetch[b], member)  BY DEF TabsInv
  <2>3. tab[b].lost => tab'[b].lost  BY <1>1
  <2>4. tab[b].team \in member => tab'[b].team \in member' \/ tab'[b].lost  BY <1>1
  <2> QED  BY <1>1, <2>1, <2>2, <2>3, <2>4 DEF Pinned
<1> QED  BY <1>3, <1>4 DEF TabsInv

LEMMA LeaveKeeps == ASSUME TabsInv, NEW b \in Tabs, Browser!LeaveTeam(b) PROVE TabsInv'
<1>0. TabsTyped  BY DEF TabsInv
<1>1. PICK t \in member \ {Personal} :
        /\ member' = member \ {t}
        /\ IF t = tab[b].team
           THEN tab' = [Browser!Lost(tab, t) EXCEPT ![b] = [Browser!Blank EXCEPT !.at = "root"]]
                /\ fetch' = [fetch EXCEPT ![b] = Browser!NoAsk]
           ELSE tab' = Browser!Lost(tab, t) /\ UNCHANGED fetch
  BY DEF Browser!LeaveTeam
<1>2. cookie' = cookie  BY DEF Browser!LeaveTeam
<1>3. CASE t # tab[b].team  BY <1>1, <1>2, <1>3, LostKeeps
<1>4. CASE t = tab[b].team
  <2> DEFINE p == [Browser!Blank EXCEPT !.at = "root"]
             pages == Browser!Lost(tab, t)
  <2>1. tab' = [pages EXCEPT ![b] = p] /\ fetch' = [fetch EXCEPT ![b] = Browser!NoAsk]  BY <1>1, <1>4
  <2>2. p \in TabRecord /\ p.at = "root" /\ p.jobs = None /\ p.machines = None /\ p.active = None /\ ~p.strayed
    BY BlankTyped DEF TabRecord, Places
  <2> HIDE DEF p
  <2>3. ASSUME NEW c \in Tabs
        PROVE  /\ pages[c] \in TabRecord /\ pages[c].team = tab[c].team /\ pages[c].at = tab[c].at
               /\ pages[c].jobs = tab[c].jobs /\ pages[c].machines = tab[c].machines /\ pages[c].active = tab[c].active
               /\ pages[c].strayed = tab[c].strayed /\ pages[c].lost = (tab[c].lost \/ tab[c].team = t)
    <3>0. tab[c] \in TabRecord  BY <1>0 DEF TabsTyped
    <3>1. pages[c] = IF tab[c].team = t THEN [tab[c] EXCEPT !.lost = TRUE] ELSE tab[c]  BY DEF Browser!Lost
    <3> QED  BY <3>0, <3>1 DEF TabRecord
  <2>4. pages \in [Tabs -> TabRecord]  BY <2>3 DEF Browser!Lost
  <2> HIDE DEF pages
  <2>5. tab' \in [Tabs -> TabRecord] /\ tab'[b] = p /\ \A c \in Tabs \ {b} : tab'[c] = pages[c]  BY <2>1, <2>2, <2>4
  <2>6. fetch' \in [Tabs -> FetchRecord] /\ fetch'[b] = Browser!NoAsk /\ \A c \in Tabs \ {b} : fetch'[c] = fetch[c]
    BY <1>0, <2>1, NoAskTyped DEF TabsTyped
  <2>7. TabsTyped'  BY <1>0, <1>1, <1>2, <2>5, <2>6 DEF TabsTyped
  <2>8. ASSUME NEW c \in Tabs \ {b} PROVE Pinned(tab'[c], fetch'[c], member')
    <3>1. tab'[c] = pages[c] /\ fetch'[c] = fetch[c]  BY <2>5, <2>6
    <3>2. Allowed(tab[c]) \subseteq Allowed(pages[c])  BY <2>3 DEF Allowed
    <3>3. Pinned(tab[c], fetch[c], member)  BY DEF TabsInv
    <3>4. tab[c].lost => pages[c].lost  BY <2>3
    <3>5. tab[c].team \in member => pages[c].team \in member' \/ pages[c].lost  BY <1>1, <2>3
    <3> QED  BY <2>3, <3>1, <3>2, <3>3, <3>4, <3>5 DEF Pinned
  <2>9. Pinned(p, Browser!NoAsk, member')  BY <2>2, NoAskTyped DEF Pinned, Allowed
  <2> QED  BY <2>5, <2>6, <2>7, <2>8, <2>9 DEF TabsInv
<1> QED  BY <1>3, <1>4

LEMMA MembersKeep ==
  ASSUME TabsInv, Browser!SwitchElsewhere \/ Browser!Removed \/ Browser!Joined
  PROVE  TabsInv'
<1>1. CASE Browser!SwitchElsewhere
  <2>1. UNCHANGED <<member, tab, fetch>> /\ cookie' \in TeamOrNone
    BY <1>1 DEF TabsInv, TabsTyped, Browser!SwitchElsewhere, TeamOrNone
  <2> QED  BY <2>1 DEF TabsInv, TabsTyped
<1>2. CASE Browser!Removed  BY <1>2, LostKeeps DEF Browser!Removed
<1>3. CASE Browser!Joined
  <2>1. PICK t \in Teams : member' = member \cup {t}  BY <1>3 DEF Browser!Joined
  <2>2. UNCHANGED <<cookie, tab, fetch>>  BY <1>3 DEF Browser!Joined
  <2>3. TabsTyped'  BY <2>1, <2>2 DEF TabsInv, TabsTyped
  <2> QED  BY <2>1, <2>2, <2>3 DEF TabsInv, Pinned
<1> QED  BY <1>1, <1>2, <1>3

(* DashboardView, requestScope: what a tab shows and the keys it mints are of the team in its url, whatever *)
(* other tabs and the cookie do; only a user who lost that team gets their own's in its place.              *)
THEOREM PinnedToItsTeamHolds == Browser!Spec => []PinnedToItsTeam
<1>1. TabsInv /\ [Browser!Next]_(Browser!vars) => TabsInv'
  <2>1. ASSUME TabsInv, Browser!Next PROVE TabsInv'
    BY <2>1, TabsGo, GateKeeps, FetchKeeps, ShowKeeps, LeaveKeeps, MembersKeep DEF Browser!Next
  <2>2. ASSUME TabsInv, UNCHANGED Browser!vars PROVE TabsInv'
    BY <2>2 DEF Browser!vars, TabsInv, TabsTyped
  <2> QED  BY <2>1, <2>2
<1>2. TabsInv => PinnedToItsTeam
  BY DEF TabsInv, Pinned, Allowed, PinnedToItsTeam, Browser!PinnedToItsTeam
<1> QED  BY <1>1, <1>2, TabsStart, PTL DEF Browser!Spec

(***************************************************************************)
(* TeamsDialog.                                                            *)
(***************************************************************************)
Changes == {"create", "rename", "delete", "leave", "add", "remove", "setRole", "invite", "revoke"}
Asks == Changes \cup {"list", "detail"}
Rests == {<<>>, <<"select">>, <<"exit">>, <<"detail">>, <<"list">>, <<"list", "select">>, <<"list", "detail">>,
          <<"list", "exit">>, <<"detail", "list">>}
States == {"free", "sent", "back", "failed"}
Roles == {"unborn", "none", "member", "owner", "gone"}
GroupRecord == [role : Roles, name : Nat, size : Nat, roles : Nat, links : Nat]
Answers == [of : Groups, role : Roles, name : Nat, size : Nat]
           \cup [of : Groups, role : Roles, name : Nat, size : Nat, roles : Nat, links : Nat]
GroupOrNone == Groups \cup {None}
Slot == [at : States, ask : Asks, of : GroupOrNone, rest : Rests, chain : BOOLEAN, got : SUBSET Answers]

DialogTyped ==
  /\ group \in [Groups -> GroupRecord] /\ writes \in Nat
  /\ list \subseteq Answers /\ roster \subseteq Answers /\ selected \in GroupOrNone
  /\ asking \in [Slots -> Slot]

(* What a slot holds is a step of some operation's chain. *)
Chained(c) ==
  /\ c.ask \in Changes => c.rest = Manage!ThenOf(c.ask)
  /\ c.ask = "list" => c.rest \in {<<>>, <<"select">>, <<"detail">>, <<"exit">>} /\ c.at # "failed"
  /\ c.ask = "detail" => c.rest \in {<<>>, <<"list">>} /\ c.at # "failed"

(* The list, or the detail, will be read after what has been answered so far. *)
BringsList(c) ==
  \/ c.at \in {"sent", "back"} /\ c.ask = "list"
  \/ c.at \in {"sent", "back"} /\ c.ask = "detail" /\ c.rest = <<"list">>
  \/ c.at = "back" /\ c.ask \in {"create", "rename", "delete", "leave", "add", "remove"}
BringsDetail(c) ==
  \/ c.at \in {"sent", "back"} /\ c.ask = "detail"
  \/ c.at \in {"sent", "back"} /\ c.ask = "list" /\ c.rest = <<"detail">>
  \/ c.at = "back" /\ c.ask \in Changes \ {"create"}

ListIsComing == list = Manage!Listed \/ \E i \in Slots : BringsList(asking[i])
DetailIsComing == roster \in {{}, Manage!Detail(selected)} \/ \E i \in Slots : BringsDetail(asking[i])

DialogInv ==
  /\ DialogTyped
  /\ \A i \in Slots : Chained(asking[i])
  /\ open /\ ~strayed => ListIsComing /\ DetailIsComing

LEMMA LowestIsFree == ASSUME NEW S \in SUBSET Nat, S # {} PROVE (CHOOSE i \in S : \A j \in S : i <= j) \in S
<1>1. PICK i \in S : \A j \in S : <<j, i>> \notin OpToRel(<, Nat)
  BY WFMin, NatLessThanWellFounded, Zenon
<1>2. \A j \in S : ~(j < i)  BY <1>1, Zenon DEF OpToRel
<1>3. \A j \in S : i <= j  BY <1>2
<1> QED  BY <1>1, <1>3

LEMMA FreeOne ==
  ASSUME Manage!Free # {}
  PROVE  Manage!Lowest \in Slots /\ asking[Manage!Lowest].at = "free"
<1>1. Manage!Free \in SUBSET Nat  BY DialogConstants DEF Manage!DialogConstantsOK, Manage!Free
<1>2. Manage!Lowest \in Manage!Free  BY <1>1, LowestIsFree, Zenon DEF Manage!Lowest
<1> QED  BY <1>2 DEF Manage!Free

LEMMA SlotTyped ==
  /\ Manage!NoRequest \in Slot /\ Chained(Manage!NoRequest)
  /\ \A q \in Asks, t \in GroupOrNone, rest \in Rests, chain \in BOOLEAN :
       LET c == Manage!Asking(q, t, rest, chain)
       IN  c \in Slot /\ c.at = "sent" /\ c.ask = q /\ c.rest = rest
<1>1. "list" \in Asks /\ None \in GroupOrNone /\ <<>> \in Rests /\ {} \in SUBSET Answers /\ "list" \notin Changes
  BY DEF Asks, GroupOrNone, Rests, Changes
<1>2. Manage!NoRequest \in Slot  BY <1>1 DEF Manage!NoRequest, Slot, States
<1>3. Chained(Manage!NoRequest)  BY <1>1 DEF Manage!NoRequest, Chained
<1>4. ASSUME NEW q \in Asks, NEW t \in GroupOrNone, NEW rest \in Rests, NEW chain \in BOOLEAN
      PROVE  LET c == Manage!Asking(q, t, rest, chain)
             IN  c \in Slot /\ c.at = "sent" /\ c.ask = q /\ c.rest = rest
  BY <1>1 DEF Manage!Asking, Slot, States
<1> QED  BY <1>2, <1>3, <1>4

LEMMA ChainsTyped ==
  /\ \A q \in Changes : Manage!ThenOf(q) \in Rests
  /\ Ops \subseteq Changes
<1>1. Ops \subseteq Changes  BY DialogConstants DEF Manage!DialogConstantsOK, Changes
<1>2. \A q \in Changes : Manage!ThenOf(q) \in Rests  BY DEF Manage!ThenOf, Changes, Rests
<1> QED  BY <1>1, <1>2

LEMMA DialogStart == Manage!Init => DialogInv
<1> SUFFICES ASSUME Manage!Init PROVE DialogInv  OBVIOUS
<1>1. group \in [Groups -> GroupRecord]  BY DEF Manage!Init, GroupRecord, Roles
<1>2. asking \in [Slots -> Slot] /\ \A i \in Slots : Chained(asking[i])  BY SlotTyped DEF Manage!Init
<1>3. DialogTyped  BY <1>1, <1>2 DEF Manage!Init, DialogTyped, GroupOrNone
<1>4. ~open  BY DEF Manage!Init
<1> QED  BY <1>2, <1>3, <1>4 DEF DialogInv

(* What the list and the detail say is in the rows. *)
LEMMA ReadsTyped ==
  ASSUME DialogTyped
  PROVE  Manage!Listed \subseteq Answers /\ \A t : Manage!Detail(t) \subseteq Answers
<1>1. ASSUME NEW t \in Groups PROVE Manage!Summary(t) \in Answers
  BY DEF DialogTyped, GroupRecord, Manage!Summary, Answers
<1>2. Manage!Listed \subseteq Answers  BY <1>1 DEF Manage!Listed, Manage!Mine
<1>3. ASSUME NEW t PROVE Manage!Detail(t) \subseteq Answers
  BY DEF DialogTyped, GroupRecord, Manage!Detail, Manage!Mine, Answers
<1> QED  BY <1>2, <1>3

LEMMA ListedSame ==
  ASSUME \A t \in Groups : group'[t].role = group[t].role \/ {group[t].role, group'[t].role} \cap {"member", "owner"} = {},
         \A t \in Groups : group[t].role \in {"member", "owner"} => group'[t].name = group[t].name /\ group'[t].size = group[t].size
  PROVE  Manage!Listed' = Manage!Listed
<1>1. Manage!Mine' = Manage!Mine  BY DEF Manage!Mine
<1>2. \A t \in Manage!Mine : Manage!Summary(t)' = Manage!Summary(t)  BY DEF Manage!Summary, Manage!Mine
<1> QED  BY <1>1, <1>2 DEF Manage!Listed

(* One request moves: what it would have brought is there, or will be brought. *)
LEMMA OneRequest ==
  ASSUME DialogInv, NEW i \in Slots, NEW c \in Slot, Chained(c), asking' = [asking EXCEPT ![i] = c],
         group' \in [Groups -> GroupRecord], writes' \in Nat,
         list' \subseteq Answers, roster' \subseteq Answers, selected' \in GroupOrNone,
         open' /\ ~strayed' =>
           /\ \/ list' = Manage!Listed' \/ BringsList(c)
              \/ /\ open /\ ~strayed /\ ~BringsList(asking[i])
                 /\ list = Manage!Listed => list' = Manage!Listed'
           /\ \/ roster' \in {{}, Manage!Detail(selected)'} \/ BringsDetail(c)
              \/ /\ open /\ ~strayed /\ ~BringsDetail(asking[i])
                 /\ roster \in {{}, Manage!Detail(selected)} => roster' \in {{}, Manage!Detail(selected)'}
  PROVE  DialogInv'
<1>1. asking \in [Slots -> Slot]  BY DEF DialogInv, DialogTyped
<1>2. asking' \in [Slots -> Slot] /\ asking'[i] = c /\ \A j \in Slots \ {i} : asking'[j] = asking[j]  BY <1>1
<1>3. DialogTyped'  BY <1>2 DEF DialogTyped
<1>4. \A j \in Slots : Chained(asking'[j])  BY <1>2 DEF DialogInv
<1>5. ASSUME open', ~strayed' PROVE ListIsComing'
  <2>1. CASE list' = Manage!Listed' \/ BringsList(c)  BY <1>2, <2>1 DEF ListIsComing
  <2>2. CASE /\ open /\ ~strayed /\ ~BringsList(asking[i])
             /\ list = Manage!Listed => list' = Manage!Listed'
    <3>1. ListIsComing  BY <2>2 DEF DialogInv
    <3>2. CASE list = Manage!Listed  BY <2>2, <3>2 DEF ListIsComing
    <3>3. CASE \E j \in Slots : BringsList(asking[j])  BY <1>2, <2>2, <3>3 DEF ListIsComing
    <3> QED  BY <3>1, <3>2, <3>3 DEF ListIsComing
  <2> QED  BY <1>5, <2>1, <2>2
<1>6. ASSUME open', ~strayed' PROVE DetailIsComing'
  <2>1. CASE roster' \in {{}, Manage!Detail(selected)'} \/ BringsDetail(c)  BY <1>2, <2>1 DEF DetailIsComing
  <2>2. CASE /\ open /\ ~strayed /\ ~BringsDetail(asking[i])
             /\ roster \in {{}, Manage!Detail(selected)} => roster' \in {{}, Manage!Detail(selected)'}
    <3>1. DetailIsComing  BY <2>2 DEF DialogInv
    <3>2. CASE roster \in {{}, Manage!Detail(selected)}  BY <2>2, <3>2 DEF DetailIsComing
    <3>3. CASE \E j \in Slots : BringsDetail(asking[j])  BY <1>2, <2>2, <3>3 DEF DetailIsComing
    <3> QED  BY <3>1, <3>2, <3>3 DEF DetailIsComing
  <2> QED  BY <1>6, <2>1, <2>2
<1> QED  BY <1>3, <1>4, <1>5, <1>6 DEF DialogInv

(* A request is sent, and nothing else but what is selected changes. *)
LEMMA SendKeeps ==
  ASSUME DialogInv, NEW q \in Asks, NEW t \in GroupOrNone, NEW rest \in Rests, NEW chain \in BOOLEAN,
         Manage!Send(Manage!Asking(q, t, rest, chain)), Chained(Manage!Asking(q, t, rest, chain)),
         open, strayed' = strayed, UNCHANGED <<group, writes, list, roster>>,
         selected' = selected \/ (q = "detail" /\ selected' \in GroupOrNone)
  PROVE  DialogInv'
<1> DEFINE c == Manage!Asking(q, t, rest, chain)
           i == Manage!Lowest
<1>1. asking' = [asking EXCEPT ![i] = c] /\ i \in Slots /\ asking[i].at = "free"  BY FreeOne DEF Manage!Send
<1>2. c \in Slot /\ c.at = "sent" /\ c.ask = q  BY SlotTyped
<1>3. Chained(c)  OBVIOUS
<1> HIDE DEF c, i
<1>4. ~BringsList(asking[i]) /\ ~BringsDetail(asking[i])  BY <1>1 DEF BringsList, BringsDetail
<1>5. Manage!Listed' = Manage!Listed  BY DEF Manage!Listed, Manage!Mine, Manage!Summary
<1>6. selected' = selected => Manage!Detail(selected)' = Manage!Detail(selected)  BY DEF Manage!Detail, Manage!Mine
<1>7. q = "detail" => BringsDetail(c)  BY <1>2 DEF BringsDetail
<1>8. DialogTyped  BY DEF DialogInv
<1>9. group' \in [Groups -> GroupRecord] /\ writes' \in Nat /\ list' \subseteq Answers /\ roster' \subseteq Answers
      /\ selected' \in GroupOrNone
  BY <1>8 DEF DialogTyped
<1> QED  BY <1>1, <1>2, <1>3, <1>4, <1>5, <1>6, <1>7, <1>9, OneRequest

(* What is shown is not the dialog's concern while it is closed. *)
LEMMA ClosedKeeps ==
  ASSUME DialogInv, UNCHANGED <<group, writes>>, list' \in {{}, list}, selected' = None, roster' = {}, ~open',
         asking' \in {asking, [i \in Slots |-> Manage!NoRequest]}
  PROVE  DialogInv'
<1>1. DialogTyped /\ \A i \in Slots : Chained(asking[i])  BY DEF DialogInv
<1>2. asking' \in [Slots -> Slot] /\ \A i \in Slots : Chained(asking'[i])
  BY <1>1, SlotTyped DEF DialogTyped
<1>3. DialogTyped'  BY <1>1, <1>2 DEF DialogTyped, GroupOrNone
<1> QED  BY <1>2, <1>3 DEF DialogInv

LEMMA UserSends ==
  ASSUME DialogInv,
         (\E t \in Groups : Manage!Select(t)) \/ Manage!Create \/ \E op \in Ops \ {"create"} : Manage!Operate(op)
  PROVE  DialogInv'
<1>0. DialogTyped  BY DEF DialogInv
<1>1. ASSUME NEW t \in Groups, Manage!Select(t) PROVE DialogInv'
  <2>1. /\ "detail" \in Asks /\ t \in GroupOrNone /\ <<>> \in Rests /\ FALSE \in BOOLEAN
    BY DEF Asks, GroupOrNone, Rests
  <2>2. Chained(Manage!Asking("detail", t, <<>>, FALSE))  BY DEF Manage!Asking, Chained, Changes
  <2> QED  BY <1>1, <2>1, <2>2, SendKeeps DEF Manage!Select
<1>2. ASSUME NEW op \in Ops, NEW t \in GroupOrNone, Manage!Send(Manage!Asking(op, t, Manage!ThenOf(op), TRUE)),
             open, strayed' = strayed, UNCHANGED <<group, writes, list, roster, selected>>
      PROVE  DialogInv'
  <2>1. op \in Asks /\ Manage!ThenOf(op) \in Rests /\ TRUE \in BOOLEAN /\ op \in Changes
    BY ChainsTyped DEF Asks
  <2>2. Chained(Manage!Asking(op, t, Manage!ThenOf(op), TRUE))  BY <2>1 DEF Manage!Asking, Chained, Changes
  <2> QED  BY <1>2, <2>1, <2>2, SendKeeps
<1>3. CASE Manage!Create
  <2>1. PICK t \in Unborn : Manage!Send(Manage!Asking("create", t, Manage!ThenOf("create"), TRUE))
    BY <1>3 DEF Manage!Create
  <2>2. t \in GroupOrNone  BY DialogConstants DEF Manage!DialogConstantsOK, GroupOrNone
  <2> QED  BY <1>2, <1>3, <2>1, <2>2 DEF Manage!Create
<1>4. ASSUME NEW op \in Ops \ {"create"}, Manage!Operate(op) PROVE DialogInv'
  <2>1. PICK x \in roster : Manage!Send(Manage!Asking(op, x.of, Manage!ThenOf(op), TRUE))
    BY <1>4 DEF Manage!Operate
  <2> DEFINE t == x.of
  <2>2. t \in GroupOrNone  BY <1>0 DEF DialogTyped, Answers, GroupOrNone
  <2>4. Manage!Send(Manage!Asking(op, t, Manage!ThenOf(op), TRUE))  BY <2>1
  <2>3. open /\ UNCHANGED <<group, writes, list, roster, selected, strayed>>  BY <1>4 DEF Manage!Operate
  <2> HIDE DEF t
  <2> QED  BY <1>2, <2>2, <2>3, <2>4
<1> QED  BY <1>1, <1>3, <1>4

LEMMA OpenKeeps == ASSUME DialogInv, Manage!OpenDialog PROVE DialogInv'
<1>0. DialogTyped /\ asking \in [Slots -> Slot] /\ \A i \in Slots : Chained(asking[i])  BY DEF DialogInv, DialogTyped
<1> DEFINE a == Manage!Asking("list", None, <<>>, FALSE)
           i == Manage!Lowest
           b == Manage!Asking("detail", selected, <<>>, FALSE)
           j == CHOOSE x \in Manage!Free \ {Manage!Lowest} : \A y \in Manage!Free \ {Manage!Lowest} : x <= y
<1>1. a \in Slot /\ a.at = "sent" /\ a.ask = "list" /\ a.rest = <<>> /\ Chained(a)
  <2>1. "list" \in Asks /\ None \in GroupOrNone /\ <<>> \in Rests /\ "list" \notin Changes  BY DEF Asks, GroupOrNone, Rests, Changes
  <2>2. a \in Slot /\ a.at = "sent" /\ a.ask = "list" /\ a.rest = <<>>
    BY <2>1 DEF Manage!Asking, Slot, States
  <2> HIDE DEF a
  <2> QED  BY <2>1, <2>2 DEF Chained
<1>2. b \in Slot /\ b.at = "sent" /\ b.ask = "detail" /\ b.rest = <<>> /\ Chained(b)
  <2>1. "detail" \in Asks /\ selected \in GroupOrNone /\ <<>> \in Rests /\ "detail" \notin Changes
    BY <1>0 DEF Asks, Rests, Changes, DialogTyped
  <2>2. b \in Slot /\ b.at = "sent" /\ b.ask = "detail" /\ b.rest = <<>>
    BY <2>1 DEF Manage!Asking, Slot, States
  <2> HIDE DEF b
  <2> QED  BY <2>1, <2>2 DEF Chained
<1>3. i \in Slots  BY FreeOne DEF Manage!OpenDialog
<1>4. /\ asking' \in [Slots -> Slot] /\ \A x \in Slots : Chained(asking'[x])
      /\ \E x \in Slots : asking'[x] = a
  <2>1. CASE selected = None
    <3>1. asking' = [asking EXCEPT ![i] = a]  BY <2>1 DEF Manage!OpenDialog, Manage!Send
    <3> HIDE DEF a, i
    <3> QED  BY <1>0, <1>1, <1>3, <3>1
  <2>2. CASE selected # None
    <3>1. asking' = [asking EXCEPT ![i] = a, ![j] = b] /\ Manage!Free \ {i} # {}  BY <2>2 DEF Manage!OpenDialog
    <3>2. Manage!Free \ {i} \in SUBSET Nat  BY DialogConstants DEF Manage!DialogConstantsOK, Manage!Free
    <3>3. j \in Manage!Free \ {i}  BY <3>1, <3>2, LowestIsFree, Zenon
    <3>4. j \in Slots /\ j # i  BY <3>3 DEF Manage!Free
    <3> HIDE DEF a, b, i, j
    <3>5. asking'[i] = a /\ asking'[j] = b /\ \A x \in Slots \ {i, j} : asking'[x] = asking[x]  BY <1>0, <1>3, <3>1, <3>4
    <3>6. asking' \in [Slots -> Slot]  BY <1>0, <1>1, <1>2, <1>3, <3>1, <3>4
    <3> QED  BY <1>0, <1>1, <1>2, <1>3, <3>4, <3>5, <3>6
  <2> QED  BY <2>1, <2>2
<1> HIDE DEF a
<1>5. DialogTyped'  BY <1>0, <1>4 DEF DialogTyped, Manage!OpenDialog
<1>6. ListIsComing'  BY <1>1, <1>4 DEF ListIsComing, BringsList
<1>7. ~strayed' => DetailIsComing'  BY DEF DetailIsComing, Manage!OpenDialog
<1> QED  BY <1>4, <1>5, <1>6, <1>7 DEF DialogInv

LEMMA UserKeeps ==
  ASSUME DialogInv, Manage!Close \/ Manage!OpenDashboard \/ Manage!TypeName
  PROVE  DialogInv'
<1>1. CASE Manage!Close  BY <1>1, ClosedKeeps DEF Manage!Close
<1>2. CASE Manage!OpenDashboard  BY <1>2, ClosedKeeps DEF Manage!OpenDashboard, Manage!LeavePage
<1>3. CASE Manage!TypeName
  BY <1>3 DEF Manage!TypeName, DialogInv, DialogTyped, ListIsComing, DetailIsComing,
              Manage!Listed, Manage!Detail, Manage!Mine, Manage!Summary
<1> QED  BY <1>1, <1>2, <1>3

(* The chain goes on with what its rest names. *)
LEMMA Resumed ==
  ASSUME DialogInv, NEW i \in Slots, NEW rest \in Rests, Manage!Resume(i, rest)
  PROVE  \E c \in Slot :
           /\ asking' = [asking EXCEPT ![i] = c] /\ Chained(c)
           /\ rest \in {<<"list">>, <<"list", "select">>, <<"list", "detail">>, <<"list", "exit">>, <<"detail", "list">>}
                => BringsList(c)
           /\ rest \in {<<"detail">>, <<"list", "detail">>, <<"detail", "list">>} => BringsDetail(c)
<1>1. asking[i].of \in GroupOrNone  BY DEF DialogInv, DialogTyped, Slot
<1>2. CASE rest \in {<<>>, <<"select">>, <<"exit">>}
  <2>1. asking' = [asking EXCEPT ![i] = Manage!NoRequest]
    <3>1. rest = <<>> \/ Head(rest) \in {"select", "exit"}  BY <1>2
    <3> QED  BY <3>1 DEF Manage!Resume
  <2>2. rest \notin {<<"list">>, <<"list", "select">>, <<"list", "detail">>, <<"list", "exit">>, <<"detail", "list">>, <<"detail">>}
    BY <1>2
  <2> QED  BY <2>1, <2>2, SlotTyped
<1>3. CASE rest \notin {<<>>, <<"select">>, <<"exit">>}
  <2>a. /\ Head(<<"detail">>) = "detail" /\ Tail(<<"detail">>) = <<>>
        /\ Head(<<"list">>) = "list" /\ Tail(<<"list">>) = <<>>
    OBVIOUS
  <2>b. Head(<<"list", "select">>) = "list" /\ Tail(<<"list", "select">>) = <<"select">>  OBVIOUS
  <2>c. Head(<<"list", "detail">>) = "list" /\ Tail(<<"list", "detail">>) = <<"detail">>  OBVIOUS
  <2>d. Head(<<"list", "exit">>) = "list" /\ Tail(<<"list", "exit">>) = <<"exit">>  OBVIOUS
  <2>e. Head(<<"detail", "list">>) = "detail" /\ Tail(<<"detail", "list">>) = <<"list">>  OBVIOUS
  <2>1. /\ rest # <<>> /\ Head(rest) \in {"list", "detail"} /\ Tail(rest) \in {<<>>, <<"select">>, <<"exit">>, <<"detail">>, <<"list">>}
        /\ Head(rest) = "detail" => Tail(rest) \in {<<>>, <<"list">>}
        /\ Head(rest) = "list" => Tail(rest) \in {<<>>, <<"select">>, <<"exit">>, <<"detail">>}
        /\ rest = <<"detail", "list">> => Head(rest) = "detail" /\ Tail(rest) = <<"list">>
        /\ rest = <<"list", "detail">> => Head(rest) = "list" /\ Tail(rest) = <<"detail">>
        /\ rest \in {<<"list">>, <<"list", "select">>, <<"list", "exit">>} => Head(rest) = "list"
        /\ rest = <<"detail">> => Head(rest) = "detail"
    <3>1. rest \in {<<"detail">>, <<"list">>, <<"list", "select">>, <<"list", "detail">>, <<"list", "exit">>, <<"detail", "list">>}
      BY <1>3, Zenon DEF Rests
    <3>2. CASE rest = <<"detail">>  BY <2>a, <3>2
    <3>3. CASE rest = <<"list">>  BY <2>a, <3>3
    <3>4. CASE rest = <<"list", "select">>  BY <2>b, <3>4
    <3>5. CASE rest = <<"list", "detail">>  BY <2>c, <3>5
    <3>6. CASE rest = <<"list", "exit">>  BY <2>d, <3>6
    <3>7. CASE rest = <<"detail", "list">>  BY <2>e, <3>7
    <3> QED  BY <3>1, <3>2, <3>3, <3>4, <3>5, <3>6, <3>7
  <2> DEFINE h == Head(rest)
             u == Tail(rest)
             c == Manage!Asking(h, asking[i].of, u, TRUE)
  <2>2. asking' = [asking EXCEPT ![i] = c]  BY <2>1 DEF Manage!Resume
  <2> HIDE DEF h, u
  <2>3. h \in Asks /\ u \in Rests /\ h \notin Changes  BY <2>1 DEF h, u, Asks, Rests, Changes
  <2>4. c \in Slot /\ c.at = "sent" /\ c.ask = h /\ c.rest = u  BY <1>1, <2>3 DEF Manage!Asking, Slot, States
  <2> HIDE DEF c
  <2>5. Chained(c)  BY <2>1, <2>3, <2>4 DEF Chained, h, u
  <2>6. rest \in {<<"list">>, <<"list", "select">>, <<"list", "detail">>, <<"list", "exit">>, <<"detail", "list">>}
          => BringsList(c)
    BY <2>1, <2>4 DEF BringsList, h, u
  <2>7. rest \in {<<"detail">>, <<"list", "detail">>, <<"detail", "list">>} => BringsDetail(c)
    BY <2>1, <2>4 DEF BringsDetail, h, u
  <2> QED  BY <2>2, <2>4, <2>5, <2>6, <2>7
<1> QED  BY <1>2, <1>3

LEMMA RowsStay ==
  ASSUME DialogInv, group' = group, writes' = writes
  PROVE  /\ group' \in [Groups -> GroupRecord] /\ writes' \in Nat
         /\ Manage!Listed' = Manage!Listed
         /\ Manage!Listed \subseteq Answers /\ list \subseteq Answers /\ roster \subseteq Answers /\ selected \in GroupOrNone
         /\ selected' = selected => Manage!Detail(selected)' = Manage!Detail(selected)
         /\ \A i \in Slots : asking[i] \in Slot /\ Chained(asking[i])
BY ReadsTyped DEF DialogInv, DialogTyped, Manage!Listed, Manage!Summary, Manage!Detail, Manage!Mine

LEMMA ChangedKeeps == ASSUME DialogInv, NEW i \in Slots, Manage!Changed(i) PROVE DialogInv'
<1> DEFINE q == asking[i].ask
<1>1. group' = group /\ writes' = writes /\ list' = list /\ open' = open /\ strayed' = strayed
  BY DEF Manage!Changed
<1>2. q \in Changes /\ asking[i].at = "back" /\ asking[i].rest = Manage!ThenOf(q) /\ asking[i].rest \in Rests
  <2>1. q \in Changes /\ asking[i].at = "back"  BY ChainsTyped DEF Manage!Changed
  <2>2. Chained(asking[i])  BY <1>1, RowsStay
  <2>3. asking[i].rest = Manage!ThenOf(q)  BY <2>1, <2>2 DEF Chained
  <2> QED  BY <2>1, <2>3, ChainsTyped
<1>3. PICK c \in Slot :
        /\ asking' = [asking EXCEPT ![i] = c] /\ Chained(c)
        /\ Manage!ThenOf(q) \in {<<"list">>, <<"list", "select">>, <<"list", "detail">>, <<"list", "exit">>, <<"detail", "list">>}
             => BringsList(c)
        /\ Manage!ThenOf(q) \in {<<"detail">>, <<"list", "detail">>, <<"detail", "list">>} => BringsDetail(c)
  BY <1>2, Resumed DEF Manage!Changed
<1>4. BringsList(asking[i]) => BringsList(c)
  <2>1. BringsList(asking[i]) => q \in {"create", "rename", "delete", "leave", "add", "remove"}
    BY <1>2 DEF BringsList, Changes
  <2>2. q \in {"create", "rename", "delete", "leave", "add", "remove"} =>
          Manage!ThenOf(q) \in {<<"list">>, <<"list", "select">>, <<"list", "detail">>, <<"list", "exit">>, <<"detail", "list">>}
    BY DEF Manage!ThenOf
  <2> QED  BY <1>3, <2>1, <2>2
<1>5. \/ q \in {"delete", "leave"} /\ selected' = None /\ roster' = {}
      \/ BringsDetail(c) /\ selected' = selected /\ roster' = roster
      \/ ~BringsDetail(asking[i]) /\ selected' = selected /\ roster' = roster
  <2>1. CASE q \in {"delete", "leave"}  BY <2>1 DEF Manage!Changed
  <2>2. CASE q \notin {"delete", "leave"}
    <3>1. selected' = selected /\ roster' = roster  BY <2>2 DEF Manage!Changed
    <3>2. CASE q = "create"  BY <1>2, <3>1, <3>2 DEF BringsDetail, Changes
    <3>3. CASE q # "create"
      <4>1. Manage!ThenOf(q) \in {<<"detail">>, <<"list", "detail">>, <<"detail", "list">>}
        BY <1>2, <2>2, <3>3 DEF Manage!ThenOf, Changes
      <4> QED  BY <1>3, <3>1, <4>1
    <3> QED  BY <3>2, <3>3
  <2> QED  BY <2>1, <2>2
<1>6. None \in GroupOrNone  BY DEF GroupOrNone
<1>7. selected' \in GroupOrNone /\ list' \subseteq Answers /\ roster' \subseteq Answers
  BY <1>1, <1>5, <1>6, RowsStay
<1> QED  BY <1>1, <1>3, <1>4, <1>5, <1>7, RowsStay, OneRequest

LEMMA RefusedKeeps == ASSUME DialogInv, NEW i \in Slots, Manage!Refused(i) PROVE DialogInv'
<1>1. /\ group' = group /\ writes' = writes /\ list' = list /\ open' = open /\ strayed' = strayed
      /\ selected' = selected /\ roster' = roster /\ asking[i].at = "failed"
  BY DEF Manage!Refused
<1>2. <<>> \in Rests  BY DEF Rests
<1>3. PICK c \in Slot : asking' = [asking EXCEPT ![i] = c] /\ Chained(c)
  BY <1>2, Resumed DEF Manage!Refused
<1>4. ~BringsList(asking[i]) /\ ~BringsDetail(asking[i])  BY <1>1 DEF BringsList, BringsDetail
<1> QED  BY <1>1, <1>3, <1>4, RowsStay, OneRequest

LEMMA LoseKeeps == ASSUME DialogInv, NEW i \in Slots, Manage!Lose(i) PROVE DialogInv'
<1>1. /\ group' = group /\ writes' = writes /\ list' = list /\ strayed'
      /\ selected' = selected /\ roster' = roster
  BY DEF Manage!Lose
<1>2. <<>> \in Rests /\ asking[i].rest \in Rests  BY <1>1, RowsStay DEF Rests, Slot
<1>3. PICK c \in Slot : asking' = [asking EXCEPT ![i] = c] /\ Chained(c)
  BY <1>2, Resumed DEF Manage!Lose
<1> QED  BY <1>1, <1>3, RowsStay, OneRequest

LEMMA ListKeeps == ASSUME DialogInv, NEW i \in Slots, Manage!ListLands(i) PROVE DialogInv'
<1>1. group' = group /\ writes' = writes /\ asking[i].ask = "list" /\ asking[i].at = "back"
  BY DEF Manage!ListLands
<1>2. CASE asking[i].rest = <<"exit">> /\ asking[i].of = Active
  BY <1>1, <1>2, ClosedKeeps DEF Manage!ListLands, Manage!LeavePage
<1>3. CASE ~(asking[i].rest = <<"exit">> /\ asking[i].of = Active)
  <2>1. /\ list' = asking[i].got /\ open' = open /\ selected' = selected /\ roster' = roster
        /\ ~strayed' => ~strayed /\ (open => list' = Manage!Listed)
        /\ Manage!Resume(i, asking[i].rest)
    BY <1>3 DEF Manage!ListLands, Manage!Stale
  <2>2. asking[i].rest \in Rests /\ list' \subseteq Answers /\ asking[i].rest \in {<<>>, <<"select">>, <<"detail">>, <<"exit">>}
    BY <1>1, <2>1, RowsStay DEF Slot, Chained, Changes
  <2>3. PICK c \in Slot : /\ asking' = [asking EXCEPT ![i] = c] /\ Chained(c)
                          /\ asking[i].rest = <<"detail">> => BringsDetail(c)
    BY <2>1, <2>2, Resumed
  <2>4. BringsDetail(asking[i]) => BringsDetail(c)
    BY <1>1, <2>3 DEF BringsDetail, Changes
  <2> QED  BY <1>1, <2>1, <2>2, <2>3, <2>4, RowsStay, OneRequest
<1> QED  BY <1>2, <1>3

LEMMA NewListKeeps == ASSUME DialogInv, NEW i \in Slots, Manage!NewTeamListed(i) PROVE DialogInv'
<1>1. /\ group' = group /\ writes' = writes /\ asking[i].ask = "list" /\ asking[i].at = "back"
      /\ asking[i].rest = <<"select">> /\ list' = asking[i].got /\ open' = open /\ roster' = roster
      /\ selected' = asking[i].of
  BY DEF Manage!NewTeamListed
<1>2. ~strayed' => ~strayed /\ (open => list' = Manage!Listed)  BY DEF Manage!NewTeamListed, Manage!Stale
<1>3. list' \subseteq Answers /\ selected' \in GroupOrNone  BY <1>1, RowsStay DEF Slot
<1>4. ~BringsDetail(asking[i])
  <2>1. <<"select">> # <<"detail">>  OBVIOUS
  <2> QED  BY <1>1, <2>1 DEF BringsDetail, Changes
<1> DEFINE c == IF open /\ asking[i].of # selected THEN Manage!Asking("detail", asking[i].of, <<>>, FALSE) ELSE Manage!NoRequest
<1>5. asking' = [asking EXCEPT ![i] = c]  BY DEF Manage!NewTeamListed
<1>6. c \in Slot /\ Chained(c) /\ (open => BringsDetail(c) \/ selected' = selected)
  <2>1. CASE open /\ asking[i].of # selected
    <3>1. "detail" \in Asks /\ <<>> \in Rests /\ "detail" \notin Changes  BY DEF Asks, Rests, Changes
    <3>2. c \in Slot /\ c.at = "sent" /\ c.ask = "detail" /\ c.rest = <<>>
      BY <1>1, <1>3, <2>1, <3>1 DEF Manage!Asking, Slot, States
    <3> HIDE DEF c
    <3> QED  BY <3>1, <3>2 DEF Chained, BringsDetail
  <2>2. CASE ~(open /\ asking[i].of # selected)
    <3>1. c = Manage!NoRequest  BY <2>2
    <3> QED  BY <1>1, <2>2, <3>1, SlotTyped
  <2> QED  BY <2>1, <2>2
<1> HIDE DEF c
<1> QED  BY <1>1, <1>2, <1>3, <1>4, <1>5, <1>6, RowsStay, OneRequest

LEMMA DetailKeeps == ASSUME DialogInv, NEW i \in Slots, Manage!DetailLands(i) PROVE DialogInv'
<1>1. /\ group' = group /\ writes' = writes /\ asking[i].ask = "detail" /\ asking[i].at = "back"
      /\ roster' = asking[i].got /\ open' = open /\ list' = list /\ selected' = selected
      /\ Manage!Resume(i, asking[i].rest)
  BY DEF Manage!DetailLands
<1>2. ~strayed' => ~strayed /\ (open => roster' = Manage!Detail(selected))  BY DEF Manage!DetailLands, Manage!Stale
<1>3. roster' \subseteq Answers /\ asking[i].rest \in Rests  BY <1>1, RowsStay DEF Slot
<1>4. PICK c \in Slot : /\ asking' = [asking EXCEPT ![i] = c] /\ Chained(c)
                        /\ asking[i].rest = <<"list">> => BringsList(c)
  BY <1>1, <1>3, Resumed
<1>5. BringsList(asking[i]) => BringsList(c)  BY <1>1, <1>4 DEF BringsList
<1> QED  BY <1>1, <1>2, <1>3, <1>4, <1>5, RowsStay, OneRequest

(* A change touches one team, and of it what its operation is about. *)
LEMMA AfterTouches ==
  ASSUME DialogInv, NEW q \in Changes, NEW t, NEW n \in Nat, group' = Manage!After(q, t, n)
  PROVE  /\ group' \in [Groups -> GroupRecord]
         /\ \A x \in Groups \ {t} : group'[x] = group[x]
         /\ q \in {"setRole", "invite", "revoke"} => \A x \in Groups :
              group'[x].role = group[x].role /\ group'[x].name = group[x].name /\ group'[x].size = group[x].size
<1>1. group \in [Groups -> GroupRecord]  BY DEF DialogInv, DialogTyped
<1>2. ASSUME NEW e \in GroupRecord, group' = [group EXCEPT ![t] = e]
      PROVE  group' \in [Groups -> GroupRecord] /\ (\A x \in Groups \ {t} : group'[x] = group[x]) /\ (t \in Groups => group'[t] = e)
  BY <1>1, <1>2
<1>3. CASE t \notin Groups
  <2>1. \A x \in Groups : group'[x] = group[x]  BY <1>1, <1>3 DEF Manage!After
  <2>2. group' \in [Groups -> GroupRecord]  BY <1>1, <1>3, <2>1 DEF Manage!After
  <2> QED  BY <2>1, <2>2
<1>4. CASE t \in Groups
  <2> DEFINE r == group[t]
  <2>0. r \in GroupRecord  BY <1>1, <1>4
  <2>1. CASE q = "create"
    <3> DEFINE e == [role |-> "owner", name |-> n, size |-> n, roles |-> n, links |-> n]
    <3>1. group' = [group EXCEPT ![t] = e]  BY <2>1 DEF Manage!After
    <3>2. e \in GroupRecord  BY DEF GroupRecord, Roles
    <3> HIDE DEF e
    <3> QED  BY <1>2, <2>1, <3>1, <3>2
  <2>2. CASE q = "delete"
    <3> DEFINE e == [r EXCEPT !.role = "gone"]
    <3>1. group' = [group EXCEPT ![t] = e]  BY <2>2 DEF Manage!After
    <3>2. e \in GroupRecord  BY <2>0 DEF GroupRecord, Roles
    <3> HIDE DEF e
    <3> QED  BY <1>2, <2>2, <3>1, <3>2
  <2>3. CASE q = "leave"
    <3> DEFINE e == [r EXCEPT !.role = "none", !.size = n]
    <3>1. group' = [group EXCEPT ![t] = e]  BY <1>1, <1>4, <2>3 DEF Manage!After
    <3>2. e \in GroupRecord  BY <2>0 DEF GroupRecord, Roles
    <3> HIDE DEF e
    <3> QED  BY <1>2, <2>3, <3>1, <3>2
  <2>4. CASE q \notin {"create", "delete", "leave"}
    <3> DEFINE f == Manage!Fact(q)
               e == [r EXCEPT ![f] = n]
    <3>1. group' = [group EXCEPT ![t] = e]  BY <1>1, <1>4, <2>4 DEF Manage!After
    <3>2. f \in {"name", "size", "roles", "links"} /\ (q \in {"setRole", "invite", "revoke"} => f \in {"roles", "links"})
      BY <2>4 DEF Manage!Fact, Changes
    <3> HIDE DEF f
    <3>3. e \in GroupRecord /\ e.role = r.role /\ (f \in {"roles", "links"} => e.name = r.name /\ e.size = r.size)
      BY <2>0, <3>2 DEF GroupRecord
    <3> HIDE DEF e
    <3> QED  BY <1>2, <1>4, <2>4, <3>1, <3>2, <3>3
  <2> QED  BY <2>1, <2>2, <2>3, <2>4
<1> QED  BY <1>3, <1>4

LEMMA OthersKeeps == ASSUME DialogInv, NEW t \in Groups, Manage!Others(t) PROVE DialogInv'
<1>1. DialogTyped /\ group \in [Groups -> GroupRecord] /\ writes + 1 \in Nat
      /\ asking \in [Slots -> Slot] /\ \A i \in Slots : Chained(asking[i])
  BY DEF DialogInv, DialogTyped
<1>2. writes' = writes + 1 /\ strayed' /\ UNCHANGED <<open, list, selected, roster, asking>>
  BY DEF Manage!Others, Manage!dialog
<1>3. group' \in [Groups -> GroupRecord]
  <2>1. CASE group' = [group EXCEPT ![t].role = IF @ = "owner" THEN "member" ELSE "owner", ![t].roles = writes + 1]
    <3> DEFINE q == IF group[t].role = "owner" THEN "member" ELSE "owner"
               e == [group[t] EXCEPT !.role = q, !.roles = writes + 1]
    <3>1. group' = [group EXCEPT ![t] = e]  BY <1>1, <2>1
    <3>2. q \in Roles /\ group[t] \in GroupRecord  BY <1>1 DEF Roles
    <3> HIDE DEF q
    <3>3. e \in GroupRecord  BY <1>1, <3>2 DEF GroupRecord
    <3> HIDE DEF e
    <3> QED  BY <1>1, <3>1, <3>3
  <2>2. \A q \in {"leave", "rename", "delete"} : q \in Changes  BY DEF Changes
  <2> QED  BY <1>1, <2>1, <2>2, AfterTouches DEF Manage!Others
<1>4. DialogTyped'  BY <1>1, <1>2, <1>3 DEF DialogTyped
<1> QED  BY <1>1, <1>2, <1>4 DEF DialogInv

LEMMA ServeKeeps == ASSUME DialogInv, NEW i \in Slots, Manage!Serve(i) PROVE DialogInv'
<1>1. asking \in [Slots -> Slot] /\ asking[i] \in Slot /\ Chained(asking[i]) /\ asking[i].at = "sent"
      /\ group \in [Groups -> GroupRecord] /\ writes \in Nat /\ DialogTyped
  BY DEF DialogInv, DialogTyped, Manage!Serve
<1>2. UNCHANGED <<open, list, selected, roster, strayed>>  BY DEF Manage!Serve, Manage!dialog
<1>3. ASSUME NEW got \in SUBSET Answers, asking[i].ask \in {"list", "detail"}, group' = group, writes' = writes,
             asking' = [asking EXCEPT ![i].at = "back", ![i].got = got]
      PROVE  DialogInv'
  <2> DEFINE c == [asking[i] EXCEPT !.at = "back", !.got = got]
  <2>1. asking' = [asking EXCEPT ![i] = c]  BY <1>1, <1>3
  <2>2. c \in Slot /\ c.ask = asking[i].ask /\ c.rest = asking[i].rest /\ c.at = "back"  BY <1>1 DEF Slot, States
  <2> HIDE DEF c
  <2>3. Chained(c)  BY <1>1, <2>2 DEF Chained
  <2>4. (BringsList(asking[i]) => BringsList(c)) /\ (BringsDetail(asking[i]) => BringsDetail(c))
    BY <1>1, <2>2 DEF BringsList, BringsDetail
  <2> QED  BY <1>2, <1>3, <2>1, <2>2, <2>3, <2>4, RowsStay, OneRequest
<1>4. CASE /\ asking[i].ask = "list"
           /\ asking' = [asking EXCEPT ![i].at = "back", ![i].got = Manage!Listed]
           /\ UNCHANGED <<group, writes>>
  <2>1. Manage!Listed \in SUBSET Answers  BY <1>1, ReadsTyped
  <2> DEFINE got == Manage!Listed
  <2>2. asking' = [asking EXCEPT ![i].at = "back", ![i].got = got] /\ got \in SUBSET Answers  BY <1>4, <2>1
  <2> HIDE DEF got
  <2> QED  BY <1>3, <1>4, <2>2
<1>5. CASE /\ asking[i].ask = "detail"
           /\ asking' = [asking EXCEPT ![i].at = "back", ![i].got = Manage!Detail(asking[i].of)]
           /\ UNCHANGED <<group, writes>>
  <2> DEFINE got == Manage!Detail(asking[i].of)
  <2>2. asking' = [asking EXCEPT ![i].at = "back", ![i].got = got] /\ got \in SUBSET Answers  BY <1>1, <1>5, ReadsTyped
  <2> HIDE DEF got
  <2> QED  BY <1>3, <1>5, <2>2
<1>6. CASE /\ asking[i].ask \in Ops /\ Manage!May(asking[i].ask, asking[i].of)
           /\ group' = Manage!After(asking[i].ask, asking[i].of, writes + 1) /\ writes' = writes + 1
           /\ asking' = [asking EXCEPT ![i].at = "back"]
  <2> DEFINE c == [asking[i] EXCEPT !.at = "back"]
             q == asking[i].ask
             t == asking[i].of
  <2>1. asking' = [asking EXCEPT ![i] = c]  BY <1>1, <1>6
  <2>2. c \in Slot /\ c.ask = q /\ c.rest = asking[i].rest /\ c.at = "back"  BY <1>1 DEF Slot, States
  <2>3. q \in Changes /\ Manage!May(q, t) /\ group' = Manage!After(q, t, writes + 1) /\ writes + 1 \in Nat
    BY <1>1, <1>6, ChainsTyped
  <2>n. ~BringsList(asking[i]) /\ ~BringsDetail(asking[i])  BY <1>1, <2>3 DEF BringsList, BringsDetail, Changes
  <2> HIDE DEF c, q, t
  <2>4. Chained(c)  BY <1>1, <2>2, <2>3 DEF Chained, Changes, q
  <2>5. /\ group' \in [Groups -> GroupRecord]
        /\ \A x \in Groups \ {t} : group'[x] = group[x]
        /\ q \in {"setRole", "invite", "revoke"} => \A x \in Groups :
              group'[x].role = group[x].role /\ group'[x].name = group[x].name /\ group'[x].size = group[x].size
    BY <2>3, AfterTouches
  <2>6. BringsList(c) \/ Manage!Listed' = Manage!Listed
    <3>1. CASE q \in {"setRole", "invite", "revoke"}  BY <2>5, <3>1, ListedSame
    <3>2. CASE q \notin {"setRole", "invite", "revoke"}  BY <2>2, <2>3, <3>2 DEF BringsList, Changes
    <3> QED  BY <3>1, <3>2
  <2>7. BringsDetail(c) \/ (roster \in {{}, Manage!Detail(selected)} => roster' \in {{}, Manage!Detail(selected)'})
    <3>1. CASE q # "create"  BY <2>2, <2>3, <3>1 DEF BringsDetail
    <3>2. CASE q = "create"
      <4>1. group[t].role = "unborn"  BY <2>3, <3>2 DEF Manage!May
      <4>2. CASE selected = t
        <5>1. Manage!Detail(selected) = {}  BY <4>1, <4>2 DEF Manage!Detail, Manage!Mine
        <5> QED  BY <1>2, <5>1
      <4>3. CASE selected # t
        <5>1. selected \in Manage!Mine' <=> selected \in Manage!Mine  BY <1>2, <2>5, <4>3 DEF Manage!Mine
        <5>2. selected \in Manage!Mine => group'[selected] = group[selected]  BY <2>5, <4>3 DEF Manage!Mine
        <5>3. Manage!Detail(selected)' = Manage!Detail(selected)  BY <1>2, <5>1, <5>2 DEF Manage!Detail
        <5> QED  BY <1>2, <5>3
      <4> QED  BY <4>2, <4>3
    <3> QED  BY <3>1, <3>2
  <2>8. list' \subseteq Answers /\ roster' \subseteq Answers /\ selected' \in GroupOrNone  BY <1>1, <1>2 DEF DialogTyped
  <2> QED  BY <1>2, <1>6, <2>1, <2>2, <2>3, <2>4, <2>5, <2>6, <2>7, <2>8, <2>n, OneRequest
<1>7. CASE asking[i].ask \in Ops /\ asking' = [asking EXCEPT ![i].at = "failed"] /\ UNCHANGED <<group, writes>>
  <2> DEFINE c == [asking[i] EXCEPT !.at = "failed"]
  <2>1. asking' = [asking EXCEPT ![i] = c]  BY <1>1, <1>7
  <2>2. c \in Slot /\ c.ask = asking[i].ask /\ c.rest = asking[i].rest /\ c.at = "failed"  BY <1>1 DEF Slot, States
  <2>3. asking[i].ask \in Changes  BY <1>7, ChainsTyped
  <2> HIDE DEF c
  <2>4. Chained(c)  BY <1>1, <2>2, <2>3 DEF Chained, Changes
  <2>5. ~BringsList(asking[i]) /\ ~BringsDetail(asking[i])  BY <1>1, <2>3 DEF BringsList, BringsDetail, Changes
  <2> QED  BY <1>2, <1>7, <2>1, <2>2, <2>4, <2>5, RowsStay, OneRequest
<1> QED  BY <1>4, <1>5, <1>6, <1>7 DEF Manage!Serve

(* TeamsModal.tsx: when the last answer is in, the list and the detail show every change the user made, however *)
(* its requests overlapped, but for an answer that went astray and what others did meanwhile.                   *)
THEOREM SettledDialogIsCurrentHolds == Manage!Spec => []SettledDialogIsCurrent
<1>1. DialogInv /\ [Manage!Next]_(Manage!vars) => DialogInv'
  <2>1. ASSUME DialogInv, Manage!Next PROVE DialogInv'
    BY <2>1, ServeKeeps, ChangedKeeps, ListKeeps, NewListKeeps, DetailKeeps, RefusedKeeps, LoseKeeps, OthersKeeps,
       UserSends, OpenKeeps, UserKeeps
       DEF Manage!Next
  <2>2. ASSUME DialogInv, UNCHANGED Manage!vars PROVE DialogInv'
    BY <2>2 DEF Manage!vars, Manage!dialog, DialogInv, DialogTyped, ListIsComing, DetailIsComing,
                Manage!Listed, Manage!Detail, Manage!Mine, Manage!Summary
  <2> QED  BY <2>1, <2>2
<1>2. DialogInv => SettledDialogIsCurrent
  <2> SUFFICES ASSUME DialogInv, open, ~strayed, Manage!Free = Slots
               PROVE  list = Manage!Listed /\ roster \in {{}, Manage!Detail(selected)}
    BY DEF SettledDialogIsCurrent, Manage!SettledDialogIsCurrent
  <2>1. \A i \in Slots : ~BringsList(asking[i]) /\ ~BringsDetail(asking[i])
    BY DEF Manage!Free, BringsList, BringsDetail
  <2> QED  BY <2>1 DEF DialogInv, ListIsComing, DetailIsComing
<1> QED  BY <1>1, <1>2, DialogStart, PTL DEF Manage!Spec

(***************************************************************************)
(* Channels.                                                               *)
(***************************************************************************)
LEMMA RemoveAtKeeps ==
  ASSUME NEW S, NEW s \in Seq(S), NEW i \in 1..Len(s)
  PROVE  /\ Notifications!RemoveAt(s, i) \in Seq(S)
         /\ \A x \in Notifications!ToSet(s) \ {s[i]} : x \in Notifications!ToSet(Notifications!RemoveAt(s, i))
<1> DEFINE a == SubSeq(s, 1, i - 1)
           b == SubSeq(s, i + 1, Len(s))
<1>1. a \in Seq(S) /\ Len(a) = i - 1 /\ \A j \in 1..(i - 1) : a[j] = s[j]  OBVIOUS
<1>2. b \in Seq(S) /\ Len(b) = Len(s) - i /\ \A j \in 1..(Len(s) - i) : b[j] = s[i + j]  OBVIOUS
<1>3. Notifications!RemoveAt(s, i) = a \o b  BY DEF Notifications!RemoveAt
<1> HIDE DEF a, b
<1>4. a \o b \in Seq(S) /\ Len(a \o b) = Len(s) - 1
  <2>1. a \in Seq(S) /\ b \in Seq(S)  BY <1>1, <1>2
  <2>2. a \o b \in Seq(S) /\ Len(a \o b) = Len(a) + Len(b)  BY ONLY <2>1
  <2> QED  BY <1>1, <1>2, <2>2
<1>5. ASSUME NEW j \in 1..Len(s), j # i PROVE \E e \in 1..Len(a \o b) : (a \o b)[e] = s[j]
  <2>1. CASE j < i
    <3>1. (a \o b)[j] = a[j]  BY <1>1, <1>2, <2>1
    <3> QED  BY <1>1, <1>4, <2>1, <3>1
  <2>2. CASE j > i
    <3>1. j - 1 \in 1..Len(a \o b) /\ j - 1 > Len(a)  BY <1>1, <1>4, <2>2
    <3>2. (a \o b)[j - 1] = b[j - i]  BY <1>1, <1>2, <1>4, <2>2, <3>1
    <3>3. b[j - i] = s[j]  BY <1>2, <2>2
    <3> QED  BY <3>1, <3>2, <3>3
  <2> QED  BY <1>5, <2>1, <2>2
<1>6. DOMAIN s = 1..Len(s) /\ DOMAIN (a \o b) = 1..Len(a \o b)  BY <1>4
<1>7. ASSUME NEW x \in Notifications!ToSet(s) \ {s[i]} PROVE x \in Notifications!ToSet(a \o b)
  <2>1. PICK j \in 1..Len(s) : s[j] = x  BY <1>6 DEF Notifications!ToSet
  <2>2. PICK e \in 1..Len(a \o b) : (a \o b)[e] = s[j]  BY <1>5, <2>1
  <2> QED  BY <1>6, <2>1, <2>2 DEF Notifications!ToSet
<1> QED  BY <1>3, <1>4, <1>7

Sound(x) == x = Nothing \/ x \in Notifications!ToSet(stored) \/ x \in raced

Shaped(r) == DOMAIN r = DOMAIN Notifications!NoReq /\ r.ok \in BOOLEAN

(* What a request in flight may be about to write, and what a deletion that is about to commit has seen. *)
Foreseen(r) ==
  /\ r.kind \in {"patch", "new"} /\ r.pc = "write" => Sound(r.ch)
  /\ r.kind = "delete" /\ r.pc = "commit" /\ ~r.ok => loop.route # r.ch \/ loop.route \in raced \cup {Nothing}

RouteInv ==
  /\ DOMAIN req = Reqs /\ stored \in Seq(Chans)
  /\ DOMAIN loop = {"is", "route"} /\ (loop.is # "stored" => loop.route = Nothing)
  /\ Sound(loop.route)
  /\ \A q \in Reqs : Shaped(req[q]) /\ Foreseen(req[q])

LEMMA NoReqShaped ==
  /\ DOMAIN Notifications!NoReq = {"kind", "pc", "ch", "token", "pick", "ok", "hops", "got", "mixed", "saves"}
  /\ Shaped(Notifications!NoReq)
  /\ Notifications!NoReq.kind = "none" /\ Notifications!NoReq.pc = "free"
BY DEF Notifications!NoReq, Shaped

LEMMA RouteStart == Notifications!Init => RouteInv
<1> SUFFICES ASSUME Notifications!Init PROVE RouteInv  OBVIOUS
<1>1. \A q \in Reqs : req[q] = Notifications!NoReq  BY DEF Notifications!Init
<1>2. Foreseen(Notifications!NoReq)  BY NoReqShaped DEF Foreseen
<1>3. DOMAIN req = Reqs  BY DEF Notifications!Init
<1>5. stored \in Seq(Chans)
  <2>1. stored = <<>>  BY DEF Notifications!Init
  <2> QED  BY <2>1
<1>4. DOMAIN loop = {"is", "route"} /\ loop.route = Nothing  BY DEF Notifications!Init
<1> QED  BY <1>1, <1>2, <1>3, <1>4, <1>5, NoReqShaped DEF RouteInv, Sound

(* One request goes on, and no row changes. *)
LEMMA RequestStep ==
  ASSUME RouteInv, UNCHANGED <<stored, loop, raced>>, NEW q \in Reqs, NEW r, req' = [req EXCEPT ![q] = r],
         Shaped(r), Foreseen(r)
  PROVE  RouteInv'
<1>1. DOMAIN req' = Reqs /\ req'[q] = r /\ \A p \in Reqs \ {q} : req'[p] = req[p]  BY DEF RouteInv
<1>2. \A x : Sound(x)' = Sound(x)  BY DEF Sound
<1>3. \A p \in Reqs : Shaped(req'[p]) /\ Foreseen(req'[p])  BY <1>1 DEF RouteInv
<1> QED  BY <1>1, <1>2, <1>3 DEF RouteInv, Foreseen

(* A request that is about to write nothing, and has not looked at the loop. *)
Harmless(r) == r.pc \notin {"write", "commit"}

LEMMA IdleStep ==
  ASSUME RouteInv, UNCHANGED <<stored, loop, raced>>, NEW q \in Reqs, NEW r, req' = [req EXCEPT ![q] = r],
         Shaped(r), Harmless(r)
  PROVE  RouteInv'
BY RequestStep DEF Harmless, Foreseen

LEMMA RequestIdle ==
  ASSUME NEW kind, NEW pc, NEW x
  PROVE  LET r == Notifications!Request(kind, pc, x)
         IN  Shaped(r) /\ r.kind = kind /\ r.pc = pc /\ r.ch = x
BY NoReqShaped DEF Notifications!Request, Shaped

LEMMA AnswerStep ==
  ASSUME RouteInv, UNCHANGED <<stored, loop, raced>>, NEW q \in Reqs, NEW ok \in BOOLEAN, req' = Notifications!Answer(q, ok)
  PROVE  RouteInv'
<1> DEFINE r == [req[q] EXCEPT !.pc = "answered", !.ok = ok]
<1>1. req' = [req EXCEPT ![q] = r]  BY DEF RouteInv, Notifications!Answer
<1>2. Shaped(req[q])  BY DEF RouteInv
<1>3. Shaped(r) /\ Harmless(r)  BY <1>2, NoReqShaped DEF Shaped, Harmless
<1> HIDE DEF r
<1> QED  BY <1>1, <1>3, IdleStep

LEMMA FreeStep ==
  ASSUME RouteInv, UNCHANGED <<stored, loop, raced>>, NEW q \in Reqs, Notifications!Free(q)
  PROVE  RouteInv'
BY NoReqShaped, IdleStep DEF Notifications!Free, Harmless

LEMMA GoStep ==
  ASSUME RouteInv, UNCHANGED <<stored, loop, raced>>, NEW q \in Reqs, NEW pc, Notifications!GoTo(q, pc),
         pc = "commit" => FALSE, pc = "write" => Sound(req[q].ch)
  PROVE  RouteInv'
<1> DEFINE r == [req[q] EXCEPT !.pc = pc]
<1>1. req' = [req EXCEPT ![q] = r]  BY DEF RouteInv, Notifications!GoTo
<1>2. Shaped(req[q])  BY DEF RouteInv
<1>3. Shaped(r) /\ r.ch = req[q].ch /\ r.pc = pc  BY <1>2, NoReqShaped DEF Shaped
<1> HIDE DEF r
<1>4. Foreseen(r)  BY <1>3 DEF Foreseen
<1> QED  BY <1>1, <1>3, <1>4, RequestStep

(* What the dialog asks and hears. *)
LEMMA FormAsks ==
  ASSUME RouteInv, NEW q \in Reqs,
         \/ Notifications!AskList(q) \/ Notifications!Save(q) \/ Notifications!Open(q)
         \/ \E c \in Chans : Notifications!RemoveChannel(q, c) \/ Notifications!RunTest(q, c)
  PROVE  RouteInv'
<1>1. UNCHANGED <<stored, loop, raced>>
  BY DEF Notifications!AskList, Notifications!Save, Notifications!Open, Notifications!RemoveChannel,
         Notifications!RunTest, Notifications!rows
<1>3. CASE Notifications!AskList(q)
  <2> DEFINE r == [Notifications!Request("list", "page", Nothing) EXCEPT !.token = addForm.token]
  <2>1. req' = [req EXCEPT ![q] = r]  BY <1>3 DEF Notifications!AskList, Notifications!Ask
  <2>2. Shaped(r) /\ Harmless(r)  BY RequestIdle, NoReqShaped DEF Harmless, Shaped
  <2> HIDE DEF r
  <2> QED  BY <1>1, <2>1, <2>2, IdleStep
<1>4. CASE Notifications!Save(q)
  <2> DEFINE r == [Notifications!Request("create", "check", Nothing)
                     EXCEPT !.token = addForm.token, !.pick = addForm.pick, !.mixed = addForm.mixed]
  <2>1. req' = [req EXCEPT ![q] = r]  BY <1>4 DEF Notifications!Save, Notifications!Ask
  <2>2. Shaped(r) /\ Harmless(r)  BY RequestIdle, NoReqShaped DEF Harmless, Shaped
  <2> HIDE DEF r
  <2> QED  BY <1>1, <2>1, <2>2, IdleStep
<1>5. CASE Notifications!Open(q)
  <2> DEFINE r == Notifications!Request("load", "read", Nothing)
  <2>1. req' = [req EXCEPT ![q] = r]
    BY <1>5 DEF Notifications!Open, Notifications!Ask
  <2>2. Shaped(r) /\ Harmless(r)  BY RequestIdle DEF Harmless
  <2> HIDE DEF r
  <2> QED  BY <1>1, <2>1, <2>2, IdleStep
<1>6. ASSUME NEW c \in Chans, Notifications!RemoveChannel(q, c) PROVE RouteInv'
  <2> DEFINE r == Notifications!Request("delete", "check", c)
  <2>1. req' = [req EXCEPT ![q] = r]
    BY <1>6 DEF Notifications!RemoveChannel, Notifications!Ask
  <2>2. Shaped(r) /\ Harmless(r)  BY RequestIdle DEF Harmless
  <2> HIDE DEF r
  <2> QED  BY <1>1, <2>1, <2>2, IdleStep
<1>7. ASSUME NEW c \in Chans, Notifications!RunTest(q, c) PROVE RouteInv'
  <2> DEFINE r == Notifications!Request("test", "lookup", c)
  <2>1. req' = [req EXCEPT ![q] = r]
    BY <1>7 DEF Notifications!RunTest, Notifications!Ask
  <2>2. Shaped(r) /\ Harmless(r)  BY RequestIdle DEF Harmless
  <2> HIDE DEF r
  <2> QED  BY <1>1, <2>1, <2>2, IdleStep
<1> QED  BY <1>3, <1>4, <1>5, <1>6, <1>7

LEMMA FormHears ==
  ASSUME RouteInv, NEW q \in Reqs,
         \/ Notifications!Page(q) \/ Notifications!ListAnswer(q) \/ Notifications!SaveAnswer(q)
         \/ Notifications!ReadList(q) \/ Notifications!LoadAnswer(q) \/ Notifications!RemoveAnswer(q)
         \/ Notifications!TestAnswer(q)
  PROVE  RouteInv'
<1>0. Shaped(req[q])  BY DEF RouteInv
<1>1. UNCHANGED <<stored, loop, raced>>
  BY DEF Notifications!Page, Notifications!ListAnswer, Notifications!SaveAnswer, Notifications!ReadList,
         Notifications!LoadAnswer, Notifications!RemoveAnswer, Notifications!TestAnswer, Notifications!rows
<1>2. CASE Notifications!Page(q)  BY <1>1, <1>2, AnswerStep DEF Notifications!Page
<1>3. CASE Notifications!ListAnswer(q)  BY <1>1, <1>3, FreeStep DEF Notifications!ListAnswer
<1>4. CASE Notifications!LoadAnswer(q)  BY <1>1, <1>4, FreeStep DEF Notifications!LoadAnswer
<1>5. CASE Notifications!TestAnswer(q)  BY <1>1, <1>5, FreeStep DEF Notifications!TestAnswer
<1>6. CASE Notifications!SaveAnswer(q)
  <2>1. CASE req[q].ok
    <3> DEFINE r == [Notifications!Request("load", "read", Nothing) EXCEPT !.saves = TRUE]
    <3>1. req' = [req EXCEPT ![q] = r]  BY <1>6, <2>1 DEF Notifications!SaveAnswer
    <3>2. Shaped(r) /\ Harmless(r)  BY RequestIdle, NoReqShaped DEF Harmless, Shaped
    <3> HIDE DEF r
    <3> QED  BY <1>1, <3>1, <3>2, IdleStep
  <2>2. CASE ~req[q].ok  BY <1>1, <1>6, <2>2, FreeStep DEF Notifications!SaveAnswer
  <2> QED  BY <2>1, <2>2
<1>7. CASE Notifications!ReadList(q)
  <2> DEFINE r == [req[q] EXCEPT !.pc = "answered", !.got = stored]
  <2>1. req' = [req EXCEPT ![q] = r]  BY <1>7 DEF Notifications!ReadList, RouteInv
  <2>2. Shaped(r) /\ Harmless(r)  BY <1>0, NoReqShaped DEF Shaped, Harmless
  <2> HIDE DEF r
  <2> QED  BY <1>1, <2>1, <2>2, IdleStep
<1>8. CASE Notifications!RemoveAnswer(q)
  <2>1. CASE req[q].ok
    <3> DEFINE r == Notifications!Request("load", "read", Nothing)
    <3>1. req' = [req EXCEPT ![q] = r]  BY <1>8, <2>1 DEF Notifications!RemoveAnswer
    <3>2. Shaped(r) /\ Harmless(r)  BY RequestIdle DEF Harmless
    <3> HIDE DEF r
    <3> QED  BY <1>1, <3>1, <3>2, IdleStep
  <2>2. CASE ~req[q].ok  BY <1>1, <1>8, <2>2, FreeStep DEF Notifications!RemoveAnswer
  <2> QED  BY <2>1, <2>2
<1> QED  BY <1>2, <1>3, <1>4, <1>5, <1>6, <1>7, <1>8

(* The sending writes nothing. *)
LEMMA SendingKeeps ==
  ASSUME RouteInv, NEW q \in Reqs,
         Notifications!Say(q) \/ Notifications!Lookup(q) \/ Notifications!Redirected(q) \/ Notifications!Posted(q)
  PROVE  RouteInv'
<1>0. Shaped(req[q])  BY DEF RouteInv
<1>1. UNCHANGED <<stored, loop, raced>>
  BY DEF Notifications!Say, Notifications!Lookup, Notifications!Redirected, Notifications!Posted, Notifications!rows
<1>2. CASE Notifications!Say(q)
  <2> DEFINE r == Notifications!Request("say", "lookup", loop.route)
  <2>1. req' = [req EXCEPT ![q] = r]  BY <1>2 DEF Notifications!Say, Notifications!Ask
  <2>2. Shaped(r) /\ Harmless(r)  BY RequestIdle DEF Harmless
  <2> HIDE DEF r
  <2> QED  BY <1>1, <2>1, <2>2, IdleStep
<1>3. CASE Notifications!Lookup(q)
  <2>1. \/ Notifications!GoTo(q, "post") \/ Notifications!Free(q) \/ req' = Notifications!Answer(q, FALSE)
    BY <1>3 DEF Notifications!Lookup
  <2> QED  BY <1>1, <2>1, GoStep, FreeStep, AnswerStep
<1>4. CASE Notifications!Redirected(q)
  <2> DEFINE r == [req[q] EXCEPT !.hops = @ + 1]
  <2>1. req' = [req EXCEPT ![q] = r] /\ req[q].pc = "post"
    BY <1>4 DEF Notifications!Redirected, Notifications!At, RouteInv
  <2>2. Shaped(r) /\ Harmless(r)  BY <1>0, <2>1, NoReqShaped DEF Shaped, Harmless
  <2> HIDE DEF r
  <2> QED  BY <1>1, <2>1, <2>2, IdleStep
<1>5. CASE Notifications!Posted(q)
  <2>1. Notifications!Free(q) \/ \E ok \in BOOLEAN : req' = Notifications!Answer(q, ok)
    BY <1>5 DEF Notifications!Posted
  <2> QED  BY <1>1, <2>1, FreeStep, AnswerStep
<1> QED  BY <1>2, <1>3, <1>4, <1>5

LEMMA WriterAsks ==
  ASSUME RouteInv, NEW q \in Reqs,
         \/ Notifications!PatchCheck(q) \/ Notifications!NewLoop(q) \/ Notifications!DeleteCheck(q) \/ Notifications!DeleteDetach(q)
         \/ \E c \in Chans \cup {Nothing} : Notifications!Patch(q, c)
  PROVE  RouteInv'
<1>0. Shaped(req[q]) /\ stored \in Seq(Chans)  BY DEF RouteInv
<1>1. UNCHANGED <<stored, loop, raced>>
  BY DEF Notifications!PatchCheck, Notifications!NewLoop, Notifications!DeleteCheck, Notifications!DeleteDetach,
         Notifications!Patch, Notifications!rows
<1>2. CASE Notifications!PatchCheck(q)
  <2>1. (Notifications!GoTo(q, "write") /\ Sound(req[q].ch)) \/ Notifications!Free(q)
    BY <1>2 DEF Notifications!PatchCheck, Notifications!Known, Sound
  <2> QED  BY <1>1, <2>1, GoStep, FreeStep
<1>3. CASE Notifications!NewLoop(q)
  <2> DEFINE x == IF stored = <<>> THEN Nothing ELSE Head(stored)
             r == Notifications!Request("new", "write", x)
  <2>1. req' = [req EXCEPT ![q] = r]  BY <1>3 DEF Notifications!NewLoop, Notifications!Ask
  <2>2. Sound(x)
    <3>1. CASE stored # <<>>
      <4>1. Head(stored) = stored[1] /\ 1 \in DOMAIN stored  BY <1>0, <3>1
      <4> QED  BY <3>1, <4>1 DEF Sound, Notifications!ToSet
    <3> QED  BY <3>1 DEF Sound
  <2> HIDE DEF x
  <2>3. Shaped(r) /\ r.kind = "new" /\ r.ch = x  BY RequestIdle
  <2> HIDE DEF r
  <2> QED  BY <1>1, <2>1, <2>2, <2>3, RequestStep DEF Foreseen
<1>4. CASE Notifications!DeleteCheck(q)
  <2>1. \/ req' = [req EXCEPT ![q].pc = "detach"] \/ req' = Notifications!Answer(q, FALSE)
    BY <1>4 DEF Notifications!DeleteCheck
  <2>2. ASSUME req' = [req EXCEPT ![q].pc = "detach"] PROVE Notifications!GoTo(q, "detach")
    BY <2>2 DEF Notifications!GoTo
  <2> QED  BY <1>1, <2>1, <2>2, GoStep, AnswerStep
<1>5. CASE Notifications!DeleteDetach(q)
  <2> DEFINE ok == Notifications!Detached(req[q].ch)
             r == [req[q] EXCEPT !.pc = "commit", !.ok = ok]
  <2>1. req' = [req EXCEPT ![q] = r] /\ req[q].kind = "delete"
    BY <1>5 DEF Notifications!DeleteDetach, Notifications!Is, RouteInv
  <2>2. ok \in BOOLEAN /\ (~ok => loop.is # "stored" \/ loop.route # req[q].ch)  BY DEF Notifications!Detached
  <2> HIDE DEF ok
  <2>3. Shaped(r) /\ r.kind = "delete" /\ r.ch = req[q].ch /\ r.ok = ok
    BY <1>0, <2>1, <2>2, NoReqShaped DEF Shaped
  <2> HIDE DEF r
  <2>4. Foreseen(r)  BY <2>2, <2>3 DEF Foreseen, RouteInv
  <2> QED  BY <1>1, <2>1, <2>3, <2>4, RequestStep
<1>6. ASSUME NEW c \in Chans \cup {Nothing}, Notifications!Patch(q, c) PROVE RouteInv'
  <2> DEFINE pc == IF c = Nothing THEN "write" ELSE "check"
             r == Notifications!Request("patch", pc, c)
  <2>1. req' = [req EXCEPT ![q] = r]  BY <1>6 DEF Notifications!Patch, Notifications!Ask
  <2>2. pc \in {"write", "check"} /\ (pc = "write" => c = Nothing)  OBVIOUS
  <2> HIDE DEF pc
  <2>3. Shaped(r) /\ r.kind = "patch" /\ r.ch = c /\ r.pc = pc  BY RequestIdle
  <2> HIDE DEF r
  <2>4. Foreseen(r)  BY <2>2, <2>3 DEF Foreseen, Sound
  <2> QED  BY <1>1, <2>1, <2>3, <2>4, RequestStep
<1> QED  BY <1>2, <1>3, <1>4, <1>5, <1>6

LEMMA CreateKeeps == ASSUME RouteInv, NEW q \in Reqs, NEW c \in Chans, Notifications!Create(q, c) PROVE RouteInv'
<1>1. loop' = loop /\ raced' = raced  BY DEF Notifications!Create
<1>2. PICK ok \in BOOLEAN : req' = Notifications!Answer(q, ok)  BY DEF Notifications!Create
<1>3. stored' \in {stored, <<c>> \o stored}  BY DEF Notifications!Create
<1>4. stored' \in Seq(Chans) /\ Notifications!ToSet(stored) \subseteq Notifications!ToSet(stored')
  <2>0. stored \in Seq(Chans) /\ DOMAIN stored = 1..Len(stored)  BY DEF RouteInv
  <2>1. CASE stored' = stored  BY <2>0, <2>1
  <2>2. CASE stored' = <<c>> \o stored
    <3>1. stored' \in Seq(Chans) /\ Len(stored') = Len(stored) + 1  BY <2>0, <2>2
    <3>2. DOMAIN stored' = 1..Len(stored')  BY <3>1
    <3>3. ASSUME NEW j \in 1..Len(stored) PROVE stored'[j + 1] = stored[j] /\ j + 1 \in DOMAIN stored'
      BY <2>0, <2>2, <3>1, <3>2
    <3> QED  BY <2>0, <3>1, <3>3 DEF Notifications!ToSet
  <2> QED  BY <1>3, <2>1, <2>2
<1>5. \A x : Sound(x) => Sound(x)'  BY <1>1, <1>4 DEF Sound
<1> DEFINE r == [req[q] EXCEPT !.pc = "answered", !.ok = ok]
<1>6. req' = [req EXCEPT ![q] = r]  BY <1>2 DEF RouteInv, Notifications!Answer
<1>7. Shaped(r) /\ Harmless(r)
  <2>1. Shaped(req[q])  BY DEF RouteInv
  <2> QED  BY <2>1, NoReqShaped DEF Shaped, Harmless
<1> HIDE DEF r
<1>8. DOMAIN req' = Reqs /\ req'[q] = r /\ \A p \in Reqs \ {q} : req'[p] = req[p]  BY <1>6 DEF RouteInv
<1>9. \A p \in Reqs : Shaped(req'[p]) /\ Foreseen(req[p])'
  BY <1>1, <1>5, <1>7, <1>8 DEF RouteInv, Foreseen, Harmless
<1> QED  BY <1>1, <1>4, <1>5, <1>8, <1>9 DEF RouteInv, Foreseen

LEMMA RouteKeeps == ASSUME RouteInv, NEW q \in Reqs, Notifications!Route(q) PROVE RouteInv'
<1> DEFINE c == req[q].ch
<1>1. stored' = stored /\ loop' = [is |-> "stored", route |-> c] /\ raced \subseteq raced'
      /\ (raced' = raced \/ raced' = raced \cup {c})
  BY DEF Notifications!Route
<1>2. Sound(c)  BY DEF Notifications!Route, Notifications!At, RouteInv, Foreseen
<1>3. \A x : Sound(x) => Sound(x)'  BY <1>1 DEF Sound
<1>4. req' = [req EXCEPT ![q] = Notifications!NoReq]  BY DEF Notifications!Route, Notifications!Free
<1>5. DOMAIN req' = Reqs /\ req'[q] = Notifications!NoReq /\ \A p \in Reqs \ {q} : req'[p] = req[p]
  BY <1>4 DEF RouteInv
<1>6. ASSUME NEW p \in Reqs, req[p].kind = "delete", req[p].pc = "commit", req[p].ch = c PROVE c \in raced'
  BY <1>6 DEF Notifications!Route, Notifications!Is
<1>7. loop'.is = "stored" /\ loop'.route = c /\ DOMAIN loop' = {"is", "route"}  BY <1>1
<1> HIDE DEF c
<1>8. ASSUME NEW p \in Reqs PROVE Shaped(req'[p]) /\ Foreseen(req[p])'
  <2>1. CASE p = q  BY <1>5, <2>1, NoReqShaped DEF Foreseen
  <2>2. CASE p # q
    <3>1. req'[p] = req[p] /\ Shaped(req[p]) /\ Foreseen(req[p])  BY <1>5, <2>2 DEF RouteInv
    <3> QED  BY <1>3, <1>6, <1>7, <3>1 DEF Foreseen
  <2> QED  BY <2>1, <2>2
<1> QED  BY <1>1, <1>2, <1>3, <1>5, <1>7, <1>8 DEF RouteInv, Foreseen

LEMMA DeleteKeeps == ASSUME RouteInv, NEW q \in Reqs, Notifications!DeleteCommit(q) PROVE RouteInv'
<1> DEFINE c == req[q].ch
<1>0. Shaped(req[q]) /\ Foreseen(req[q]) /\ stored \in Seq(Chans) /\ DOMAIN loop = {"is", "route"}  BY DEF RouteInv
<1>1. /\ req[q].kind = "delete" /\ req[q].pc = "commit" /\ stored' = Notifications!Without(c)
      /\ loop' = IF req[q].ok THEN [loop EXCEPT !.route = Nothing] ELSE loop
      /\ raced' = IF \E p \in Reqs : Notifications!Writes(p, c) THEN raced \cup {c} ELSE raced
  BY DEF Notifications!DeleteCommit, Notifications!Is
<1>2. PICK ok \in BOOLEAN : req' = Notifications!Answer(q, ok)
  <2> DEFINE known == Notifications!Known(c)
  <2>1. \E ok \in {FALSE, known} : req' = Notifications!Answer(q, ok)  BY DEF Notifications!DeleteCommit
  <2>2. known \in BOOLEAN  BY DEF Notifications!Known
  <2> HIDE DEF known
  <2> QED  BY <2>1, <2>2
<1>3. stored' \in Seq(Chans) /\ Notifications!ToSet(stored) \ {c} \subseteq Notifications!ToSet(stored')
  <2>1. CASE Notifications!Known(c)
    <3> DEFINE i == CHOOSE j \in DOMAIN stored : stored[j] = c
    <3>1. i \in 1..Len(stored) /\ stored[i] = c
      <4>1. \E j \in DOMAIN stored : stored[j] = c  BY <2>1 DEF Notifications!Known, Notifications!ToSet
      <4>2. i \in DOMAIN stored /\ stored[i] = c  BY <4>1
      <4> QED  BY <1>0, <4>2
    <3>2. stored' = Notifications!RemoveAt(stored, i)  BY <1>1, <2>1 DEF Notifications!Without
    <3> HIDE DEF i
    <3> QED  BY <1>0, <3>1, <3>2, RemoveAtKeeps
  <2>2. CASE ~Notifications!Known(c)  BY <1>0, <1>1, <2>2 DEF Notifications!Without
  <2> QED  BY <2>1, <2>2
<1> DEFINE r == [req[q] EXCEPT !.pc = "answered", !.ok = ok]
<1>4. req' = [req EXCEPT ![q] = r]  BY <1>2 DEF RouteInv, Notifications!Answer
<1>5. Shaped(r) /\ Harmless(r)  BY <1>0, NoReqShaped DEF Shaped, Harmless
<1> HIDE DEF r
<1>6. DOMAIN req' = Reqs /\ req'[q] = r /\ \A p \in Reqs \ {q} : req'[p] = req[p]  BY <1>4 DEF RouteInv
<1>7. raced \subseteq raced' /\ \A p \in Reqs : req[p].kind \in {"patch", "new"} /\ req[p].pc = "write" /\ req[p].ch = c => c \in raced'
  BY <1>1 DEF Notifications!Writes
<1>8. /\ DOMAIN loop' = {"is", "route"} /\ loop'.is = loop.is
      /\ loop'.route \in {Nothing, loop.route} /\ (req[q].ok => loop'.route = Nothing) /\ (~req[q].ok => loop'.route = loop.route)
  BY <1>0, <1>1
<1>9. Sound(loop.route)'
  <2>1. CASE loop'.route = Nothing  BY <2>1 DEF Sound
  <2>2. CASE loop'.route # Nothing
    <3>1. loop'.route = loop.route /\ ~req[q].ok /\ Sound(loop.route)  BY <1>8, <2>2 DEF RouteInv
    <3>2. loop.route # c \/ loop.route \in raced  BY <1>0, <1>1, <2>2, <3>1 DEF Foreseen
    <3> QED  BY <1>3, <1>7, <3>1, <3>2 DEF Sound
  <2> QED  BY <2>1, <2>2
<1>10. ASSUME NEW p \in Reqs PROVE Shaped(req'[p]) /\ Foreseen(req[p])'
  <2>1. CASE p = q  BY <1>5, <1>6, <2>1 DEF Foreseen, Harmless
  <2>2. CASE p # q
    <3>1. req'[p] = req[p] /\ Shaped(req[p]) /\ Foreseen(req[p])  BY <1>6, <2>2 DEF RouteInv
    <3>2. ASSUME req[p].kind \in {"patch", "new"}, req[p].pc = "write" PROVE Sound(req[p].ch)'
      BY <1>3, <1>7, <3>1, <3>2 DEF Foreseen, Sound
    <3>3. ASSUME req[p].kind = "delete", req[p].pc = "commit", ~req[p].ok
          PROVE  loop'.route # req[p].ch \/ loop'.route \in raced' \cup {Nothing}
      BY <1>7, <1>8, <3>1, <3>3 DEF Foreseen
    <3> QED  BY <3>1, <3>2, <3>3 DEF Foreseen
  <2> QED  BY <2>1, <2>2
<1> QED  BY <1>3, <1>6, <1>8, <1>9, <1>10 DEF RouteInv, Foreseen

(* What touches neither a row nor a request. *)
LEMMA FormKeeps ==
  ASSUME RouteInv, UNCHANGED <<stored, loop, req, raced>>
  PROVE  RouteInv'
BY DEF RouteInv, Foreseen, Sound, Shaped

(* deleteChannel, patchJob, createLoop: a loop is routed to a channel there is, unless the route was written while *)
(* that channel was being deleted, from a look at the channels before it.                                          *)
THEOREM RouteLeadsSomewhereHolds == Notifications!Spec => []RouteLeadsSomewhere
<1>1. RouteInv /\ [Notifications!Next]_(Notifications!vars) => RouteInv'
  <2>1. ASSUME RouteInv, Notifications!Next PROVE RouteInv'
    <3>1. CASE \E type \in {"slack", "other"} : Notifications!StartAdd(type)
      BY <2>1, <3>1, FormKeeps DEF Notifications!StartAdd, Notifications!rows
    <3>2. CASE \E t \in Tokens \cup {Nothing} : Notifications!EditToken(t)
      BY <2>1, <3>2, FormKeeps DEF Notifications!EditToken, Notifications!rows
    <3>3. CASE Notifications!Choose \/ Notifications!CancelForm \/ \E c \in Chans : Notifications!ClearTest(c)
      BY <2>1, <3>3, FormKeeps DEF Notifications!Choose, Notifications!CancelForm, Notifications!ClearTest, Notifications!rows
    <3> QED
      BY <2>1, <3>1, <3>2, <3>3, FormAsks, FormHears, SendingKeeps, WriterAsks, CreateKeeps, RouteKeeps, DeleteKeeps
         DEF Notifications!Next
  <2>2. ASSUME RouteInv, UNCHANGED Notifications!vars PROVE RouteInv'
    BY <2>2, FormKeeps DEF Notifications!vars, Notifications!rows
  <2> QED  BY <2>1, <2>2
<1>2. RouteInv => RouteLeadsSomewhere
  BY DEF RouteInv, Sound, RouteLeadsSomewhere, Notifications!RouteLeadsSomewhere, Notifications!Known
<1> QED  BY <1>1, <1>2, RouteStart, PTL DEF Notifications!Spec

(***************************************************************************)
(* LoopPage.                                                               *)
(***************************************************************************)
LoopOrNobody == Loops \cup {Nobody}
PageCall == [what : {"load", "act", "save", "delete", "none"}, loop : LoopOrNobody,
             at : {"sent", "ok", "error", "free"}, live : BOOLEAN]

PageTyped ==
  /\ page \in LoopOrNobody /\ del \in LoopOrNobody /\ armed \in BOOLEAN
  /\ rows \subseteq Loops /\ meant \subseteq Loops /\ sent \subseteq Loops /\ abandoned \subseteq Loops
  /\ call \in [Calls -> PageCall]

(* A request on its way: it deletes what was committed, and concerns no page that is shut. *)
PageCallFits(c, where, committed) ==
  /\ c.what = "delete" => c.loop \in committed
  /\ where = Nobody /\ c.live => c.what \in {"delete", "none"}

(* The delete in its window is meant, and has gone neither way yet. *)
WindowFits ==
  /\ armed <=> del # Nobody
  /\ del # Nobody => del \in meant /\ del \notin sent \cup abandoned

PageInv ==
  /\ PageTyped
  /\ WindowFits
  /\ detail # Nobody \/ editing => page # Nobody
  /\ \A i \in Calls : PageCallFits(call[i], page, sent)
  /\ DeletesAreMeant

LEMMA CallsTyped ==
  ASSUME NEW what \in {"load", "act", "save", "delete"}, NEW l \in Loops
  PROVE  /\ Page!NoCall \in PageCall /\ Page!NoCall.what = "none"
         /\ [what |-> what, loop |-> l, at |-> "sent", live |-> TRUE] \in PageCall
<1>1. Nobody \in LoopOrNobody /\ l \in LoopOrNobody  BY DEF LoopOrNobody
<1> QED  BY <1>1 DEF PageCall, Page!NoCall

(* A request put among others, which fit, fits too. *)
LEMMA PutFits ==
  ASSUME NEW calls \in [Calls -> PageCall], NEW l \in Loops, NEW what \in {"load", "act", "save", "delete"},
         NEW where, NEW committed,
         \A i \in Calls : PageCallFits(calls[i], where, committed),
         what = "delete" => l \in committed,
         where = Nobody => what = "delete"
  PROVE  /\ Page!Put(calls, what, l) \in [Calls -> PageCall]
         /\ \A i \in Calls : PageCallFits(Page!Put(calls, what, l)[i], where, committed)
<1> DEFINE r == [what |-> what, loop |-> l, at |-> "sent", live |-> TRUE]
           x == CHOOSE i \in Page!Unused(calls) : \A j \in Page!Unused(calls) : i <= j
<1>1. r \in PageCall  BY CallsTyped
<1>2. PageCallFits(r, where, committed)  BY DEF PageCallFits
<1>3. Page!Put(calls, what, l) = [calls EXCEPT ![x] = r]  BY DEF Page!Put
<1> HIDE DEF r, x
<1> QED  BY <1>1, <1>2, <1>3

(* The requests after a page was shut: they are deaf, but for the deletes. *)
LEMMA DeafFits ==
  ASSUME NEW calls \in [Calls -> PageCall], NEW where, NEW committed,
         \A i \in Calls : PageCallFits(calls[i], where, committed)
  PROVE  /\ Page!Deaf(calls) \in [Calls -> PageCall]
         /\ \A i \in Calls : PageCallFits(Page!Deaf(calls)[i], Nobody, committed)
<1>1. ASSUME NEW i \in Calls
      PROVE  Page!Deaf(calls)[i] \in PageCall /\ PageCallFits(Page!Deaf(calls)[i], Nobody, committed)
  <2>1. calls[i] \in PageCall /\ PageCallFits(calls[i], where, committed)  OBVIOUS
  <2>2. CASE calls[i].what = "delete" \/ calls[i] = Page!NoCall
    <3>1. Page!Deaf(calls)[i] = calls[i]  BY <2>2 DEF Page!Deaf
    <3>2. calls[i].what \in {"delete", "none"}  BY <2>2 DEF Page!NoCall
    <3> QED  BY <2>1, <3>1, <3>2 DEF PageCallFits
  <2>3. CASE ~(calls[i].what = "delete" \/ calls[i] = Page!NoCall)
    <3>1. Page!Deaf(calls)[i] = [calls[i] EXCEPT !.live = FALSE]  BY <2>3 DEF Page!Deaf
    <3>2. Page!Deaf(calls)[i] \in PageCall /\ Page!Deaf(calls)[i].live = FALSE
          /\ Page!Deaf(calls)[i].what # "delete"
      BY <2>1, <2>3, <3>1 DEF PageCall
    <3> QED  BY <3>2 DEF PageCallFits
  <2> QED  BY <2>2, <2>3
<1> QED  BY <1>1 DEF Page!Deaf

(* What is armed is committed: its request, if there is one, deletes it. *)
LEMMA FlushedFits ==
  ASSUME PageInv
  PROVE  /\ Page!Flushed(call) \in [Calls -> PageCall]
         /\ \A i \in Calls : PageCallFits(Page!Flushed(call)[i], page, sent \cup Page!Doomed)
         /\ Page!Doomed \subseteq meant
         /\ Page!Doomed \subseteq Loops
<1>0. /\ call \in [Calls -> PageCall] /\ del \in LoopOrNobody /\ meant \subseteq Loops
      /\ \A i \in Calls : PageCallFits(call[i], page, sent)
      /\ del # Nobody => del \in meant
  BY DEF PageInv, PageTyped, WindowFits
<1>1. \A i \in Calls : PageCallFits(call[i], page, sent \cup Page!Doomed)  BY <1>0 DEF PageCallFits
<1>2. CASE del = Nobody  BY <1>0, <1>1, <1>2 DEF Page!Flushed, Page!Doomed
<1>3. CASE del # Nobody
  <2>1. del \in Loops /\ Page!Doomed = {del}  BY <1>0, <1>3 DEF Page!Doomed, LoopOrNobody
  <2>2. Page!Flushed(call) = Page!Put(call, "delete", del)  BY <1>3 DEF Page!Flushed
  <2> DEFINE kind == "delete"
  <2>3. kind = "delete" /\ kind \in {"load", "act", "save", "delete"}  OBVIOUS
  <2> HIDE DEF kind
  <2>4. del \in sent \cup Page!Doomed  BY <2>1
  <2>5. /\ Page!Put(call, kind, del) \in [Calls -> PageCall]
        /\ \A i \in Calls : PageCallFits(Page!Put(call, kind, del)[i], page, sent \cup Page!Doomed)
    BY <1>0, <1>1, <2>1, <2>3, <2>4, PutFits
  <2>6. /\ Page!Flushed(call) \in [Calls -> PageCall]
        /\ \A i \in Calls : PageCallFits(Page!Flushed(call)[i], page, sent \cup Page!Doomed)
    BY <2>2, <2>3, <2>5
  <2>7. Page!Doomed \subseteq meant /\ Page!Doomed \subseteq Loops  BY <1>0, <1>3, <2>1
  <2> QED  BY <2>6, <2>7
<1> QED  BY <1>2, <1>3

LEMMA PageStart == Page!Init => PageInv
<1> SUFFICES ASSUME Page!Init PROVE PageInv
  OBVIOUS
<1>1. Page!NoCall \in PageCall /\ Page!NoCall.what = "none"
  <2>1. Nobody \in LoopOrNobody  BY DEF LoopOrNobody
  <2> QED  BY <2>1 DEF PageCall, Page!NoCall
<1>2. PageTyped  BY <1>1 DEF PageTyped, Page!Init, LoopOrNobody
<1>3. WindowFits /\ DeletesAreMeant
  BY DEF WindowFits, DeletesAreMeant, Page!DeletesAreMeant, Page!Doomed, Page!Init
<1>4. \A i \in Calls : PageCallFits(call[i], page, sent)  BY <1>1 DEF PageCallFits, Page!Init
<1> QED  BY <1>2, <1>3, <1>4 DEF PageInv, Page!Init

(* The window is over, the page moves on, or an answer closes it: what was armed is committed. *)
LEMMA ClosingKeeps ==
  ASSUME PageInv, page' \in LoopOrNobody, call' \in [Calls -> PageCall], sent' = sent \cup Page!Doomed,
         \A i \in Calls : PageCallFits(call[i], page, sent)',
         del' = Nobody, armed' = FALSE, detail' = Nobody, editing' = FALSE, UNCHANGED <<rows, meant, abandoned>>
  PROVE  PageInv'
<1>1. PageTyped /\ DeletesAreMeant /\ WindowFits  BY DEF PageInv
<1>2. PageTyped'
  <2>1. Page!Doomed \subseteq Loops  BY FlushedFits
  <2>2. sent' \subseteq Loops  BY <1>1, <2>1 DEF PageTyped
  <2> QED  BY <1>1, <2>2 DEF PageTyped, LoopOrNobody
<1>3. DeletesAreMeant'
  <2>1. Page!Doomed \subseteq Loops  BY FlushedFits
  <2>2. Page!Doomed' = {}  BY DEF Page!Doomed
  <2>3. rows \subseteq Loops  BY <1>1 DEF PageTyped
  <2> QED  BY <1>1, <2>1, <2>2, <2>3 DEF DeletesAreMeant, Page!DeletesAreMeant
<1>4. WindowFits'  BY DEF WindowFits
<1> QED  BY <1>2, <1>3, <1>4 DEF PageInv

LEMMA MoveKeeps ==
  ASSUME PageInv, NEW l \in LoopOrNobody, Page!Move(l), UNCHANGED <<rows, meant, abandoned>>
  PROVE  PageInv'
<1>1. /\ page' = l /\ sent' = sent \cup Page!Doomed /\ del' = Nobody /\ armed' = FALSE
      /\ detail' = Nobody /\ editing' = FALSE
      /\ call' = IF l = Nobody THEN Page!Deaf(Page!Flushed(call)) ELSE Page!Put(Page!Flushed(call), "load", l)
  BY DEF Page!Move
<1>2. call' \in [Calls -> PageCall] /\ \A i \in Calls : PageCallFits(call'[i], l, sent \cup Page!Doomed)
  <2>1. CASE l = Nobody  BY <1>1, <2>1, FlushedFits, DeafFits
  <2>2. CASE l # Nobody
    <3>1. l \in Loops /\ call' = Page!Put(Page!Flushed(call), "load", l)  BY <1>1, <2>2 DEF LoopOrNobody
    <3> DEFINE kind == "load"
    <3>2. kind = "load" /\ kind \in {"load", "act", "save", "delete"} /\ kind # "delete"  OBVIOUS
    <3> HIDE DEF kind
    <3>3. \A i \in Calls : PageCallFits(Page!Flushed(call)[i], l, sent \cup Page!Doomed)
      BY <2>2, FlushedFits DEF PageCallFits
    <3>4. /\ Page!Put(Page!Flushed(call), kind, l) \in [Calls -> PageCall]
          /\ \A i \in Calls : PageCallFits(Page!Put(Page!Flushed(call), kind, l)[i], l, sent \cup Page!Doomed)
      BY <2>2, <3>1, <3>2, <3>3, FlushedFits, PutFits
    <3> QED  BY <3>1, <3>2, <3>4
  <2> QED  BY <2>1, <2>2
<1>3. \A i \in Calls : PageCallFits(call[i], page, sent)'  BY <1>1, <1>2
<1> QED  BY <1>1, <1>2, <1>3, ClosingKeeps

LEMMA DeletedKeeps == ASSUME PageInv, NEW i \in Calls, Page!Deleted(i) PROVE PageInv'
<1> DEFINE calls == Page!Deaf(Page!Flushed(call))
<1>1. /\ page' = Nobody /\ sent' = sent \cup Page!Doomed /\ del' = Nobody /\ armed' = FALSE
      /\ detail' = Nobody /\ editing' = FALSE /\ UNCHANGED <<rows, meant, abandoned>>
      /\ call' = [calls EXCEPT ![i] = Page!NoCall]
  BY DEF Page!Deleted
<1>2. calls \in [Calls -> PageCall] /\ \A j \in Calls : PageCallFits(calls[j], Nobody, sent \cup Page!Doomed)
  BY FlushedFits, DeafFits
<1> HIDE DEF calls
<1>3. Page!NoCall \in PageCall /\ PageCallFits(Page!NoCall, Nobody, sent \cup Page!Doomed)
  <2>1. Nobody \in LoopOrNobody  BY DEF LoopOrNobody
  <2> QED  BY <2>1 DEF PageCall, Page!NoCall, PageCallFits
<1>4. call' \in [Calls -> PageCall] /\ \A j \in Calls : PageCallFits(call'[j], Nobody, sent \cup Page!Doomed)
  BY <1>1, <1>2, <1>3
<1>5. \A j \in Calls : PageCallFits(call[j], page, sent)'  BY <1>1, <1>4
<1> QED  BY <1>1, <1>4, <1>5, ClosingKeeps DEF LoopOrNobody

(* The tab is closed with whatever was armed. *)
LEMMA CloseTabKeeps == ASSUME PageInv, Page!CloseTab PROVE PageInv'
<1>0. PageTyped /\ DeletesAreMeant  BY DEF PageInv
<1>1. /\ page' = Nobody /\ del' = Nobody /\ armed' = FALSE /\ detail' = Nobody /\ editing' = FALSE
      /\ abandoned' = abandoned \cup Page!Doomed /\ UNCHANGED <<rows, meant, sent>>
      /\ call' = [i \in Calls |-> IF call[i] = Page!NoCall THEN Page!NoCall ELSE [call[i] EXCEPT !.live = FALSE]]
  BY DEF Page!CloseTab
<1>2. ASSUME NEW i \in Calls PROVE call'[i] \in PageCall /\ PageCallFits(call'[i], page', sent')
  <2>1. call[i] \in PageCall /\ PageCallFits(call[i], page, sent)  BY DEF PageInv, PageTyped
  <2>2. CASE call[i] = Page!NoCall
    <3>1. call'[i] = call[i]  BY <1>1, <2>2
    <3>2. call[i].what = "none"  BY <2>2 DEF Page!NoCall
    <3> QED  BY <2>1, <3>1, <3>2 DEF PageCallFits
  <2>3. CASE call[i] # Page!NoCall
    <3>1. call'[i] = [call[i] EXCEPT !.live = FALSE]  BY <1>1, <2>3
    <3>2. call'[i] \in PageCall /\ call'[i].live = FALSE /\ call'[i].what = call[i].what /\ call'[i].loop = call[i].loop
      BY <2>1, <3>1 DEF PageCall
    <3> QED  BY <1>1, <2>1, <3>2 DEF PageCallFits
  <2> QED  BY <2>2, <2>3
<1>3. Page!Doomed \subseteq Loops  BY FlushedFits
<1>4. PageTyped'
  <2>1. call' \in [Calls -> PageCall]  BY <1>1, <1>2
  <2>2. abandoned' \subseteq Loops  BY <1>0, <1>1, <1>3 DEF PageTyped
  <2> QED  BY <1>0, <1>1, <2>1, <2>2 DEF PageTyped, LoopOrNobody
<1>5. DeletesAreMeant'
  <2>1. Page!Doomed' = {}  BY <1>1 DEF Page!Doomed
  <2> QED  BY <1>0, <1>1, <2>1 DEF DeletesAreMeant, Page!DeletesAreMeant
<1>6. WindowFits'  BY <1>1 DEF WindowFits
<1>7. \A i \in Calls : PageCallFits(call[i], page, sent)'  BY <1>2
<1> QED  BY <1>1, <1>4, <1>5, <1>6, <1>7 DEF PageInv

(* The delete is armed for the page shown, or taken back. *)
LEMMA ArmKeeps == ASSUME PageInv, Page!Arm \/ Page!Undo PROVE PageInv'
<1>0. PageTyped /\ DeletesAreMeant /\ WindowFits  BY DEF PageInv
<1>1. UNCHANGED <<page, detail, editing, rows, call, sent, abandoned>>  BY DEF Page!Arm, Page!Undo
<1>2. CASE Page!Arm
  <2>1. /\ del' = page /\ armed' = TRUE /\ meant' = meant \cup {page} /\ page \notin meant /\ del = Nobody
        /\ page # Nobody
    BY <1>0, <1>2 DEF Page!Arm, PageInv, WindowFits
  <2>2. page \in Loops  BY <1>0, <2>1 DEF PageTyped, LoopOrNobody
  <2>3. page \notin sent \cup abandoned  BY <1>0, <2>1 DEF DeletesAreMeant, Page!DeletesAreMeant
  <2>4. PageTyped'  BY <1>0, <1>1, <2>1, <2>2 DEF PageTyped
  <2>5. WindowFits'  BY <1>1, <2>1, <2>3 DEF WindowFits
  <2>6. DeletesAreMeant'
    <3>1. Page!Doomed = {} /\ Page!Doomed' = {page}  BY <2>1 DEF Page!Doomed
    <3> QED  BY <1>0, <1>1, <2>1, <3>1 DEF DeletesAreMeant, Page!DeletesAreMeant
  <2> QED  BY <1>1, <2>4, <2>5, <2>6 DEF PageInv, PageCallFits
<1>3. CASE Page!Undo
  <2>1. del' = Nobody /\ armed' = FALSE /\ meant' = meant \ {del} /\ del # Nobody /\ del \notin sent \cup abandoned
    BY <1>0, <1>3 DEF Page!Undo, WindowFits
  <2>2. PageTyped'  BY <1>0, <1>1, <2>1 DEF PageTyped, LoopOrNobody
  <2>3. WindowFits'  BY <2>1 DEF WindowFits
  <2>4. DeletesAreMeant'
    <3>1. Page!Doomed = {del} /\ Page!Doomed' = {}  BY <2>1 DEF Page!Doomed
    <3> QED  BY <1>0, <1>1, <2>1, <3>1 DEF DeletesAreMeant, Page!DeletesAreMeant
  <2> QED  BY <1>1, <2>2, <2>3, <2>4 DEF PageInv, PageCallFits
<1> QED  BY <1>2, <1>3

(* A step that arms and commits nothing. *)
LEMMA CalmPageKeeps ==
  ASSUME PageInv, UNCHANGED <<page, del, armed, rows, meant, sent, abandoned>>,
         detail' # Nobody \/ editing' => page # Nobody,
         call' \in [Calls -> PageCall], \A i \in Calls : PageCallFits(call'[i], page, sent)
  PROVE  PageInv'
<1>0. PageTyped /\ DeletesAreMeant /\ WindowFits  BY DEF PageInv
<1>1. PageTyped' /\ WindowFits'  BY <1>0 DEF PageTyped, WindowFits
<1>2. DeletesAreMeant'  BY <1>0 DEF DeletesAreMeant, Page!DeletesAreMeant, Page!Doomed
<1>3. \A i \in Calls : PageCallFits(call[i], page, sent)'  OBVIOUS
<1> QED  BY <1>1, <1>2, <1>3 DEF PageInv

LEMMA PageSendKeeps ==
  ASSUME PageInv, NEW what \in {"load", "act", "save"}, page # Nobody, Page!Send(what, page),
         UNCHANGED <<page, detail, editing, del, armed, rows, meant, sent, abandoned>>
  PROVE  PageInv'
<1>1. page \in Loops /\ call \in [Calls -> PageCall] /\ \A i \in Calls : PageCallFits(call[i], page, sent)
  BY DEF PageInv, PageTyped, LoopOrNobody
<1>2. call' = Page!Put(call, what, page)  BY DEF Page!Send
<1>3. call' \in [Calls -> PageCall] /\ \A i \in Calls : PageCallFits(call'[i], page, sent)  BY <1>1, <1>2, PutFits
<1> QED  BY <1>3, CalmPageKeeps

LEMMA ButtonsKeep ==
  ASSUME PageInv, Page!Poll \/ Page!OpenForm \/ Page!CloseForm \/ Page!Save \/ Page!Act
  PROVE  PageInv'
<1>1. detail # Nobody \/ editing => page # Nobody  BY DEF PageInv
<1>2. ASSUME UNCHANGED <<page, del, armed, rows, meant, sent, abandoned>>, UNCHANGED call,
             detail' # Nobody \/ editing' => page # Nobody
      PROVE  PageInv'
  BY <1>2, CalmPageKeeps DEF PageInv, PageTyped
<1>3. CASE Page!Poll
  <2>1. page # Nobody /\ Page!Send("load", page) /\ UNCHANGED <<page, detail, editing, del, armed, rows, meant, sent, abandoned>>
    BY <1>3 DEF Page!Poll, Page!Shown, Page!history
  <2> QED  BY <2>1, PageSendKeeps
<1>4. CASE Page!Save
  <2>1. page # Nobody /\ Page!Send("save", page) /\ UNCHANGED <<page, detail, editing, del, armed, rows, meant, sent, abandoned>>
    BY <1>1, <1>4 DEF Page!Save, Page!history
  <2> QED  BY <2>1, PageSendKeeps
<1>5. CASE Page!Act
  <2>1. page # Nobody /\ Page!Send("act", page) /\ UNCHANGED <<page, detail, editing, del, armed, rows, meant, sent, abandoned>>
    BY <1>1, <1>5 DEF Page!Act, Page!history
  <2> QED  BY <2>1, PageSendKeeps
<1>6. CASE Page!OpenForm
  <2>1. /\ UNCHANGED <<page, del, armed, rows, meant, sent, abandoned>> /\ UNCHANGED call
        /\ page # Nobody
    BY <1>1, <1>6 DEF Page!OpenForm, Page!history
  <2> QED  BY <1>2, <2>1
<1>7. CASE Page!CloseForm
  <2>1. /\ UNCHANGED <<page, del, armed, rows, meant, sent, abandoned>> /\ UNCHANGED call
        /\ page # Nobody
    BY <1>1, <1>7 DEF Page!CloseForm, Page!history
  <2> QED  BY <1>2, <2>1
<1> QED  BY <1>3, <1>4, <1>5, <1>6, <1>7

(* The server: only what was committed is deleted. *)
LEMMA PageServeKeeps == ASSUME PageInv, NEW i \in Calls, Page!Serve(i) PROVE PageInv'
<1>0. /\ PageTyped /\ DeletesAreMeant /\ WindowFits /\ call[i] \in PageCall /\ PageCallFits(call[i], page, sent)
      /\ call \in [Calls -> PageCall]
  BY DEF PageInv, PageTyped
<1> DEFINE answer == IF call[i].loop \in rows THEN "ok" ELSE "error"
           r == [call[i] EXCEPT !.at = answer]
<1>1. call' = [call EXCEPT ![i] = r]  BY DEF Page!Serve
<1>2. /\ UNCHANGED <<page, detail, editing, del, armed, meant, sent, abandoned>>
      /\ rows' = IF call[i].what = "delete" THEN rows \ {call[i].loop} ELSE rows
  BY DEF Page!Serve, Page!history
<1>3. answer \in {"sent", "ok", "error", "free"}  OBVIOUS
<1> HIDE DEF answer
<1>4. r \in PageCall /\ r.what = call[i].what /\ r.loop = call[i].loop /\ r.live = call[i].live
  BY <1>0, <1>3 DEF PageCall
<1>5. PageCallFits(r, page, sent)  BY <1>0, <1>4 DEF PageCallFits
<1> HIDE DEF r
<1>6. PageTyped'  BY <1>0, <1>1, <1>2, <1>4 DEF PageTyped
<1>7. rows' \cup sent' = Loops
  BY <1>0, <1>2 DEF PageCallFits, DeletesAreMeant, Page!DeletesAreMeant, PageTyped
<1>8. DeletesAreMeant'  BY <1>0, <1>2, <1>7 DEF DeletesAreMeant, Page!DeletesAreMeant, Page!Doomed
<1>9. \A j \in Calls : PageCallFits(call[j], page, sent)'
  <2>1. \A j \in Calls : PageCallFits(call'[j], page, sent)  BY <1>0, <1>1, <1>5 DEF PageInv
  <2> QED  BY <1>2, <2>1
<1> QED  BY <1>0, <1>2, <1>6, <1>8, <1>9 DEF PageInv, WindowFits

LEMMA AnswersKeep ==
  ASSUME PageInv, NEW i \in Calls, Page!Loaded(i) \/ Page!Acted(i) \/ Page!Drop(i)
  PROVE  PageInv'
<1>0. /\ call \in [Calls -> PageCall] /\ call[i] \in PageCall /\ PageCallFits(call[i], page, sent)
      /\ \A j \in Calls : PageCallFits(call[j], page, sent)
      /\ detail # Nobody \/ editing => page # Nobody
  BY DEF PageInv, PageTyped
<1>1. UNCHANGED <<page, del, armed, rows, meant, sent, abandoned>>
  BY DEF Page!Loaded, Page!Acted, Page!Drop, Page!history
<1>2. ASSUME NEW r \in PageCall, call' = [call EXCEPT ![i] = r], PageCallFits(r, page, sent),
             detail' # Nobody \/ editing' => page # Nobody
      PROVE  PageInv'
  <2>1. call' \in [Calls -> PageCall] /\ \A j \in Calls : PageCallFits(call'[j], page, sent)  BY <1>0, <1>2
  <2> QED  BY <1>1, <1>2, <2>1, CalmPageKeeps
<1>3. Page!NoCall \in PageCall /\ PageCallFits(Page!NoCall, page, sent)
  <2>1. Nobody \in LoopOrNobody  BY DEF LoopOrNobody
  <2> QED  BY <2>1 DEF PageCall, Page!NoCall, PageCallFits
<1>4. CASE Page!Loaded(i)
  <2>1. call[i].what = "load" /\ call[i].live /\ call' = [call EXCEPT ![i] = Page!NoCall] /\ editing' = editing
    BY <1>4 DEF Page!Loaded, Page!Free
  <2>2. page # Nobody  BY <1>0, <2>1 DEF PageCallFits
  <2> QED  BY <1>2, <1>3, <2>1, <2>2
<1>5. CASE Page!Drop(i)
  <2>1. call' = [call EXCEPT ![i] = Page!NoCall] /\ UNCHANGED <<detail, editing>>
    BY <1>5 DEF Page!Drop, Page!Free
  <2> QED  BY <1>0, <1>2, <1>3, <2>1
<1>6. CASE Page!Acted(i)
  <2>1. /\ call[i].what \in {"act", "save"} /\ call[i].live
        /\ IF call[i].at = "ok" THEN call' = [call EXCEPT ![i].what = "load", ![i].at = "sent"]
                                ELSE call' = [call EXCEPT ![i] = Page!NoCall]
    BY <1>6 DEF Page!Acted, Page!Free
  <2>2. page # Nobody  BY <1>0, <2>1 DEF PageCallFits
  <2>3. CASE call[i].at # "ok"  BY <1>2, <1>3, <2>1, <2>2, <2>3
  <2>4. CASE call[i].at = "ok"
    <3> DEFINE r == [call[i] EXCEPT !.what = "load", !.at = "sent"]
    <3>1. call' = [call EXCEPT ![i] = r]  BY <1>0, <2>1, <2>4
    <3>2. r \in PageCall /\ r.what = "load" /\ r.loop = call[i].loop  BY <1>0 DEF PageCall
    <3> HIDE DEF r
    <3>3. PageCallFits(r, page, sent)  BY <2>2, <3>2 DEF PageCallFits
    <3> QED  BY <1>2, <2>2, <3>1, <3>2, <3>3
  <2> QED  BY <2>3, <2>4
<1> QED  BY <1>4, <1>5, <1>6

LEMMA PageStep == ASSUME PageInv, Page!Next PROVE PageInv'
<1>1. ASSUME NEW l \in Loops \cup {Nobody}, Page!Visit(l) PROVE PageInv'
  BY <1>1, MoveKeeps DEF Page!Visit, LoopOrNobody
<1>2. CASE Page!Expire
  <2>1. Page!Move(Nobody) /\ UNCHANGED <<rows, meant, abandoned>>  BY <1>2 DEF Page!Expire
  <2>2. Nobody \in LoopOrNobody  BY DEF LoopOrNobody
  <2> QED  BY <2>1, <2>2, MoveKeeps
<1>3. ASSUME NEW i \in Calls, Page!Serve(i) \/ Page!Receive(i) \/ Page!Drop(i) PROVE PageInv'
  BY <1>3, PageServeKeeps, AnswersKeep, DeletedKeeps DEF Page!Receive
<1> QED  BY <1>1, <1>2, <1>3, CloseTabKeeps, ButtonsKeep, ArmKeeps DEF Page!Next

(* useDeferredDelete: for any loops and requests in flight, the deletes that were committed are those that were *)
(* armed and not undone, each for the loop it was armed for, but for the one in its window and those that a     *)
(* closed tab took with it; and no loop goes that was not committed.                                            *)
THEOREM DeletesAreMeantHolds == Page!Spec => []DeletesAreMeant
<1>1. PageInv /\ [Page!Next]_(Page!vars) => PageInv'
  <2>1. ASSUME PageInv, UNCHANGED Page!vars PROVE PageInv'
    <3>1. UNCHANGED <<page, del, armed, rows, meant, sent, abandoned, detail, editing, call>>
      BY <2>1 DEF Page!vars, Page!history
    <3> QED  BY <2>1, <3>1, CalmPageKeeps DEF PageInv, PageTyped
  <2> QED  BY <2>1, PageStep
<1>2. PageInv => DeletesAreMeant  BY DEF PageInv
<1> QED  BY <1>1, <1>2, PageStart, PTL DEF Page!Spec

(***************************************************************************)
(* RunPage.                                                                *)
(***************************************************************************)
LoopKnown == Loops \cup {Nobody}
RunRow == [there : BOOLEAN, phase : {"pending", "running", "over"}, trace : BOOLEAN, snap : BOOLEAN,
           due : BOOLEAN, owed : BOOLEAN, late : BOOLEAN, depth : Nat]
RunCopy == [phase : {"none", "pending", "running", "over"}, trace : BOOLEAN]
RunDetail == [of : LoopKnown, copy : RunCopy, back : Nat]
RunCalls == [kind : {"none", "load", "poll", "stop"}, of : LoopKnown, at : {"free", "sent", "back"},
             ok : BOOLEAN, got : RunDetail]

RunTyped ==
  /\ runRow \in [Loops -> RunRow] /\ viewed \in LoopKnown
  /\ runDetail \in RunDetail /\ older \in RunCopy
  /\ changes \in {"off", "asked", "no", "yes"} /\ trace \in {"off", "asked", "error", "shown"}
  /\ runCall \in [Reqs -> RunCalls]

(* A copy that says over is of a run that is, and has its trace, unless the record was completed since. *)
OverFits(c, l) ==
  c.phase = "over" =>
    /\ l \in Loops
    /\ runRow[l].phase = "over" /\ (runRow[l].late \/ c.trace = runRow[l].trace)
RunCallFits(c) ==
  /\ c.kind # "none" => c.of \in Loops /\ viewed \in Loops
  /\ OverFits(c.got.copy, c.got.of)

(* The diff is there, or was read when there was no snapshot and none to come, or was not read. *)
DiffFits ==
  changes # "off" =>
    /\ viewed \in Loops /\ runRow[viewed].phase = "over"
    /\ \/ changes \in {"asked", "yes"} \/ unread \/ ~runRow[viewed].there
       \/ ~runRow[viewed].due /\ ~runRow[viewed].owed /\ ~runRow[viewed].snap

(* What the body asks for: the diff of a run that is over, the transcript of one that has a session. *)
BodyAsks ==
  OneRun!Body(runDetail, err, OneRun!Shown) =>
    /\ OneRun!Shown.phase = "over" => changes # "off"
    /\ OneRun!Shown.trace => trace # "off"

RunInv ==
  /\ RunTyped
  /\ err \/ search.on => viewed \in Loops
  /\ \A i \in Reqs : RunCallFits(runCall[i])
  /\ OverFits(runDetail.copy, runDetail.of) /\ OverFits(older, viewed)
  /\ BodyAsks
  /\ DiffFits

LEMMA RunBlanks ==
  /\ OneRun!NoCopy \in RunCopy /\ OneRun!NoCopy.phase = "none" /\ OneRun!NoCopy.trace = FALSE
  /\ OneRun!NoDetail \in RunDetail /\ OneRun!NoDetail.copy = OneRun!NoCopy
  /\ OneRun!NoCall \in RunCalls /\ OneRun!NoCall.kind = "none" /\ OneRun!NoCall.got = OneRun!NoDetail
  /\ OneRun!NoSearch.on = FALSE
<1>1. Nobody \in LoopKnown  BY DEF LoopKnown
<1>2. OneRun!NoCopy \in RunCopy /\ OneRun!NoCopy.phase = "none" /\ OneRun!NoCopy.trace = FALSE
  BY DEF OneRun!NoCopy, RunCopy
<1>3. OneRun!NoDetail \in RunDetail /\ OneRun!NoDetail.copy = OneRun!NoCopy
  BY <1>1, <1>2 DEF OneRun!NoDetail, RunDetail
<1>4. OneRun!NoCall \in RunCalls /\ OneRun!NoCall.kind = "none" /\ OneRun!NoCall.got = OneRun!NoDetail
  BY <1>1, <1>3 DEF OneRun!NoCall, RunCalls
<1> QED  BY <1>2, <1>3, <1>4 DEF OneRun!NoSearch

LEMMA BlankFits == RunCallFits(OneRun!NoCall) /\ OverFits(OneRun!NoCopy, viewed)
BY RunBlanks DEF RunCallFits, OverFits

LEMMA RunStart == OneRun!Init => RunInv
<1> SUFFICES ASSUME OneRun!Init PROVE RunInv
  OBVIOUS
<1>1. /\ viewed = Nobody /\ runDetail = OneRun!NoDetail /\ older = OneRun!NoCopy /\ search = OneRun!NoSearch
      /\ err = FALSE /\ changes = "off" /\ trace = "off" /\ runCall = [i \in Reqs |-> OneRun!NoCall]
  BY DEF OneRun!Init
<1>2. runRow \in [Loops -> RunRow]
  <2>1. 0 \in Nat  OBVIOUS
  <2> QED  BY <2>1 DEF OneRun!Init, RunRow
<1>3. RunTyped  BY <1>1, <1>2, RunBlanks DEF RunTyped, LoopKnown
<1>4. \A i \in Reqs : RunCallFits(runCall[i])  BY <1>1, BlankFits
<1>5. OverFits(runDetail.copy, runDetail.of) /\ OverFits(older, viewed)  BY <1>1, RunBlanks DEF OverFits
<1>6. BodyAsks  BY <1>1 DEF BodyAsks, OneRun!Body
<1> QED  BY <1>1, <1>3, <1>4, <1>5, <1>6, RunBlanks DEF RunInv, DiffFits

(***************************************************************************)
(* The gateway.  What is over stays over; it is completed or it stays.     *)
(***************************************************************************)
Grows(r, s) ==
  r.phase = "over" =>
    /\ s.phase = "over" /\ (r.late => s.late) /\ (s.there => r.there)
    /\ s.late \/ s.trace = r.trace
    /\ ~r.due /\ ~r.owed => ~s.due /\ ~s.owed /\ s.snap = r.snap

LEMMA GatewayKeeps ==
  ASSUME RunInv, runRow' \in [Loops -> RunRow], \A l \in Loops : Grows(runRow[l], runRow'[l]),
         UNCHANGED <<viewed, runDetail, older, search, err, changes, trace, unread>>,
         runCall' \in [Reqs -> RunCalls],
         \A i \in Reqs : runCall'[i] # runCall[i] => RunCallFits(runCall'[i])
  PROVE  RunInv'
<1>0. RunTyped /\ DiffFits  BY DEF RunInv
<1>1. RunTyped'  BY <1>0 DEF RunTyped
<1>2. ASSUME NEW c, NEW l, OverFits(c, l)
      PROVE  c.phase = "over" =>
               l \in Loops /\ runRow'[l].phase = "over" /\ (runRow'[l].late \/ c.trace = runRow'[l].trace)
  BY <1>2 DEF OverFits, Grows
<1>3. \A i \in Reqs : RunCallFits(runCall'[i])  BY DEF RunInv
<1>4. \A i \in Reqs : RunCallFits(runCall[i])'
  <2> SUFFICES ASSUME NEW i \in Reqs PROVE RunCallFits(runCall[i])'
    OBVIOUS
  <2>1. RunCallFits(runCall'[i])  BY <1>3
  <2> QED  BY <1>2, <2>1 DEF RunCallFits, OverFits
<1>5. OverFits(runDetail.copy, runDetail.of)' /\ OverFits(older, viewed)'
  BY <1>2 DEF RunInv, OverFits
<1>6. DiffFits'  BY <1>0 DEF DiffFits, Grows
<1>7. BodyAsks'
  <2>1. OneRun!Shown' = OneRun!Shown  BY DEF OneRun!Shown
  <2> QED  BY <2>1 DEF RunInv, BodyAsks, OneRun!Body
<1> QED  BY <1>1, <1>4, <1>5, <1>6, <1>7 DEF RunInv

LEMMA WriteKeeps ==
  ASSUME RunInv, NEW l \in Loops, NEW r \in RunRow, OneRun!Write(l, r), Grows(runRow[l], r)
  PROVE  RunInv'
<1>1. /\ runRow' = [runRow EXCEPT ![l] = r]
      /\ UNCHANGED <<viewed, runDetail, older, search, err, changes, trace, unread, runCall>>
  BY DEF OneRun!Write, OneRun!view, OneRun!history
<1>2. runRow \in [Loops -> RunRow] /\ runCall \in [Reqs -> RunCalls]  BY DEF RunInv, RunTyped
<1>3. runRow' \in [Loops -> RunRow] /\ \A x \in Loops : Grows(runRow[x], runRow'[x])  BY <1>1, <1>2 DEF Grows
<1> QED  BY <1>1, <1>2, <1>3, GatewayKeeps

LEMMA RecordKeeps ==
  ASSUME RunInv, NEW l \in Loops,
         \/ OneRun!Claim(l) \/ OneRun!Report(l) \/ OneRun!Finish(l) \/ OneRun!Reclaim(l) \/ OneRun!LateReport(l)
         \/ OneRun!Snapshot(l) \/ OneRun!NewerRuns(l) \/ OneRun!DeleteLoop(l)
  PROVE  RunInv'
<1>0. runRow[l] \in RunRow  BY DEF RunInv, RunTyped
<1>1. CASE OneRun!Claim(l)
  <2> DEFINE r == [runRow[l] EXCEPT !.phase = "running"]
  <2>1. OneRun!Write(l, r) /\ runRow[l].phase = "pending"  BY <1>1 DEF OneRun!Claim
  <2>2. r \in RunRow /\ Grows(runRow[l], r)  BY <1>0, <2>1 DEF RunRow, Grows
  <2> HIDE DEF r
  <2> QED  BY <2>1, <2>2, WriteKeeps
<1>2. CASE OneRun!Report(l)
  <2> DEFINE r == [runRow[l] EXCEPT !.phase = "over", !.trace = TRUE, !.due = TRUE]
  <2>1. OneRun!Write(l, r) /\ runRow[l].phase = "running"  BY <1>2 DEF OneRun!Report
  <2>2. r \in RunRow /\ Grows(runRow[l], r)  BY <1>0, <2>1 DEF RunRow, Grows
  <2> HIDE DEF r
  <2> QED  BY <2>1, <2>2, WriteKeeps
<1>3. CASE OneRun!Finish(l)
  <2> DEFINE r == [runRow[l] EXCEPT !.phase = "over", !.due = TRUE, !.owed = TRUE]
  <2>1. OneRun!Write(l, r) /\ runRow[l].phase = "running"  BY <1>3 DEF OneRun!Finish
  <2>2. r \in RunRow /\ Grows(runRow[l], r)  BY <1>0, <2>1 DEF RunRow, Grows
  <2> HIDE DEF r
  <2> QED  BY <2>1, <2>2, WriteKeeps
<1>4. CASE OneRun!Reclaim(l)
  <2> DEFINE r == [runRow[l] EXCEPT !.phase = "over", !.owed = TRUE]
  <2>1. OneRun!Write(l, r) /\ runRow[l].phase = "running"  BY <1>4 DEF OneRun!Reclaim
  <2>2. r \in RunRow /\ Grows(runRow[l], r)  BY <1>0, <2>1 DEF RunRow, Grows
  <2> HIDE DEF r
  <2> QED  BY <2>1, <2>2, WriteKeeps
<1>5. CASE OneRun!LateReport(l)
  <2>1. PICK s \in BOOLEAN :
          OneRun!Write(l, [runRow[l] EXCEPT !.owed = FALSE, !.trace = TRUE, !.late = TRUE, !.due = @ \/ s])
    BY <1>5 DEF OneRun!LateReport
  <2> DEFINE u == runRow[l].due \/ s
             r == [runRow[l] EXCEPT !.owed = FALSE, !.trace = TRUE, !.late = TRUE, !.due = u]
  <2>2. OneRun!Write(l, r)  BY <2>1
  <2>3. u \in BOOLEAN  OBVIOUS
  <2> HIDE DEF u
  <2>4. r \in RunRow /\ Grows(runRow[l], r)
    <3>1. r \in RunRow /\ r.late /\ r.there = runRow[l].there /\ r.phase = runRow[l].phase  BY <1>0, <2>3 DEF RunRow
    <3>2. runRow[l].owed  BY <1>5 DEF OneRun!LateReport
    <3> QED  BY <3>1, <3>2 DEF Grows
  <2> HIDE DEF r
  <2> QED  BY <2>2, <2>4, WriteKeeps
<1>6. CASE OneRun!Snapshot(l)
  <2>1. PICK s \in {TRUE, runRow[l].snap} : OneRun!Write(l, [runRow[l] EXCEPT !.due = FALSE, !.snap = s])
    BY <1>6 DEF OneRun!Snapshot
  <2> DEFINE r == [runRow[l] EXCEPT !.due = FALSE, !.snap = s]
  <2>2. OneRun!Write(l, r) /\ runRow[l].due = TRUE  BY <1>0, <1>6, <2>1 DEF OneRun!Snapshot, RunRow
  <2>3. s \in BOOLEAN  BY <1>0 DEF RunRow
  <2>4. r \in RunRow /\ Grows(runRow[l], r)
    <3>1. r \in RunRow /\ r.late = runRow[l].late /\ r.there = runRow[l].there /\ r.phase = runRow[l].phase
          /\ r.trace = runRow[l].trace
      BY <1>0, <2>3 DEF RunRow
    <3> QED  BY <2>2, <3>1 DEF Grows
  <2> HIDE DEF r
  <2> QED  BY <2>2, <2>4, WriteKeeps
<1>7. CASE OneRun!NewerRuns(l)
  <2> DEFINE n == runRow[l].depth + 1
             r == [runRow[l] EXCEPT !.depth = n]
  <2>1. OneRun!Write(l, r)  BY <1>7 DEF OneRun!NewerRuns
  <2>2. n \in Nat  BY <1>0 DEF RunRow
  <2> HIDE DEF n
  <2>3. r \in RunRow /\ Grows(runRow[l], r)  BY <1>0, <2>2 DEF RunRow, Grows
  <2> HIDE DEF r
  <2> QED  BY <2>1, <2>3, WriteKeeps
<1>8. CASE OneRun!DeleteLoop(l)
  <2> DEFINE r == [runRow[l] EXCEPT !.there = FALSE, !.owed = FALSE, !.due = FALSE]
  <2>1. OneRun!Write(l, r)  BY <1>8 DEF OneRun!DeleteLoop
  <2>2. r \in RunRow /\ Grows(runRow[l], r)
    <3>1. r \in RunRow /\ r.late = runRow[l].late /\ ~r.there /\ r.phase = runRow[l].phase
          /\ r.trace = runRow[l].trace /\ r.snap = runRow[l].snap /\ ~r.due /\ ~r.owed
      BY <1>0 DEF RunRow
    <3> QED  BY <3>1 DEF Grows
  <2> HIDE DEF r
  <2> QED  BY <2>1, <2>2, WriteKeeps
<1> QED  BY <1>1, <1>2, <1>3, <1>4, <1>5, <1>6, <1>7, <1>8

(***************************************************************************)
(* The page.                                                               *)
(***************************************************************************)
LEMMA AskFits ==
  ASSUME NEW kind \in {"load", "poll", "stop"}, NEW l \in Loops, viewed' \in Loops
  PROVE  OneRun!Ask(kind, l) \in RunCalls /\ OneRun!Ask(kind, l).kind # "none" /\ OneRun!Ask(kind, l).of = l
         /\ OneRun!Ask(kind, l).got = OneRun!NoDetail
<1>1. l \in LoopKnown  BY DEF LoopKnown
<1> QED  BY <1>1, RunBlanks DEF OneRun!Ask, RunCalls

(* Nothing changes but the requests. *)
LEMMA RunCallsKeep ==
  ASSUME RunInv, UNCHANGED <<runRow, viewed, runDetail, older, search, err, changes, trace, unread>>,
         runCall' \in [Reqs -> RunCalls],
         \A i \in Reqs : runCall'[i] # runCall[i] => RunCallFits(runCall'[i])
  PROVE  RunInv'
<1>1. runRow' \in [Loops -> RunRow] /\ \A l \in Loops : Grows(runRow[l], runRow'[l])  BY DEF RunInv, RunTyped, Grows
<1> QED  BY <1>1, GatewayKeeps

LEMMA RunSendKeeps ==
  ASSUME RunInv, NEW kind \in {"load", "poll", "stop"}, viewed \in Loops, OneRun!Send(kind, viewed),
         UNCHANGED <<runRow, viewed, runDetail, older, search, err, changes, trace, unread>>
  PROVE  RunInv'
<1>1. PICK i \in Reqs : runCall' = [runCall EXCEPT ![i] = OneRun!Ask(kind, viewed)]
  BY DEF OneRun!Send, OneRun!Unused
<1>2. OneRun!Ask(kind, viewed) \in RunCalls /\ RunCallFits(OneRun!Ask(kind, viewed))
  BY AskFits, RunBlanks DEF RunCallFits, OverFits
<1>3. runCall \in [Reqs -> RunCalls]  BY DEF RunInv, RunTyped
<1> QED  BY <1>1, <1>2, <1>3, RunCallsKeep

(* What is rendered is a copy that fits, and the diff of a run first shown as over is asked for. *)
LEMMA RenderKeeps ==
  ASSUME RunInv, viewed \in Loops, NEW x \in RunDetail, NEW o \in RunCopy, NEW dn, NEW e, NEW again,
         OneRun!Render(x, o, dn, e, again), OverFits(x.copy, x.of), OverFits(o, viewed),
         UNCHANGED <<runRow, viewed, unread>>,
         runCall' \in [Reqs -> RunCalls],
         \A i \in Reqs : runCall'[i] # runCall[i] => RunCallFits(runCall'[i])
  PROVE  RunInv'
<1>0. RunTyped /\ DiffFits  BY DEF RunInv
<1> DEFINE was == IF OneRun!Body(runDetail, err, OneRun!Shown) THEN OneRun!Shown ELSE OneRun!NoCopy
           now == OneRun!Found(viewed, x, o)
           new == IF OneRun!Body(x, e, now) THEN now ELSE OneRun!NoCopy
<1>1. /\ runDetail' = x /\ older' = o /\ err' = e /\ changes' = OneRun!ChangesFor(was, new)
      /\ trace' = OneRun!TraceFor(was, new)
  BY DEF OneRun!Render
<1>2. OneRun!Shown' = now  BY <1>1 DEF OneRun!Shown, OneRun!Found
<1>3. OverFits(now, viewed)  BY DEF OneRun!Found, OverFits
<1>4. new.phase = "over" => now.phase = "over"  BY RunBlanks
<1>5. (was.phase = "over" => changes # "off") /\ (was.trace => trace # "off")  BY RunBlanks DEF RunInv, BodyAsks
<1>6. OneRun!Body(x, e, now) => new = now  OBVIOUS
<1> HIDE DEF was, now, new
<1>7. changes' \in {"off", "asked", changes} /\ (new.phase # "over" => changes' = "off")
      /\ (new.phase = "over" => changes' # "off")
  BY <1>1, <1>5 DEF OneRun!ChangesFor
<1>13. trace' \in {"off", "asked", trace} /\ (new.trace => trace' # "off")  BY <1>1, <1>5 DEF OneRun!TraceFor
<1>8. RunTyped'  BY <1>13, <1>0, <1>1, <1>7 DEF RunTyped
<1>9. \A i \in Reqs : RunCallFits(runCall[i])'
  <2>1. \A i \in Reqs : RunCallFits(runCall'[i])  BY DEF RunInv
  <2> QED  BY <2>1 DEF RunCallFits, OverFits
<1>10. OverFits(runDetail.copy, runDetail.of)' /\ OverFits(older, viewed)'  BY <1>1 DEF OverFits
<1>11. BodyAsks'
  <2>1. OneRun!Body(runDetail, err, OneRun!Shown)' => new = now  BY <1>1, <1>2, <1>6 DEF OneRun!Body
  <2> QED  BY <1>2, <1>7, <1>13, <2>1 DEF BodyAsks
<1>12. DiffFits'
  <2>1. CASE changes' = "off"  BY <2>1 DEF DiffFits
  <2>2. CASE changes' # "off"
    <3>1. runRow[viewed].phase = "over"  BY <1>3, <1>4, <1>7, <2>2 DEF OverFits
    <3>2. changes' \in {"asked", changes}  BY <1>7, <2>2
    <3> QED  BY <1>0, <2>2, <3>1, <3>2 DEF DiffFits
  <2> QED  BY <2>1, <2>2
<1> QED  BY <1>8, <1>9, <1>10, <1>11, <1>12 DEF RunInv

LEMMA RunGoKeeps == ASSUME RunInv, (\E l \in Loops : OneRun!Go(l)) \/ OneRun!Leave PROVE RunInv'
<1>0. RunTyped  BY DEF RunInv
<1>1. /\ runDetail' = OneRun!NoDetail /\ older' = OneRun!NoCopy /\ search' = OneRun!NoSearch /\ err' = FALSE
      /\ changes' = "off" /\ trace' = "off" /\ UNCHANGED runRow
  BY DEF OneRun!Go, OneRun!Leave
<1>2. viewed' \in LoopKnown /\ runCall' \in [Reqs -> RunCalls] /\ \A i \in Reqs : RunCallFits(runCall[i])'
  <2>1. CASE OneRun!Leave
    <3>1. viewed' = Nobody /\ runCall' = [i \in Reqs |-> OneRun!NoCall]  BY <2>1 DEF OneRun!Leave
    <3>2. RunCallFits(OneRun!NoCall)'  BY RunBlanks DEF RunCallFits, OverFits
    <3> QED  BY <3>1, <3>2, RunBlanks DEF LoopKnown
  <2>2. ASSUME NEW l \in Loops, OneRun!Go(l) 
        PROVE  viewed' \in LoopKnown /\ runCall' \in [Reqs -> RunCalls] /\ \A i \in Reqs : RunCallFits(runCall[i])'
    <3>1. viewed' = l  BY <2>2 DEF OneRun!Go
    <3>2. PICK i \in Reqs : runCall' = [runCall EXCEPT ![i] = OneRun!Ask("load", l)]
      BY <2>2 DEF OneRun!Go, OneRun!Send, OneRun!Unused
    <3> DEFINE r == OneRun!Ask("load", l)
    <3>3. r \in RunCalls /\ r.kind # "none" /\ r.of = l /\ r.got = OneRun!NoDetail  BY <3>1, AskFits
    <3>4. runCall' = [runCall EXCEPT ![i] = r]  BY <3>2
    <3> HIDE DEF r
    <3>5. runCall' \in [Reqs -> RunCalls]  BY <1>0, <3>3, <3>4 DEF RunTyped
    <3>6. ASSUME NEW j \in Reqs PROVE RunCallFits(runCall[j])'
      <4>1. CASE j = i
        <5>1. runCall'[j] = r  BY <1>0, <3>4, <4>1 DEF RunTyped
        <5> QED  BY <3>1, <3>3, <5>1, RunBlanks DEF RunCallFits, OverFits
      <4>2. CASE j # i
        <5>1. runCall'[j] = runCall[j] /\ RunCallFits(runCall[j])  BY <1>0, <3>4, <4>2 DEF RunTyped, RunInv
        <5> QED  BY <1>1, <3>1, <5>1 DEF RunCallFits, OverFits
      <4> QED  BY <4>1, <4>2
    <3> QED  BY <3>1, <3>5, <3>6 DEF LoopKnown
  <2> QED  BY <2>1, <2>2
<1>3. RunTyped'  BY <1>0, <1>1, <1>2, RunBlanks DEF RunTyped
<1>4. OverFits(runDetail.copy, runDetail.of)' /\ OverFits(older, viewed)'  BY <1>1, RunBlanks DEF OverFits
<1>5. BodyAsks'  BY <1>1 DEF BodyAsks, OneRun!Body
<1> QED  BY <1>1, <1>2, <1>3, <1>4, <1>5, RunBlanks DEF RunInv, DiffFits

LEMMA ReadDetailKeeps == ASSUME RunInv, NEW i \in Reqs, OneRun!ReadDetail(i) PROVE RunInv'
<1>0. runCall \in [Reqs -> RunCalls] /\ runCall[i] \in RunCalls /\ RunCallFits(runCall[i]) /\ runRow \in [Loops -> RunRow]
  BY DEF RunInv, RunTyped
<1> DEFINE l == runCall[i].of
<1>1. /\ UNCHANGED <<runRow, viewed, runDetail, older, search, err, changes, trace, unread>>
      /\ runCall[i].kind \in {"load", "poll"}
  BY DEF OneRun!ReadDetail, OneRun!view, OneRun!history
<1>2. PICK yes \in {FALSE, runRow[l].there} :
        runCall' = [runCall EXCEPT ![i].at = "back", ![i].ok = yes,
                                   ![i].got = IF yes THEN OneRun!DetailOf(l) ELSE OneRun!NoDetail]
  BY DEF OneRun!ReadDetail
<1> DEFINE g == IF yes THEN OneRun!DetailOf(l) ELSE OneRun!NoDetail
           r == [runCall[i] EXCEPT !.at = "back", !.ok = yes, !.got = g]
<1>3. runCall' = [runCall EXCEPT ![i] = r]  BY <1>0, <1>2
<1>4. l \in Loops /\ runRow[l] \in RunRow /\ viewed \in Loops  BY <1>0, <1>1 DEF RunCallFits
<1>5. yes \in BOOLEAN  BY <1>4 DEF RunRow
<1>6. OneRun!DetailOf(l) \in RunDetail /\ OverFits(OneRun!DetailOf(l).copy, OneRun!DetailOf(l).of)
  <2> DEFINE c == IF runRow[l].depth = 0 THEN [phase |-> runRow[l].phase, trace |-> runRow[l].trace] ELSE OneRun!NoCopy
  <2>1. c \in RunCopy /\ OverFits(c, l)
    <3>1. CASE runRow[l].depth = 0
      <4>1. c = [phase |-> runRow[l].phase, trace |-> runRow[l].trace]  BY <3>1
      <4> QED  BY <1>4, <4>1 DEF RunRow, RunCopy, OverFits
    <3>2. CASE runRow[l].depth # 0  BY <3>2, RunBlanks DEF OverFits
    <3> QED  BY <3>1, <3>2
  <2>2. OneRun!DetailOf(l) = [of |-> l, back |-> runRow[l].depth, copy |-> c]  BY DEF OneRun!DetailOf
  <2> HIDE DEF c
  <2>3. l \in LoopKnown /\ runRow[l].depth \in Nat  BY <1>4 DEF LoopKnown, RunRow
  <2> HIDE DEF l
  <2> QED  BY <2>1, <2>2, <2>3 DEF RunDetail
<1>7. g \in RunDetail /\ OverFits(g.copy, g.of)  BY <1>6, RunBlanks DEF OverFits
<1> HIDE DEF g
<1>8. r \in RunCalls /\ r.kind = runCall[i].kind /\ r.of = runCall[i].of /\ r.got = g  BY <1>0, <1>5, <1>7 DEF RunCalls
<1>9. RunCallFits(r)  BY <1>0, <1>7, <1>8 DEF RunCallFits
<1> HIDE DEF r
<1>10. runCall' \in [Reqs -> RunCalls]  BY <1>0, <1>3, <1>8
<1> QED  BY <1>0, <1>1, <1>3, <1>9, <1>10, RunCallsKeep

LEMMA DetailAnswerKeeps == ASSUME RunInv, NEW i \in Reqs, OneRun!DetailAnswer(i) PROVE RunInv'
<1>0. /\ runCall \in [Reqs -> RunCalls] /\ runCall[i] \in RunCalls /\ RunCallFits(runCall[i])
      /\ runDetail \in RunDetail /\ older \in RunCopy
      /\ OverFits(runDetail.copy, runDetail.of) /\ OverFits(older, viewed)
  BY DEF RunInv, RunTyped
<1>1. /\ runCall' = [runCall EXCEPT ![i] = OneRun!NoCall] /\ UNCHANGED <<runRow, viewed, unread>>
      /\ runCall[i].kind \in {"load", "poll"}
  BY DEF OneRun!DetailAnswer
<1>2. viewed \in Loops  BY <1>0, <1>1 DEF RunCallFits
<1>3. runCall' \in [Reqs -> RunCalls] /\ \A j \in Reqs : runCall'[j] # runCall[j] => RunCallFits(runCall'[j])
  BY <1>0, <1>1, RunBlanks, BlankFits
<1>4. \/ OneRun!Render(runCall[i].got, older, done, err /\ runCall[i].kind = "poll", TRUE)
      \/ OneRun!Render(runDetail, older, done, TRUE, FALSE)
      \/ UNCHANGED <<runDetail, older, done, err, search, changes, trace>>
  BY DEF OneRun!DetailAnswer
<1>5. CASE OneRun!Render(runCall[i].got, older, done, err /\ runCall[i].kind = "poll", TRUE)
  <2> DEFINE x == runCall[i].got
             e == err /\ runCall[i].kind = "poll"
             again == TRUE
  <2>1. x \in RunDetail /\ OverFits(x.copy, x.of)  BY <1>0 DEF RunCalls, RunCallFits
  <2>2. OneRun!Render(x, older, done, e, again)  BY <1>5
  <2> HIDE DEF x, e, again
  <2> QED  BY <1>0, <1>1, <1>2, <1>3, <2>1, <2>2, RenderKeeps
<1>6. CASE OneRun!Render(runDetail, older, done, TRUE, FALSE)
  <2> DEFINE e == TRUE
             again == FALSE
  <2>2. OneRun!Render(runDetail, older, done, e, again)  BY <1>6
  <2> HIDE DEF e, again
  <2> QED  BY <1>0, <1>1, <1>2, <1>3, <2>2, RenderKeeps
<1>7. CASE UNCHANGED <<runDetail, older, done, err, search, changes, trace>>
  BY <1>1, <1>3, <1>7, RunCallsKeep
<1> QED  BY <1>4, <1>5, <1>6, <1>7

LEMMA PagingKeeps == ASSUME RunInv, OneRun!PageAnswer \/ OneRun!PageFails PROVE RunInv'
<1>0. /\ runCall \in [Reqs -> RunCalls] /\ runDetail \in RunDetail /\ older \in RunCopy
      /\ OverFits(runDetail.copy, runDetail.of) /\ OverFits(older, viewed) /\ runRow \in [Loops -> RunRow]
  BY DEF RunInv, RunTyped
<1>1. UNCHANGED <<runRow, viewed, runCall, unread>> /\ search.on
  BY DEF OneRun!PageAnswer, OneRun!PageFails, OneRun!history
<1>2. viewed \in Loops  BY <1>1 DEF RunInv
<1> DEFINE found == [phase |-> runRow[viewed].phase, trace |-> runRow[viewed].trace]
           last == TRUE
           again == FALSE
<1>3. \/ OneRun!Render(runDetail, older, last, err, again)
      \/ OneRun!Render(runDetail, found, last, err, again)
      \/ UNCHANGED <<runDetail, older, done, err, changes, trace>> 
  BY DEF OneRun!PageAnswer, OneRun!PageFails
<1>4. found \in RunCopy /\ OverFits(found, viewed)
  <2>1. runRow[viewed] \in RunRow  BY <1>0, <1>2
  <2> QED  BY <1>2, <2>1 DEF RunRow, RunCopy, OverFits
<1> HIDE DEF found, last, again
<1>5. runCall' \in [Reqs -> RunCalls] /\ \A j \in Reqs : runCall'[j] # runCall[j] => RunCallFits(runCall'[j])
  BY <1>0, <1>1
<1>6. CASE OneRun!Render(runDetail, older, last, err, again)  BY <1>0, <1>1, <1>2, <1>5, <1>6, RenderKeeps
<1>7. CASE OneRun!Render(runDetail, found, last, err, again)  BY <1>0, <1>1, <1>2, <1>4, <1>5, <1>7, RenderKeeps
<1>8. CASE UNCHANGED <<runDetail, older, done, err, changes, trace>>
  <2>1. RunTyped' /\ DiffFits'  BY <1>1, <1>8 DEF RunInv, RunTyped, DiffFits
  <2>2. \A i \in Reqs : RunCallFits(runCall[i])'  BY <1>1 DEF RunInv, RunCallFits, OverFits
  <2>3. OverFits(runDetail.copy, runDetail.of)' /\ OverFits(older, viewed)'  BY <1>0, <1>1, <1>8 DEF OverFits
  <2>4. OneRun!Shown' = OneRun!Shown  BY <1>1, <1>8 DEF OneRun!Shown
  <2>5. BodyAsks'  BY <1>8, <2>4 DEF RunInv, BodyAsks, OneRun!Body
  <2> QED  BY <1>1, <1>2, <2>1, <2>2, <2>3, <2>5 DEF RunInv
<1> QED  BY <1>3, <1>6, <1>7, <1>8

LEMMA AnswersOnceKeep == ASSUME RunInv, OneRun!ChangesAnswer \/ OneRun!TraceAnswer PROVE RunInv'
<1>0. RunTyped /\ DiffFits  BY DEF RunInv
<1>1. UNCHANGED <<runRow, viewed, runDetail, older, search, err, runCall>>
  BY DEF OneRun!ChangesAnswer, OneRun!TraceAnswer
<1>2. OneRun!Shown' = OneRun!Shown  BY <1>1 DEF OneRun!Shown
<1>3. \A i \in Reqs : RunCallFits(runCall[i])'  BY <1>1 DEF RunInv, RunCallFits, OverFits
<1>4. OverFits(runDetail.copy, runDetail.of)' /\ OverFits(older, viewed)'  BY <1>1 DEF RunInv, OverFits
<1>5. /\ trace' \in {"off", "asked", "error", "shown"} /\ (trace # "off" => trace' # "off")
      /\ changes' \in {"off", "asked", "no", "yes"} /\ (changes # "off" => changes' # "off")
  BY <1>0 DEF OneRun!ChangesAnswer, OneRun!TraceAnswer, RunTyped
<1>6. RunTyped' /\ BodyAsks'  BY <1>0, <1>1, <1>2, <1>5 DEF RunInv, RunTyped, BodyAsks, OneRun!Body
<1>7. DiffFits'
  <2>1. CASE OneRun!TraceAnswer
    <3>1. UNCHANGED <<changes, unread>>  BY <2>1 DEF OneRun!TraceAnswer, OneRun!history
    <3> QED  BY <1>0, <1>1, <3>1 DEF DiffFits
  <2>2. CASE OneRun!ChangesAnswer
    <3>1. viewed \in Loops /\ runRow[viewed].phase = "over" /\ runRow[viewed] \in RunRow
      BY <1>0, <2>2 DEF OneRun!ChangesAnswer, DiffFits, RunTyped
    <3>2. \/ /\ changes' = IF runRow[viewed].there /\ runRow[viewed].snap THEN "yes" ELSE "no"
             /\ unread' = (runRow[viewed].due \/ runRow[viewed].owed)
          \/ changes' = "no" /\ unread' = TRUE
      BY <2>2 DEF OneRun!ChangesAnswer
    <3>3. \/ changes' = "yes" \/ unread' \/ ~runRow[viewed].there
          \/ ~runRow[viewed].due /\ ~runRow[viewed].owed /\ ~runRow[viewed].snap
      BY <3>1, <3>2 DEF RunRow
    <3> QED  BY <1>1, <3>1, <3>3 DEF DiffFits
  <2> QED  BY <2>1, <2>2
<1> QED  BY <1>1, <1>3, <1>4, <1>6, <1>7 DEF RunInv

LEMMA RunButtonsKeep == ASSUME RunInv, OneRun!Poll \/ OneRun!Retry \/ OneRun!Stop PROVE RunInv'
<1>1. UNCHANGED <<runRow, viewed, runDetail, older, search, err, changes, trace, unread>>
  BY DEF OneRun!Poll, OneRun!Retry, OneRun!Stop, OneRun!view, OneRun!history
<1>2. viewed \in Loops  BY DEF RunInv, RunTyped, LoopKnown, OneRun!Poll, OneRun!Retry, OneRun!Stop
<1>3. PICK kind \in {"load", "poll", "stop"} : OneRun!Send(kind, viewed)
  BY DEF OneRun!Poll, OneRun!Retry, OneRun!Stop
<1> QED  BY <1>1, <1>2, <1>3, RunSendKeeps

LEMMA CancelRunKeeps == ASSUME RunInv, NEW i \in Reqs, OneRun!CancelRun(i) PROVE RunInv'
<1>0. runCall \in [Reqs -> RunCalls] /\ runCall[i] \in RunCalls /\ RunCallFits(runCall[i]) /\ runRow \in [Loops -> RunRow]
  BY DEF RunInv, RunTyped
<1>1. UNCHANGED <<viewed, runDetail, older, search, err, changes, trace, unread>> /\ runCall[i].kind = "stop"
  BY DEF OneRun!CancelRun, OneRun!view, OneRun!history
<1> DEFINE l == runCall[i].of
<1>2. l \in Loops /\ viewed \in Loops /\ runRow[l] \in RunRow  BY <1>0, <1>1 DEF RunCallFits
<1>3. CASE UNCHANGED runRow /\ runCall' = [runCall EXCEPT ![i] = OneRun!NoCall]
  BY <1>0, <1>1, <1>3, RunBlanks, BlankFits, RunCallsKeep
<1>4. CASE OneRun!Open(runRow[l]) /\ runRow' = [runRow EXCEPT ![l].phase = "over"]
           /\ runCall' = [runCall EXCEPT ![i] = OneRun!Ask("load", l)]
  <2> DEFINE r == [runRow[l] EXCEPT !.phase = "over"]
             c == OneRun!Ask("load", l)
  <2>1. runRow' = [runRow EXCEPT ![l] = r] /\ runCall' = [runCall EXCEPT ![i] = c]  BY <1>0, <1>2, <1>4
  <2>2. r \in RunRow  BY <1>2 DEF RunRow
  <2>3. runRow[l].phase # "over"  BY <1>4 DEF OneRun!Open
  <2>4. c \in RunCalls /\ c.kind # "none" /\ c.of = l /\ c.got = OneRun!NoDetail  BY <1>1, <1>2, AskFits
  <2>5. RunCallFits(c)  BY <1>2, <2>4, RunBlanks DEF RunCallFits, OverFits
  <2> HIDE DEF r, c
  <2>6. runRow' \in [Loops -> RunRow] /\ \A x \in Loops : Grows(runRow[x], runRow'[x])
    BY <1>0, <2>1, <2>2, <2>3 DEF Grows
  <2> QED  BY <1>0, <1>1, <2>1, <2>4, <2>5, <2>6, GatewayKeeps
<1> QED  BY <1>3, <1>4 DEF OneRun!CancelRun

LEMMA RunPageStep == ASSUME RunInv, OneRun!Next PROVE RunInv'
<1>1. ASSUME NEW l \in Loops,
             \/ OneRun!Claim(l) \/ OneRun!Report(l) \/ OneRun!Finish(l) \/ OneRun!Reclaim(l) \/ OneRun!LateReport(l)
             \/ OneRun!Snapshot(l) \/ OneRun!NewerRuns(l) \/ OneRun!DeleteLoop(l)
      PROVE  RunInv'
  BY <1>1, RecordKeeps
<1>2. ASSUME NEW i \in Reqs, OneRun!ReadDetail(i) \/ OneRun!DetailAnswer(i) \/ OneRun!CancelRun(i) PROVE RunInv'
  BY <1>2, ReadDetailKeeps, DetailAnswerKeeps, CancelRunKeeps
<1>3. CASE OneRun!PageAnswer \/ OneRun!PageFails  BY <1>3, PagingKeeps
<1>4. CASE OneRun!ChangesAnswer \/ OneRun!TraceAnswer  BY <1>4, AnswersOnceKeep
<1>5. CASE OneRun!Poll \/ OneRun!Retry \/ OneRun!Stop  BY <1>5, RunButtonsKeep
<1>6. CASE (\E l \in Loops : OneRun!Go(l)) \/ OneRun!Leave  BY <1>6, RunGoKeeps
<1> QED  BY <1>1, <1>2, <1>3, <1>4, <1>5, <1>6 DEF OneRun!Next

(* RunView, report, snapshotRun: for any loops, requests and bounds of the search, a page that has settled on a *)
(* run that is over shows its diff and its transcript, or says that it could not read the latter, but for a diff  *)
(* that was read before the snapshot or not at all, and for a run that was shown before the report which brought  *)
(* its session.                                                                                                   *)
THEOREM SettledPageIsWholeHolds == OneRun!Spec => []SettledPageIsWhole
<1>1. RunInv /\ [OneRun!Next]_(OneRun!vars) => RunInv'
  <2>1. ASSUME RunInv, UNCHANGED OneRun!vars PROVE RunInv'
    <3>1. UNCHANGED <<runRow, viewed, runDetail, older, search, err, changes, trace, unread, runCall>>
      BY <2>1 DEF OneRun!vars, OneRun!view, OneRun!history
    <3>2. \A i \in Reqs : runCall'[i] = runCall[i]  BY <3>1
    <3> QED  BY <2>1, <3>1, <3>2, RunCallsKeep DEF RunInv, RunTyped
  <2> QED  BY <2>1, RunPageStep
<1>2. RunInv => SettledPageIsWhole
  <2> SUFFICES ASSUME RunInv, viewed # Nobody, OneRun!Quiet, OneRun!Body(runDetail, err, OneRun!Shown),
                      OneRun!Shown.phase = "over", runRow[viewed].there
               PROVE  /\ runRow[viewed].snap => changes = "yes" \/ unread
                      /\ runRow[viewed].trace =>
                           trace \in {"shown", "error"} \/ (runRow[viewed].late /\ ~OneRun!Shown.trace)
    BY DEF SettledPageIsWhole, OneRun!SettledPageIsWhole
  <2>1. OverFits(OneRun!Shown, viewed)  BY DEF RunInv, OneRun!Shown, OneRun!Found, OverFits
  <2>2. changes \notin {"off", "asked"} /\ trace # "asked" /\ (OneRun!Shown.trace => trace # "off")
    BY DEF RunInv, BodyAsks, OneRun!Quiet
  <2>3. trace \in {"off", "asked", "error", "shown"}  BY DEF RunInv, RunTyped
  <2>4. runRow[viewed].trace /\ ~OneRun!Shown.trace => runRow[viewed].late  BY <2>1 DEF OverFits
  <2>5. runRow[viewed].snap => changes = "yes" \/ unread  BY <2>2 DEF RunInv, DiffFits
  <2> QED  BY <2>2, <2>3, <2>4, <2>5
<1> QED  BY <1>1, <1>2, RunStart, PTL DEF OneRun!Spec

(***************************************************************************)
(* Onboarding.                                                             *)
(***************************************************************************)
(* A request: an answer has come when it says found, a minted key is nobody's yet, and what belongs to the *)
(* present opening of the dialog concerns its one key, when it asked for one alone.                        *)
Sole == ~d.stale /\ ~d.twice
WireFits(x) ==
  /\ DOMAIN x = DOMAIN Screens!NoWire /\ x.live \in BOOLEAN
  /\ x.val = "found" => x.at = "answered"
  /\ x.what = "mintClaim" /\ x.at = "answered" => x.arg \in keys /\ x.arg \notin pasted \cup {w.key, d.token}
  /\ x.what = "claimStatus" => x.arg # NoId
  /\ screen # "wizard" /\ ~x.old /\ Sole =>
       /\ x.what = "claimStatus" => x.arg = d.token
       /\ x.what = "mintClaim" => d.host /\ d.token = NoId

(* Two mints give two keys, and one of them belongs to an earlier opening. *)
MintsApart(x, y) ==
  x.what = "mintClaim" /\ y.what = "mintClaim" =>
    /\ x.at = "answered" /\ y.at = "answered" => x.arg # y.arg
    /\ screen # "wizard" /\ Sole => x.old \/ y.old

NetFits ==
  /\ DOMAIN net = Wires
  /\ \A i \in Wires : WireFits(net[i])
  /\ \A i, j \in Wires : i # j => MintsApart(net[i], net[j])

ScreenTyped ==
  /\ keys \subseteq Keys /\ pasted \subseteq keys
  /\ DOMAIN w = DOMAIN Screens!Fresh /\ DOMAIN d = DOMAIN Screens!Closed
  /\ w.step \in 1..5 /\ w.key \in keys \cup {NoId} /\ d.token \in keys \cup {NoId}
  /\ DOMAIN run = Keys /\ \A c \in Keys : run[c] # "none" => c \in pasted

(* Only one of the screens is there; the dialog shows the key of its opening and what came of it. *)
ScreenFits ==
  /\ screen # "wizard" => w.key = NoId /\ ~w.mounted
  /\ screen = "wizard" => d.token = NoId /\ d.copied = NoId /\ ~d.open
  /\ screen # "wizard" /\ Sole => /\ d.created \in {NoId, d.token} /\ d.copied \in {NoId, d.token}
                                  /\ d.token # NoId => d.host

(* The result of a key waits to be read, was read for somebody, or is lost. *)
Told(c) ==
  \/ c \in results \cup missed
  \/ \E i \in Wires : net[i].what = "claimStatus" /\ net[i].arg = c /\ net[i].val = "found"
Noticed ==
  /\ w.key # NoId /\ run[w.key] # "none" /\ w.step # 5 => Told(w.key)
  /\ screen # "wizard" /\ ~d.stale /\ d.token # NoId /\ run[d.token] # "none" /\ d.created = NoId => Told(d.token)

WaitInv == ScreenTyped /\ ScreenFits /\ NetFits /\ Noticed

(* A step of the screens that neither brings nor takes a key, but that it may end the wizard. *)
UiStays ==
  /\ UNCHANGED <<screen, keys, pasted>>
  /\ DOMAIN run' = Keys /\ \A c \in Keys : run'[c] # "none" => run[c] # "none"
  /\ DOMAIN w' = DOMAIN Screens!Fresh /\ DOMAIN d' = DOMAIN Screens!Closed
  /\ w'.step \in 1..5 /\ w'.key \in {w.key, NoId} /\ (w'.key # NoId /\ w'.step # 5 => w.step # 5)
  /\ w'.mounted => screen = "wizard"
  /\ d'.token = d.token /\ d'.copied = d.copied /\ d'.created = d.created /\ d'.stale = d.stale
  /\ d'.twice = d.twice /\ (d.host => d'.host)
  /\ d'.open => screen # "wizard"
Still(i) ==
  /\ DOMAIN net'[i] = DOMAIN Screens!NoWire /\ net'[i].live \in BOOLEAN
  /\ net'[i].what = net[i].what /\ net'[i].at = net[i].at /\ net'[i].arg = net[i].arg /\ net'[i].val = net[i].val
  /\ net[i].old => net'[i].old

LEMMA WizardShape ==
  /\ DOMAIN Screens!Fresh = {"mounted", "step", "machine", "key", "loop", "online", "shows", "scheduled", "asked"}
  /\ Screens!Fresh.key = NoId /\ Screens!Fresh.mounted = FALSE /\ Screens!Fresh.step = 1
BY DEF Screens!Fresh

LEMMA ComposeShape ==
  /\ DOMAIN Screens!Closed = {"open", "host", "token", "created", "copied", "stale", "twice"}
  /\ Screens!Closed.token = NoId /\ Screens!Closed.copied = NoId /\ Screens!Closed.created = NoId
  /\ Screens!Closed.open = FALSE /\ Screens!Closed.stale = FALSE /\ Screens!Closed.host = FALSE
BY DEF Screens!Closed

LEMMA WireShape ==
  /\ DOMAIN Screens!NoWire = {"what", "at", "arg", "val", "live", "old"}
  /\ Screens!NoWire.what = "none" /\ Screens!NoWire.at = "free" /\ Screens!NoWire.val = "none"
  /\ Screens!NoWire.live = FALSE /\ Screens!NoWire.old = FALSE
BY DEF Screens!NoWire

LEMMA WaitStart == Screens!Init => WaitInv
<1> SUFFICES ASSUME Screens!Init PROVE WaitInv
  OBVIOUS
<1>1. /\ w = Screens!Fresh /\ d = Screens!Closed /\ keys = {} /\ pasted = {}
      /\ run = [c \in Keys |-> "none"] /\ net = [i \in Wires |-> Screens!NoWire]
  BY DEF Screens!Init
<1>2. ScreenTyped  BY <1>1, WizardShape, ComposeShape DEF ScreenTyped
<1>3. ScreenFits  BY <1>1, WizardShape, ComposeShape DEF ScreenFits
<1>4. NetFits  BY <1>1, WireShape DEF NetFits, WireFits, MintsApart
<1> QED  BY <1>1, <1>2, <1>3, <1>4, WizardShape, ComposeShape DEF WaitInv, Noticed

LEMMA StillFits ==
  ASSUME WaitInv, UiStays, NEW i \in Wires, Still(i)
  PROVE  WireFits(net[i])'
<1>1. WireFits(net[i]) /\ ScreenTyped  BY DEF WaitInv, NetFits
<1>2. NoId \notin keys  BY <1>1, OnboardingConstants DEF ScreenTyped, Screens!OnboardingConstantsOK
<1>3. (net[i].what = "mintClaim" /\ net[i].at = "answered" =>
         net[i].arg \in keys /\ net[i].arg \notin pasted \cup {w.key, d.token})
      /\ (net[i].val = "found" => net[i].at = "answered") /\ (net[i].what = "claimStatus" => net[i].arg # NoId)
  BY <1>1 DEF WireFits
<1>4. screen # "wizard" /\ ~net[i].old /\ Sole =>
        /\ net[i].what = "claimStatus" => net[i].arg = d.token
        /\ net[i].what = "mintClaim" => d.host /\ d.token = NoId
  BY <1>1 DEF WireFits
<1>5. net'[i].what = "mintClaim" /\ net'[i].at = "answered" =>
        net'[i].arg \in keys' /\ net'[i].arg \notin pasted' \cup {w'.key, d'.token}
  BY <1>2, <1>3 DEF UiStays, Still
<1>6. screen' # "wizard" /\ ~net'[i].old /\ Sole' =>
        /\ net'[i].what = "claimStatus" => net'[i].arg = d'.token
        /\ net'[i].what = "mintClaim" => d'.host /\ d'.token = NoId
  BY <1>4 DEF UiStays, Still, Sole
<1> QED  BY <1>3, <1>5, <1>6 DEF WireFits, Still

(* All but one request stay as they are. *)
LEMMA OneWire ==
  ASSUME WaitInv, UiStays, NEW i \in Wires, DOMAIN net' = Wires, \A j \in Wires \ {i} : Still(j),
         WireFits(net[i])', \A j \in Wires \ {i} : MintsApart(net[i], net[j])' /\ MintsApart(net[j], net[i])',
         \A c \in Keys : Told(c) => Told(c)'
  PROVE  WaitInv'
<1>0. ScreenTyped /\ ScreenFits /\ NetFits /\ Noticed  BY DEF WaitInv
<1>1. ScreenTyped'  BY <1>0 DEF ScreenTyped, UiStays
<1>2. ScreenFits'  BY <1>0 DEF ScreenFits, UiStays, Sole
<1>3. ASSUME NEW j \in Wires, NEW l \in Wires, j # l PROVE MintsApart(net[j], net[l])'
  <2>1. CASE j = i \/ l = i  BY <1>3, <2>1
  <2>2. CASE j # i /\ l # i
    <3>1. MintsApart(net[j], net[l])  BY <1>0, <1>3 DEF NetFits
    <3>2. Still(j) /\ Still(l) /\ screen' = screen /\ (Sole' <=> Sole)  BY <2>2 DEF UiStays, Sole
    <3> QED  BY <3>1, <3>2 DEF MintsApart, Still
  <2> QED  BY <2>1, <2>2
<1>4. NetFits'  BY <1>3, StillFits DEF NetFits
<1>5. Noticed'
  <2>1. w'.key # NoId /\ run'[w'.key] # "none" /\ w'.step # 5 => Told(w.key)'
    <3>1. w'.key # NoId => w'.key = w.key /\ w.key \in Keys  BY <1>0 DEF UiStays, ScreenTyped
    <3> QED  BY <1>0, <3>1 DEF Noticed, UiStays
  <2>2. screen' # "wizard" /\ ~d'.stale /\ d'.token # NoId /\ run'[d'.token] # "none" /\ d'.created = NoId => Told(d.token)'
    <3>1. d'.token # NoId => d'.token = d.token /\ d.token \in Keys  BY <1>0 DEF UiStays, ScreenTyped
    <3> QED  BY <1>0, <3>1 DEF Noticed, UiStays
  <2> QED  BY <2>1, <2>2 DEF Noticed
<1> QED  BY <1>1, <1>2, <1>4, <1>5 DEF WaitInv

LEMMA UiStaysThere ==
  ASSUME WaitInv, UNCHANGED <<screen, keys, pasted, run, w, d>>
  PROVE  UiStays
BY DEF WaitInv, ScreenTyped, ScreenFits, UiStays

LEMMA AllStill ==
  ASSUME WaitInv, UiStays, DOMAIN net' = Wires, \A j \in Wires : Still(j),
         results \cup missed \subseteq results' \cup missed'
  PROVE  WaitInv'
<1>0. ScreenTyped /\ ScreenFits /\ NetFits /\ Noticed  BY DEF WaitInv
<1>1. ScreenTyped'  BY <1>0 DEF ScreenTyped, UiStays
<1>2. ScreenFits'  BY <1>0 DEF ScreenFits, UiStays, Sole
<1>3. ASSUME NEW j \in Wires, NEW l \in Wires, j # l PROVE MintsApart(net[j], net[l])'
  <2>1. MintsApart(net[j], net[l])  BY <1>0, <1>3 DEF NetFits
  <2>2. Still(j) /\ Still(l) /\ screen' = screen /\ (Sole' <=> Sole)  BY DEF UiStays, Sole
  <2> QED  BY <2>1, <2>2 DEF MintsApart, Still
<1>4. NetFits'  BY <1>3, StillFits DEF NetFits
<1>5. ASSUME NEW c \in Keys, Told(c) PROVE Told(c)'
  BY <1>5 DEF Told, Still
<1>6. Noticed'
  <2>1. w'.key # NoId /\ run'[w'.key] # "none" /\ w'.step # 5 => Told(w.key)'
    <3>1. w'.key # NoId => w'.key = w.key /\ w.key \in Keys  BY <1>0 DEF UiStays, ScreenTyped
    <3> QED  BY <1>0, <1>5, <3>1 DEF Noticed, UiStays
  <2>2. screen' # "wizard" /\ ~d'.stale /\ d'.token # NoId /\ run'[d'.token] # "none" /\ d'.created = NoId => Told(d.token)'
    <3>1. d'.token # NoId => d'.token = d.token /\ d.token \in Keys  BY <1>0 DEF UiStays, ScreenTyped
    <3> QED  BY <1>0, <1>5, <3>1 DEF Noticed, UiStays
  <2> QED  BY <2>1, <2>2 DEF Noticed
<1> QED  BY <1>1, <1>2, <1>4, <1>6 DEF WaitInv

LEMMA NetSame == ASSUME WaitInv, net' = net PROVE DOMAIN net' = Wires /\ \A j \in Wires : Still(j)
BY DEF WaitInv, NetFits, WireFits, Still

LEMMA IgnoredStill ==
  ASSUME WaitInv, NEW calls, net' = Screens!Ignored(calls)
  PROVE  DOMAIN net' = Wires /\ \A j \in Wires : Still(j)
<1>1. ASSUME NEW j \in Wires PROVE Still(j)
  <2>1. DOMAIN net[j] = DOMAIN Screens!NoWire /\ net[j].live \in BOOLEAN  BY DEF WaitInv, NetFits, WireFits
  <2>2. net'[j] = IF net[j].what \in calls THEN [net[j] EXCEPT !.live = FALSE] ELSE net[j]  BY DEF Screens!Ignored
  <2> QED  BY <2>1, <2>2, WireShape DEF Still
<1> QED  BY <1>1 DEF Screens!Ignored

LEMMA StepOf ==
  ASSUME w.step \in 1..5
  PROVE  /\ Screens!At("welcome") => w.step = 1
         /\ Screens!At("machine") => w.step = 2
         /\ Screens!At("meet") => w.step = 3
         /\ Screens!At("prompt") => w.step = 4
         /\ Len(Screens!Steps) = 5
<1>1. /\ Screens!Steps[1] = "welcome" /\ Screens!Steps[2] = "machine" /\ Screens!Steps[3] = "meet"
      /\ Screens!Steps[4] = "prompt" /\ Screens!Steps[5] = "live" /\ Len(Screens!Steps) = 5
  BY DEF Screens!Steps
<1>2. w.step = 1 \/ w.step = 2 \/ w.step = 3 \/ w.step = 4 \/ w.step = 5  OBVIOUS
<1> QED  BY <1>1, <1>2 DEF Screens!At

(* The buttons that send nothing. *)
LEMMA WizardMoves ==
  ASSUME WaitInv,
         Screens!Mount \/ Screens!Continue \/ Screens!Back \/ Screens!Leave \/ Screens!Finish
  PROVE  WaitInv'
<1>0. ScreenTyped /\ ScreenFits  BY DEF WaitInv
<1>1. UNCHANGED <<screen, d, keys, pasted, run, results, missed>>
  BY DEF Screens!Mount, Screens!Continue, Screens!Back, Screens!Leave, Screens!Finish, Screens!GoTo,
         Screens!server, Screens!history
<1>2. ASSUME DOMAIN w' = DOMAIN Screens!Fresh, w'.step \in 1..5, w'.key \in {w.key, NoId},
             w'.key # NoId /\ w'.step # 5 => w.step # 5, w'.mounted => screen = "wizard"
      PROVE  UiStays
  BY <1>0, <1>1, <1>2 DEF UiStays, ScreenTyped, ScreenFits
<1>3. CASE Screens!Mount
  <2>1. w' = [Screens!Fresh EXCEPT !.mounted = TRUE, !.step = w.step, !.machine = w.machine, !.key = w.key,
                                   !.loop = w.loop]
        /\ screen = "wizard" /\ net' = net
    BY <1>3 DEF Screens!Mount
  <2>2. DOMAIN w' = DOMAIN Screens!Fresh /\ w'.step = w.step /\ w'.key = w.key  BY <2>1, WizardShape
  <2>3. UiStays  BY <1>0, <1>2, <2>1, <2>2 DEF ScreenTyped
  <2> QED  BY <1>1, <2>1, <2>3, NetSame, AllStill
<1>4. ASSUME NEW s \in 1..5, Screens!GoTo(s), w.step # 5, w.mounted PROVE WaitInv'
  <2>1. w' = [w EXCEPT !.step = s, !.asked = FALSE] /\ net' = Screens!Ignored({"createMachine", "mintClaim"})
    BY <1>4 DEF Screens!GoTo
  <2>2. DOMAIN w' = DOMAIN Screens!Fresh /\ w'.step = s /\ w'.key = w.key /\ w'.mounted = w.mounted
    BY <1>0, <2>1, WizardShape DEF ScreenTyped
  <2>3. UiStays  BY <1>0, <1>2, <1>4, <2>2 DEF ScreenFits
  <2> QED  BY <1>1, <2>1, <2>3, IgnoredStill, AllStill
<1>5. CASE Screens!Continue
  <2>1. w.mounted /\ w.step \in 1..3 /\ Screens!GoTo(w.step + 1)
    BY <1>0, <1>5, StepOf DEF Screens!Continue, Screens!At, ScreenTyped
  <2> DEFINE s == w.step + 1
  <2>2. s \in 1..5 /\ w.step # 5 /\ Screens!GoTo(s)  BY <2>1
  <2> HIDE DEF s
  <2> QED  BY <1>4, <2>1, <2>2
<1>6. CASE Screens!Back
  <2>1. w.mounted /\ w.step \in 2..4 /\ Screens!GoTo(w.step - 1)
    BY <1>0, <1>6, StepOf DEF Screens!Back, Screens!At, ScreenTyped
  <2> DEFINE s == w.step - 1
  <2>2. s \in 1..5 /\ w.step # 5 /\ Screens!GoTo(s)  BY <2>1
  <2> HIDE DEF s
  <2> QED  BY <1>4, <2>1, <2>2
<1>7. CASE Screens!Leave
  <2>1. w' = [w EXCEPT !.mounted = FALSE] /\ net' = Screens!Ignored(Screens!ServerFns)
    BY <1>7 DEF Screens!Leave
  <2>2. DOMAIN w' = DOMAIN Screens!Fresh /\ w'.step = w.step /\ w'.key = w.key /\ w'.mounted = FALSE
    BY <1>0, <2>1, WizardShape DEF ScreenTyped
  <2>3. UiStays  BY <1>0, <1>2, <2>2 DEF ScreenTyped
  <2> QED  BY <1>1, <2>1, <2>3, IgnoredStill, AllStill
<1>8. CASE Screens!Finish
  <2>1. w' = Screens!Fresh /\ net' = Screens!Ignored(Screens!ServerFns)  BY <1>8 DEF Screens!Finish
  <2>2. UiStays  BY <1>2, <2>1, WizardShape
  <2> QED  BY <1>1, <2>1, <2>2, IgnoredStill, AllStill
<1> QED  BY <1>3, <1>5, <1>6, <1>7, <1>8

(* A request goes out: a mint of the dialog is the first of its opening, and its polls ask for its key. *)
LEMMA SendStays ==
  ASSUME WaitInv, UiStays, UNCHANGED <<results, missed>>, NEW what, NEW arg, Screens!Send(what, arg),
         what = "claimStatus" => arg # NoId /\ (screen = "wizard" \/ arg = d.token),
         what = "mintClaim" => screen = "wizard" \/ (d'.host /\ ~d.host)
  PROVE  WaitInv'
<1>0. ScreenTyped /\ ScreenFits /\ NetFits  BY DEF WaitInv
<1> DEFINE r == [what |-> what, at |-> "sent", arg |-> arg, val |-> "none", live |-> TRUE, old |-> FALSE]
<1>1. PICK i \in Wires : net[i] = Screens!NoWire /\ net' = [net EXCEPT ![i] = r]  BY DEF Screens!Send, Screens!SendFrom
<1>2. /\ DOMAIN r = DOMAIN Screens!NoWire /\ r.what = what /\ r.at = "sent" /\ r.arg = arg /\ r.val = "none"
      /\ r.live = TRUE /\ r.old = FALSE
  BY WireShape
<1> HIDE DEF r
<1>3. DOMAIN net' = Wires /\ net'[i] = r /\ \A j \in Wires \ {i} : net'[j] = net[j]  BY <1>0, <1>1 DEF NetFits
<1>4. \A j \in Wires \ {i} : Still(j)  BY <1>0, <1>3 DEF Still, NetFits, WireFits
<1>5. WireFits(net[i])'
  <2>1. screen' # "wizard" /\ Sole' =>
          /\ what = "claimStatus" => arg = d'.token
          /\ what = "mintClaim" => d'.host /\ d'.token = NoId
    BY <1>0 DEF UiStays, ScreenFits, Sole
  <2>2. DOMAIN net'[i] = DOMAIN Screens!NoWire /\ net'[i].live \in BOOLEAN /\ net'[i].val # "found"
        /\ net'[i].at # "answered" /\ net'[i].what = what /\ net'[i].arg = arg
    BY <1>2, <1>3
  <2> QED  BY <2>1, <2>2 DEF WireFits
<1>6. ASSUME NEW j \in Wires \ {i} PROVE MintsApart(net[i], net[j])' /\ MintsApart(net[j], net[i])'
  <2>1. net'[j] = net[j] /\ WireFits(net[j])  BY <1>0, <1>3 DEF NetFits
  <2>2. what = "mintClaim" /\ net[j].what = "mintClaim" /\ screen # "wizard" /\ Sole => net[j].old
    BY <2>1 DEF WireFits, UiStays
  <2>3. net'[i].what = what /\ net'[i].at # "answered"  BY <1>2, <1>3
  <2>4. screen' = screen /\ (Sole' <=> Sole)  BY DEF UiStays, Sole
  <2> QED  BY <2>1, <2>2, <2>3, <2>4 DEF MintsApart
<1>7. ASSUME NEW c \in Keys, Told(c) PROVE Told(c)'
  <2>1. CASE c \in results \cup missed  BY <2>1 DEF Told
  <2>2. CASE \E j \in Wires : net[j].what = "claimStatus" /\ net[j].arg = c /\ net[j].val = "found"
    <3>1. PICK j \in Wires : net[j].what = "claimStatus" /\ net[j].arg = c /\ net[j].val = "found"  BY <2>2
    <3>2. j # i  BY <1>1, <3>1, WireShape
    <3> QED  BY <1>3, <3>1, <3>2 DEF Told
  <2> QED  BY <1>7, <2>1, <2>2 DEF Told
<1> QED  BY <1>3, <1>4, <1>5, <1>6, <1>7, OneWire

LEMMA AsksKeep ==
  ASSUME WaitInv,
         \/ Screens!AskMachine \/ Screens!AskKey \/ Screens!WizardPolls \/ Screens!PickHost \/ Screens!ComposePolls
         \/ Screens!StartConnect \/ Screens!ConnectPolls \/ Screens!Cancel \/ Screens!Done
  PROVE  WaitInv'
<1>0. ScreenTyped /\ ScreenFits  BY DEF WaitInv
<1>1. UNCHANGED <<screen, keys, pasted, run, results, missed>>
  BY DEF Screens!AskMachine, Screens!AskKey, Screens!WizardPolls, Screens!PickHost, Screens!ComposePolls,
         Screens!StartConnect, Screens!ConnectPolls, Screens!Cancel, Screens!Done, Screens!server, Screens!history
<1>2. CASE Screens!AskMachine \/ Screens!AskKey
  <2>1. /\ w.mounted /\ d' = d /\ w' = [w EXCEPT !.asked = TRUE]
        /\ Screens!Send("createMachine", NoId) \/ Screens!Send("mintClaim", NoId)
    BY <1>2 DEF Screens!AskMachine, Screens!AskKey, Screens!At
  <2>2. DOMAIN w' = DOMAIN Screens!Fresh /\ w'.step = w.step /\ w'.key = w.key /\ w'.mounted = w.mounted
    BY <1>0, <2>1, WizardShape DEF ScreenTyped
  <2>3. UiStays /\ screen = "wizard"  BY <1>0, <1>1, <2>1, <2>2 DEF UiStays, ScreenTyped, ScreenFits
  <2> QED  BY <1>1, <2>1, <2>3, SendStays
<1>3. CASE Screens!WizardPolls
  <2>1. w.mounted /\ UNCHANGED <<w, d>>  BY <1>3 DEF Screens!WizardPolls, Screens!At, Screens!ui
  <2>2. UiStays /\ screen = "wizard"  BY <1>0, <1>1, <2>1, UiStaysThere DEF ScreenFits
  <2>3. \/ Screens!Send("machineStatus", w.machine) \/ (w.key # NoId /\ Screens!Send("claimStatus", w.key))
        \/ Screens!Send("firstRun", w.loop)
    BY <1>3 DEF Screens!WizardPolls
  <2> QED  BY <1>1, <2>2, <2>3, SendStays
<1>4. CASE Screens!PickHost
  <2>1. d.open /\ ~d.host /\ w' = w /\ d' = [d EXCEPT !.host = TRUE] /\ Screens!Send("mintClaim", NoId)
    BY <1>4 DEF Screens!PickHost
  <2>2. /\ DOMAIN d' = DOMAIN Screens!Closed /\ d'.token = d.token /\ d'.copied = d.copied /\ d'.created = d.created
        /\ d'.stale = d.stale /\ d'.host = TRUE /\ d'.open = d.open
        /\ d'.twice = d.twice
    BY <1>0, <2>1, ComposeShape DEF ScreenTyped
  <2>3. UiStays  BY <1>0, <1>1, <2>1, <2>2 DEF UiStays, ScreenTyped, ScreenFits
  <2> QED  BY <1>1, <2>1, <2>2, <2>3, SendStays
<1>5. CASE Screens!ComposePolls
  <2>1. UNCHANGED <<w, d>> /\ d.token # NoId /\ Screens!Send("claimStatus", d.token)
    BY <1>5 DEF Screens!ComposePolls, Screens!ui
  <2>2. UiStays  BY <1>1, <2>1, UiStaysThere
  <2> QED  BY <1>1, <2>1, <2>2, SendStays
<1>6. CASE Screens!StartConnect \/ Screens!ConnectPolls \/ Screens!Cancel \/ Screens!Done
  <2>1. UNCHANGED <<w, d>>
    BY <1>6 DEF Screens!StartConnect, Screens!ConnectPolls, Screens!Cancel, Screens!Done, Screens!ui
  <2>2. \/ Screens!Send("createMachine", NoId) \/ Screens!Send("machineStatus", k.pending)
        \/ Screens!Send("deleteMachine", k.pending) \/ Screens!Send("finalize", k.pending)
    BY <1>6 DEF Screens!StartConnect, Screens!ConnectPolls, Screens!Cancel, Screens!Done
  <2>3. UiStays  BY <1>1, <2>1, UiStaysThere
  <2> QED  BY <1>1, <2>2, <2>3, SendStays
<1> QED  BY <1>2, <1>3, <1>4, <1>5, <1>6

(* The dialog is opened anew: what is on its way belongs to an earlier opening, but for the mint it sends. *)
LEMMA ScreenOpenKeeps == ASSUME WaitInv, Screens!Open PROVE WaitInv'
<1>0. ScreenTyped /\ ScreenFits /\ NetFits /\ Noticed  BY DEF WaitInv
<1>1. screen = "compose" /\ UNCHANGED <<screen, w, keys, pasted, run, results, missed>>
  BY DEF Screens!Open, Screens!server, Screens!history
<1>2. PICK template \in BOOLEAN :
        /\ d' = [Screens!Closed EXCEPT !.open = TRUE, !.host = template, !.twice = d.host /\ ~template]
        /\ IF template \/ d.host THEN Screens!SendFrom(Screens!Older, "mintClaim", NoId) ELSE net' = Screens!Older
  BY Zenon DEF Screens!Open
<1>3. /\ DOMAIN d' = DOMAIN Screens!Closed /\ d'.token = NoId /\ d'.copied = NoId /\ d'.created = NoId
      /\ d'.host = template /\ (d'.twice <=> d.host /\ ~template)
  BY <1>2, ComposeShape
<1> DEFINE before == Screens!Older
           r == [what |-> "mintClaim", at |-> "sent", arg |-> NoId, val |-> "none", live |-> TRUE, old |-> FALSE]
           Old(i, x) == /\ DOMAIN x = DOMAIN Screens!NoWire /\ x.live \in BOOLEAN /\ x.what = net[i].what
                        /\ x.at = net[i].at /\ x.arg = net[i].arg /\ x.val = net[i].val
                        /\ x.old \/ x.what = "none"
<1>4. DOMAIN before = Wires /\ \A i \in Wires : Old(i, before[i])
  <2>1. ASSUME NEW i \in Wires PROVE Old(i, before[i])
    <3>1. DOMAIN net[i] = DOMAIN Screens!NoWire /\ net[i].live \in BOOLEAN  BY <1>0 DEF NetFits, WireFits
    <3>2. CASE net[i] = Screens!NoWire
      <4>1. before[i] = net[i]  BY <3>2 DEF Screens!Older
      <4> QED  BY <3>1, <3>2, <4>1, WireShape
    <3>3. CASE net[i] # Screens!NoWire
      <4>1. before[i] = [net[i] EXCEPT !.old = TRUE]  BY <3>3 DEF Screens!Older
      <4> QED  BY <3>1, <4>1, WireShape
    <3> QED  BY <3>2, <3>3
  <2> QED  BY <2>1 DEF Screens!Older
<1>5. /\ DOMAIN r = DOMAIN Screens!NoWire /\ r.what = "mintClaim" /\ r.at = "sent" /\ r.val = "none" /\ r.live = TRUE
  BY WireShape
<1> HIDE DEF before, r, Old
(* One request at most is new: a mint, of a dialog that has its host or asks twice. *)
<1>6. /\ DOMAIN net' = Wires
      /\ \/ \A j \in Wires : Old(j, net'[j])
         \/ \E i \in Wires : /\ net'[i] = r /\ (template \/ d.host) /\ \A j \in Wires \ {i} : Old(j, net'[j])
  <2>1. CASE net' = before  BY <1>4, <2>1
  <2>2. CASE (template \/ d.host) /\ Screens!SendFrom(before, "mintClaim", NoId)
    <3>1. PICK i \in Wires : net' = [before EXCEPT ![i] = r]  BY <2>2 DEF Screens!SendFrom, r
    <3> QED  BY <1>4, <2>2, <3>1
  <2> QED  BY <1>2, <2>1, <2>2 DEF before
<1>7. ScreenTyped' /\ ScreenFits'  BY <1>0, <1>1, <1>3 DEF ScreenTyped, ScreenFits
<1>8. NetFits'
  <2>1. ASSUME NEW i \in Wires, Old(i, net'[i]) PROVE WireFits(net[i])'
    <3>1. WireFits(net[i]) /\ NoId \notin keys
      BY <1>0, OnboardingConstants DEF NetFits, ScreenTyped, Screens!OnboardingConstantsOK
    <3> QED  BY <1>1, <1>3, <2>1, <3>1 DEF WireFits, Old
  <2>2. ASSUME NEW i \in Wires, net'[i] = r, template \/ d.host PROVE WireFits(net[i])'
    <3>1. Sole' => template  BY <1>3, <2>2 DEF Sole
    <3> QED  BY <1>3, <1>5, <2>2, <3>1 DEF WireFits
  <2>3. ASSUME NEW i \in Wires, NEW j \in Wires, i # j, Old(i, net'[i]), Old(j, net'[j])
        PROVE  MintsApart(net[i], net[j])'
    <3>1. MintsApart(net[i], net[j])  BY <1>0, <2>3 DEF NetFits
    <3> QED  BY <1>1, <2>3, <3>1 DEF MintsApart, Old
  <2>4. ASSUME NEW i \in Wires, NEW j \in Wires, net'[i] = r, Old(j, net'[j])
        PROVE  MintsApart(net[i], net[j])' /\ MintsApart(net[j], net[i])'
    BY <1>5, <2>4 DEF MintsApart, Old
  <2>5. ASSUME NEW i \in Wires PROVE WireFits(net[i])'  BY <1>6, <2>1, <2>2
  <2>6. ASSUME NEW i \in Wires, NEW j \in Wires, i # j PROVE MintsApart(net[i], net[j])'
    BY <1>6, <2>3, <2>4, <2>6
  <2> QED  BY <1>6, <2>5, <2>6 DEF NetFits
<1>9. w.key = NoId  BY <1>0, <1>1 DEF ScreenFits
<1>10. Noticed'  BY <1>1, <1>3, <1>9 DEF Noticed
<1> QED  BY <1>7, <1>8, <1>10 DEF WaitInv

LEMMA ScreenCloseKeeps == ASSUME WaitInv, Screens!Close PROVE WaitInv'
<1>0. ScreenTyped /\ ScreenFits  BY DEF WaitInv
<1>1. UNCHANGED <<screen, w, keys, pasted, run, results, missed, net>> /\ d.open
  BY DEF Screens!Close, Screens!server, Screens!history
<1>2. d' = [d EXCEPT !.open = FALSE]  BY DEF Screens!Close
<1>3. /\ DOMAIN d' = DOMAIN Screens!Closed /\ d'.token = d.token /\ d'.copied = d.copied /\ d'.created = d.created
      /\ d'.stale = d.stale /\ d'.twice = d.twice /\ d'.host = d.host
  BY <1>0, <1>2, ComposeShape DEF ScreenTyped
<1>4. UiStays  BY <1>0, <1>1, <1>3 DEF UiStays, ScreenTyped, ScreenFits
<1> QED  BY <1>1, <1>4, NetSame, AllStill

(* The user copies the key on display. *)
LEMMA CopyKeeps == ASSUME WaitInv, Screens!Copy PROVE WaitInv'
<1>0. ScreenTyped /\ ScreenFits /\ NetFits /\ Noticed  BY DEF WaitInv
<1>1. UNCHANGED <<screen, w, keys, run, results, missed, net>>  BY DEF Screens!Copy, Screens!server
<1>2. /\ d'.token = d.token /\ d'.created = d.created /\ d'.stale = d.stale /\ d'.host = d.host /\ d'.open = d.open
      /\ DOMAIN d' = DOMAIN Screens!Closed /\ d'.twice = d.twice
      /\ d'.copied = d.copied \/ (d'.copied = d.token /\ d.open)
      /\ pasted' \subseteq pasted \cup ({w.key, d.token} \ {NoId}) /\ pasted \subseteq pasted'
  <2>1. CASE pasted' = pasted \cup {w.key} /\ w.key # NoId /\ d' = d  BY <1>0, <2>1 DEF ScreenTyped
  <2>2. CASE pasted' = pasted \cup {d.token} /\ d.token # NoId /\ d' = [d EXCEPT !.copied = d.token] /\ d.open
    BY <1>0, <2>2, ComposeShape DEF ScreenTyped
  <2> QED  BY <2>1, <2>2 DEF Screens!Copy
<1>3. ScreenTyped'  BY <1>0, <1>1, <1>2 DEF ScreenTyped
<1>4. ScreenFits' /\ (Sole' <=> Sole)  BY <1>0, <1>1, <1>2 DEF ScreenFits, Sole
<1>5. NetFits'
  <2>1. ASSUME NEW i \in Wires PROVE WireFits(net[i])'
    <3>1. WireFits(net[i]) /\ net'[i] = net[i]  BY <1>0, <1>1 DEF NetFits
    <3>2. net[i].what = "mintClaim" /\ net[i].at = "answered" =>
            net[i].arg \in keys /\ net[i].arg \notin pasted' \cup {w.key, d.token}
      BY <1>2, <3>1 DEF WireFits
    <3> QED  BY <1>1, <1>2, <1>4, <3>1, <3>2 DEF WireFits
  <2>2. ASSUME NEW i \in Wires, NEW j \in Wires, i # j PROVE MintsApart(net[i], net[j])'
    <3>1. MintsApart(net[i], net[j])  BY <1>0, <2>2 DEF NetFits
    <3> QED  BY <1>1, <1>4, <3>1 DEF MintsApart
  <2> QED  BY <1>0, <1>1, <2>1, <2>2 DEF NetFits
<1>6. Noticed'  BY <1>0, <1>1, <1>2 DEF Noticed, Told
<1> QED  BY <1>3, <1>4, <1>5, <1>6 DEF WaitInv

(* A request that is not a mint, and was no answer to a poll of a key, becomes another such. *)
LEMMA CalmWire ==
  ASSUME WaitInv, UiStays, NEW i \in Wires, DOMAIN net' = Wires, \A j \in Wires \ {i} : net'[j] = net[j],
         DOMAIN net'[i] = DOMAIN Screens!NoWire, net'[i].live \in BOOLEAN,
         net'[i].what \notin {"mintClaim", "claimStatus"},
         net'[i].val = "found" => net'[i].at = "answered",
         results \cup missed \subseteq results' \cup missed',
         net[i].what = "claimStatus" /\ net[i].val = "found" => net[i].arg \in missed'
  PROVE  WaitInv'
<1>1. \A j \in Wires \ {i} : Still(j)  BY DEF WaitInv, NetFits, WireFits, Still
<1>2. WireFits(net[i])'  BY DEF WireFits
<1>3. \A j \in Wires \ {i} : MintsApart(net[i], net[j])' /\ MintsApart(net[j], net[i])'  BY DEF MintsApart
<1>4. ASSUME NEW c \in Keys, Told(c) PROVE Told(c)'
  <2>1. CASE c \in results \cup missed  BY <2>1 DEF Told
  <2>2. CASE \E j \in Wires : net[j].what = "claimStatus" /\ net[j].arg = c /\ net[j].val = "found"
    <3>1. PICK j \in Wires : net[j].what = "claimStatus" /\ net[j].arg = c /\ net[j].val = "found"  BY <2>2
    <3>2. CASE j = i  BY <3>1, <3>2 DEF Told
    <3>3. CASE j # i  BY <3>1, <3>3 DEF Told
    <3> QED  BY <3>2, <3>3
  <2> QED  BY <1>4, <2>1, <2>2 DEF Told
<1> QED  BY <1>1, <1>2, <1>3, <1>4, OneWire

LEMMA FreeStays ==
  ASSUME WaitInv, UiStays, NEW i \in Wires, Screens!Free(i), results \cup missed \subseteq results' \cup missed',
         net[i].what = "claimStatus" /\ net[i].val = "found" => net[i].arg \in missed'
  PROVE  WaitInv'
<1>1. DOMAIN net' = Wires /\ net'[i] = Screens!NoWire /\ \A j \in Wires \ {i} : net'[j] = net[j]
  BY DEF Screens!Free, WaitInv, NetFits
<1> QED  BY <1>1, WireShape, CalmWire

(* A daemon, a loop, a run that moves on, a result that waits for ever no more. *)
LEMMA OutsideKeeps ==
  ASSUME WaitInv,
         \/ Screens!Restart
         \/ \E m \in Machines : Screens!DaemonPolls(m) \/ Screens!GoesOffline(m) \/ Screens!LoopOnMachine(m)
         \/ \E c \in Keys : Screens!RunMoves(c)
  PROVE  WaitInv'
<1>0. ScreenTyped /\ ScreenFits  BY DEF WaitInv
<1>1. UNCHANGED <<screen, w, d, keys, pasted, net>> /\ results \cup missed \subseteq results' \cup missed'
  BY DEF Screens!Restart, Screens!DaemonPolls, Screens!GoesOffline, Screens!LoopOnMachine, Screens!RunMoves,
         Screens!ui, Screens!history
<1>2. DOMAIN run' = Keys /\ \A c \in Keys : run'[c] # "none" => run[c] # "none"
  <2>1. CASE run' = run  BY <1>0, <2>1 DEF ScreenTyped
  <2>2. CASE run' # run
    <3>1. PICK c \in Keys, p \in Screens!Phases : run' = [run EXCEPT ![c] = p] /\ run[c] # "none"
      BY <2>2 DEF Screens!Restart, Screens!DaemonPolls, Screens!GoesOffline, Screens!LoopOnMachine, Screens!RunMoves,
                  Screens!Phases
    <3> QED  BY <1>0, <3>1 DEF ScreenTyped
  <2> QED  BY <2>1, <2>2
<1>3. UiStays  BY <1>0, <1>1, <1>2 DEF UiStays, ScreenTyped, ScreenFits
<1> QED  BY <1>1, <1>3, NetSame, AllStill

(* A loop is created with a key that was copied: the result of the key waits to be read. *)
LEMMA LoopCreateKeeps == ASSUME WaitInv, NEW c \in Keys, Screens!CreateLoop(c) PROVE WaitInv'
<1>0. ScreenTyped /\ ScreenFits /\ NetFits /\ Noticed  BY DEF WaitInv
<1>1. /\ UNCHANGED <<screen, w, d, keys, pasted, net, missed>> /\ c \in pasted
      /\ run' = [run EXCEPT ![c] = "pending"] /\ results' = results \cup {c}
  BY DEF Screens!CreateLoop, Screens!ui, Screens!history
<1>2. DOMAIN run' = Keys /\ \A x \in Keys \ {c} : run'[x] = run[x]  BY <1>0, <1>1 DEF ScreenTyped
<1>3. ScreenTyped' /\ ScreenFits'  BY <1>0, <1>1, <1>2 DEF ScreenTyped, ScreenFits, Sole
<1>4. NetFits'  BY <1>0, <1>1 DEF NetFits, WireFits, MintsApart, Sole
<1>5. Told(c)' /\ \A x : Told(x) => Told(x)'  BY <1>1 DEF Told
<1>6. Noticed'
  <2>1. w.key \in Keys \cup {NoId} /\ d.token \in Keys \cup {NoId}  BY <1>0 DEF ScreenTyped
  <2>2. w.key # NoId /\ run'[w.key] # "none" /\ w.step # 5 => Told(w.key)'
    BY <1>0, <1>1, <1>2, <1>5, <2>1 DEF Noticed
  <2>3. screen # "wizard" /\ ~d.stale /\ d.token # NoId /\ run'[d.token] # "none" /\ d.created = NoId => Told(d.token)'
    BY <1>0, <1>1, <1>2, <1>5, <2>1 DEF Noticed
  <2>4. w' = w /\ d' = d /\ screen' = screen  BY <1>1
  <2> QED  BY <2>2, <2>3, <2>4 DEF Noticed
<1> QED  BY <1>3, <1>4, <1>6 DEF WaitInv

(***************************************************************************)
(* The server.                                                             *)
(***************************************************************************)
LEMMA AnswerShape ==
  ASSUME WaitInv, NEW i \in Wires, NEW arg, NEW val, Screens!Answer(i, arg, val)
  PROVE  /\ DOMAIN net' = Wires /\ \A j \in Wires \ {i} : net'[j] = net[j]
         /\ DOMAIN net'[i] = DOMAIN Screens!NoWire /\ net'[i].live = net[i].live /\ net'[i].live \in BOOLEAN
         /\ net'[i].what = net[i].what /\ net'[i].at = "answered" /\ net'[i].arg = arg /\ net'[i].val = val
         /\ net'[i].old = net[i].old
<1>1. DOMAIN net = Wires /\ DOMAIN net[i] = DOMAIN Screens!NoWire /\ net[i].live \in BOOLEAN
  BY DEF WaitInv, NetFits, WireFits
<1> DEFINE r == [net[i] EXCEPT !.at = "answered", !.arg = arg, !.val = val]
<1>2. net' = [net EXCEPT ![i] = r]  BY <1>1 DEF Screens!Answer
<1>3. /\ DOMAIN r = DOMAIN Screens!NoWire /\ r.live = net[i].live /\ r.what = net[i].what /\ r.at = "answered"
      /\ r.arg = arg /\ r.val = val /\ r.old = net[i].old
  BY <1>1, WireShape
<1> HIDE DEF r
<1>4. net'[i] = r /\ DOMAIN net' = Wires /\ \A j \in Wires \ {i} : net'[j] = net[j]  BY <1>1, <1>2
<1> QED  BY <1>1, <1>3, <1>4

(* A poll of a key is answered: the result is read and removed. *)
LEMMA ClaimServed ==
  ASSUME WaitInv, NEW i \in Wires, Screens!ServeClaim(i), net[i].at = "sent",
         UNCHANGED <<screen, w, d, keys, pasted, run, missed>>
  PROVE  WaitInv'
<1>0. WireFits(net[i]) /\ ScreenTyped  BY DEF WaitInv, NetFits
<1> DEFINE c == net[i].arg
           val == IF c \in results THEN "found" ELSE "nothing"
<1>1. net[i].what = "claimStatus" /\ Screens!Answer(i, c, val) /\ results' = results \ {c}
  BY DEF Screens!ServeClaim
<1>2. (c \in results => val = "found")  OBVIOUS
<1>3. net[i].val # "found"  BY <1>0 DEF WireFits
<1> HIDE DEF val
<1>4. UiStays  BY UiStaysThere
<1>5. /\ DOMAIN net' = Wires /\ \A j \in Wires \ {i} : net'[j] = net[j]
      /\ DOMAIN net'[i] = DOMAIN Screens!NoWire /\ net'[i].live \in BOOLEAN
      /\ net'[i].what = "claimStatus" /\ net'[i].at = "answered" /\ net'[i].arg = c /\ net'[i].val = val
      /\ net'[i].old = net[i].old
  BY <1>1, AnswerShape
<1>6. \A j \in Wires \ {i} : Still(j)  BY <1>5 DEF WaitInv, NetFits, WireFits, Still
<1>7. WireFits(net[i])'  BY <1>0, <1>1, <1>5 DEF WireFits, Sole
<1>8. \A j \in Wires \ {i} : MintsApart(net[i], net[j])' /\ MintsApart(net[j], net[i])'  BY <1>5 DEF MintsApart
<1>9. ASSUME NEW x \in Keys, Told(x) PROVE Told(x)'
  <2>1. CASE x \in results \cup missed
    <3>1. CASE x = c /\ x \in results  BY <1>2, <1>5, <3>1 DEF Told
    <3>2. CASE ~(x = c /\ x \in results)  BY <1>1, <2>1, <3>2 DEF Told
    <3> QED  BY <3>1, <3>2
  <2>2. CASE \E j \in Wires : net[j].what = "claimStatus" /\ net[j].arg = x /\ net[j].val = "found"
    <3>1. PICK j \in Wires : net[j].what = "claimStatus" /\ net[j].arg = x /\ net[j].val = "found"  BY <2>2
    <3>2. j # i  BY <1>3, <3>1
    <3> QED  BY <1>5, <3>1, <3>2 DEF Told
  <2> QED  BY <1>9, <2>1, <2>2 DEF Told
<1> QED  BY <1>4, <1>5, <1>6, <1>7, <1>8, <1>9, OneWire

(* A mint is answered, with a key nobody has. *)
LEMMA MintServed ==
  ASSUME WaitInv, NEW i \in Wires, Screens!ServeMint(i), net[i].at = "sent",
         UNCHANGED <<screen, w, d, pasted, missed>>
  PROVE  WaitInv'
<1>0. ScreenTyped /\ ScreenFits /\ NetFits /\ Noticed  BY DEF WaitInv
<1> DEFINE c == CHOOSE unused \in Keys : unused \notin keys
           val == "none"
<1>1. /\ net[i].what = "mintClaim" /\ keys' = keys \cup {c} /\ Screens!Answer(i, c, val)
      /\ Keys # keys /\ UNCHANGED <<run, results>>
  BY DEF Screens!ServeMint
<1>2. c \in Keys /\ c \notin keys
  <2>1. \E x \in Keys : x \notin keys  BY <1>0, <1>1 DEF ScreenTyped
  <2> QED  BY <2>1
<1>3. val # "found"  OBVIOUS
<1> HIDE DEF c, val
<1>4. /\ DOMAIN net' = Wires /\ \A j \in Wires \ {i} : net'[j] = net[j]
      /\ DOMAIN net'[i] = DOMAIN Screens!NoWire /\ net'[i].live \in BOOLEAN
      /\ net'[i].what = "mintClaim" /\ net'[i].at = "answered" /\ net'[i].arg = c /\ net'[i].val # "found"
      /\ net'[i].old = net[i].old
  BY <1>1, <1>3, AnswerShape
<1>5. NoId \notin Keys  BY OnboardingConstants DEF Screens!OnboardingConstantsOK
<1>6. ScreenTyped' /\ ScreenFits' /\ (Sole' <=> Sole)  BY <1>0, <1>1, <1>2 DEF ScreenTyped, ScreenFits, Sole
<1>7. ASSUME NEW j \in Wires PROVE WireFits(net[j])'
  <2>1. WireFits(net[j])  BY <1>0 DEF NetFits
  <2>2. CASE j # i
    <3>1. net'[j] = net[j]  BY <1>4, <2>2
    <3> QED  BY <1>1, <1>6, <2>1, <3>1 DEF WireFits
  <2>3. CASE j = i
    <3>1. c \notin pasted \cup {w.key, d.token}  BY <1>0, <1>2, <1>5 DEF ScreenTyped
    <3> QED  BY <1>1, <1>4, <1>6, <2>1, <2>3, <3>1 DEF WireFits
  <2> QED  BY <2>2, <2>3
<1>8. ASSUME NEW j \in Wires, NEW l \in Wires, j # l PROVE MintsApart(net[j], net[l])'
  <2>1. MintsApart(net[j], net[l]) /\ WireFits(net[j]) /\ WireFits(net[l])  BY <1>0, <1>8 DEF NetFits
  <2>2. CASE j # i /\ l # i
    <3>1. net'[j] = net[j] /\ net'[l] = net[l]  BY <1>4, <2>2
    <3> QED  BY <1>6, <2>1, <3>1 DEF MintsApart
  <2>3. CASE j = i
    <3>1. net'[l] = net[l]  BY <1>4, <1>8, <2>3
    <3>2. net[l].what = "mintClaim" /\ net[l].at = "answered" => net[l].arg # c  BY <1>2, <2>1 DEF WireFits
    <3>3. net[j].what = "mintClaim" /\ net'[j].old = net[j].old /\ net'[j].arg = c  BY <1>1, <1>4, <2>3
    <3> QED  BY <1>6, <2>1, <3>1, <3>2, <3>3 DEF MintsApart
  <2>4. CASE l = i
    <3>1. net'[j] = net[j]  BY <1>4, <1>8, <2>4
    <3>2. net[j].what = "mintClaim" /\ net[j].at = "answered" => net[j].arg # c  BY <1>2, <2>1 DEF WireFits
    <3>3. net[l].what = "mintClaim" /\ net'[l].old = net[l].old /\ net'[l].arg = c  BY <1>1, <1>4, <2>4
    <3> QED  BY <1>6, <2>1, <3>1, <3>2, <3>3 DEF MintsApart
  <2> QED  BY <2>2, <2>3, <2>4
<1>9. NetFits'  BY <1>4, <1>7, <1>8 DEF NetFits
<1>10. ASSUME NEW x, Told(x) PROVE Told(x)'
  <2>1. CASE x \in results \cup missed  BY <1>1, <2>1 DEF Told
  <2>2. CASE \E j \in Wires : net[j].what = "claimStatus" /\ net[j].arg = x /\ net[j].val = "found"
    <3>1. PICK j \in Wires : net[j].what = "claimStatus" /\ net[j].arg = x /\ net[j].val = "found"  BY <2>2
    <3>2. j # i  BY <1>1, <3>1
    <3> QED  BY <1>4, <3>1, <3>2 DEF Told
  <2> QED  BY <1>10, <2>1, <2>2 DEF Told
<1>11. Noticed'  BY <1>0, <1>1, <1>10 DEF Noticed
<1> QED  BY <1>6, <1>9, <1>11 DEF WaitInv

LEMMA ServedKeeps == ASSUME WaitInv, NEW i \in Wires, Screens!Serve(i) PROVE WaitInv'
<1>0. WireFits(net[i])  BY DEF WaitInv, NetFits
<1>1. net[i].at = "sent" /\ UNCHANGED <<screen, w, d, pasted, missed>>
  BY DEF Screens!Serve, Screens!ui, Screens!history
<1>2. ASSUME NEW arg, NEW val, Screens!Answer(i, arg, val), UNCHANGED <<keys, run, results>>,
             net[i].what \notin {"mintClaim", "claimStatus"}
      PROVE  WaitInv'
  <2>1. UiStays  BY <1>1, <1>2, UiStaysThere
  <2>2. /\ DOMAIN net' = Wires /\ \A j \in Wires \ {i} : net'[j] = net[j]
        /\ DOMAIN net'[i] = DOMAIN Screens!NoWire /\ net'[i].live \in BOOLEAN
        /\ net'[i].what = net[i].what /\ net'[i].at = "answered"
    BY <1>2, AnswerShape
  <2> QED  BY <1>1, <1>2, <2>1, <2>2, CalmWire
<1>3. CASE Screens!ServeCreate(i)
  <2> DEFINE m == CHOOSE unused \in Machines : ~mach[unused].minted
             val == "none"
  <2>1. Screens!Answer(i, m, val) /\ UNCHANGED <<keys, run, results>> /\ net[i].what \notin {"mintClaim", "claimStatus"}
    BY <1>3 DEF Screens!ServeCreate
  <2> HIDE DEF m, val
  <2> QED  BY <1>2, <2>1
<1>4. CASE Screens!ServeStatus(i)
  <2> DEFINE m == net[i].arg
             val == IF mach[m].row /\ mach[m].online THEN "online" ELSE "offline"
  <2>1. Screens!Answer(i, m, val) /\ UNCHANGED <<keys, run, results>> /\ net[i].what \notin {"mintClaim", "claimStatus"}
    BY <1>4 DEF Screens!ServeStatus, Screens!server
  <2> HIDE DEF m, val
  <2> QED  BY <1>2, <2>1
<1>5. CASE Screens!ServeFinalize(i) \/ Screens!ServeDelete(i)
  <2> DEFINE m == net[i].arg
             val == "none"
  <2>1. Screens!Answer(i, m, val) /\ UNCHANGED <<keys, run, results>> /\ net[i].what \notin {"mintClaim", "claimStatus"}
    BY <1>5 DEF Screens!ServeFinalize, Screens!ServeDelete
  <2> HIDE DEF m, val
  <2> QED  BY <1>2, <2>1
<1>6. CASE Screens!ServeFirstRun(i)
  <2>1. PICK up \in BOOLEAN : Screens!Answer(i, net[i].arg, Screens!FirstRunStateFrom(run[net[i].arg], up))
    BY <1>6 DEF Screens!ServeFirstRun
  <2> DEFINE m == net[i].arg
             val == Screens!FirstRunStateFrom(run[net[i].arg], up)
  <2>2. Screens!Answer(i, m, val) /\ UNCHANGED <<keys, run, results>> /\ net[i].what \notin {"mintClaim", "claimStatus"}
    BY <1>6, <2>1 DEF Screens!ServeFirstRun, Screens!server
  <2> HIDE DEF m, val
  <2> QED  BY <1>2, <2>2
<1>7. CASE Screens!ServeClaim(i)
  <2>1. UNCHANGED <<keys, run>>  BY <1>7 DEF Screens!ServeClaim
  <2> QED  BY <1>1, <1>7, <2>1, ClaimServed
<1>8. CASE Screens!ServeMint(i)  BY <1>1, <1>8, MintServed
<1> QED  BY <1>3, <1>4, <1>5, <1>6, <1>7, <1>8 DEF Screens!Serve

(***************************************************************************)
(* The answers.                                                            *)
(***************************************************************************)
LEMMA MachineAnswers ==
  ASSUME WaitInv, NEW i \in Wires, screen' = screen,
         Screens!MachineMinted(i) \/ Screens!MachineSeen(i) \/ Screens!Dismissed(i) \/ Screens!RunSeen(i)
  PROVE  WaitInv'
<1>0. ScreenTyped /\ ScreenFits  BY DEF WaitInv
<1>1. UNCHANGED <<d, keys, pasted, run, results, missed>> /\ net[i].what # "claimStatus"
  BY DEF Screens!MachineMinted, Screens!MachineSeen, Screens!Dismissed, Screens!RunSeen, Screens!server, Screens!history
<1>2. ASSUME w' = w \/ (DOMAIN w' = DOMAIN w /\ w'.step = w.step /\ w'.key = w.key /\ w'.mounted = w.mounted)
      PROVE  UiStays
  <2>1. DOMAIN w' = DOMAIN Screens!Fresh /\ w'.step = w.step /\ w'.key = w.key /\ w'.mounted = w.mounted
    BY <1>0, <1>2 DEF ScreenTyped
  <2> QED  BY <1>0, <1>1, <2>1 DEF UiStays, ScreenTyped, ScreenFits
<1>3. CASE Screens!MachineMinted(i)
  <2>1. (w' = [w EXCEPT !.machine = net[i].arg] \/ w' = w) /\ Screens!Free(i)  BY <1>3 DEF Screens!MachineMinted
  <2>2. UiStays  BY <1>0, <1>2, <2>1, WizardShape DEF ScreenTyped
  <2> QED  BY <1>1, <2>1, <2>2, FreeStays
<1>4. CASE Screens!MachineSeen(i)
  <2> DEFINE r == [Screens!NoWire EXCEPT !.what = "finalize", !.at = "sent", !.arg = net[i].arg, !.live = TRUE]
  <2>1. \/ w' = [w EXCEPT !.online = TRUE] /\ net' = [net EXCEPT ![i] = r]
        \/ w' = w /\ Screens!Free(i)
    BY <1>4 DEF Screens!MachineSeen
  <2>2. UiStays  BY <1>0, <1>2, <2>1, WizardShape DEF ScreenTyped
  <2>3. CASE w' = w /\ Screens!Free(i)  BY <1>1, <2>2, <2>3, FreeStays
  <2>4. CASE net' = [net EXCEPT ![i] = r]
    <3>1. /\ DOMAIN r = DOMAIN Screens!NoWire /\ r.live = TRUE /\ r.what \notin {"mintClaim", "claimStatus"}
          /\ r.val # "found"
      BY WireShape
    <3> HIDE DEF r
    <3>2. DOMAIN net' = Wires /\ net'[i] = r /\ \A j \in Wires \ {i} : net'[j] = net[j]  BY <2>4 DEF WaitInv, NetFits
    <3> QED  BY <1>1, <2>2, <3>1, <3>2, CalmWire
  <2> QED  BY <2>1, <2>3, <2>4
<1>5. CASE Screens!Dismissed(i)
  <2>1. w' = w /\ Screens!Free(i)  BY <1>5 DEF Screens!Dismissed
  <2> QED  BY <1>1, <1>2, <2>1, FreeStays
<1>6. CASE Screens!RunSeen(i)
  <2> DEFINE n == IF net[i].val # "scheduled" THEN 0
                  ELSE IF w.scheduled < SettlePolls THEN w.scheduled + 1 ELSE w.scheduled
  <2>1. w' = [w EXCEPT !.shows = net[i].val, !.scheduled = n] /\ Screens!Free(i)
    BY <1>0, <1>6, WizardShape DEF Screens!RunSeen, ScreenTyped
  <2> HIDE DEF n
  <2>2. UiStays  BY <1>0, <1>2, <2>1, WizardShape DEF ScreenTyped
  <2> QED  BY <1>1, <2>1, <2>2, FreeStays
<1> QED  BY <1>3, <1>4, <1>5, <1>6

LEMMA FreedNet ==
  ASSUME WaitInv, NEW i \in Wires, Screens!Free(i)
  PROVE  /\ DOMAIN net' = Wires /\ \A j \in Wires \ {i} : net'[j] = net[j]
         /\ net'[i] = Screens!NoWire
         /\ \A x : Told(x) /\ results' = results /\ missed' = missed
                    /\ ~(net[i].what = "claimStatus" /\ net[i].val = "found" /\ net[i].arg = x) => Told(x)'
<1>1. DOMAIN net' = Wires /\ net'[i] = Screens!NoWire /\ \A j \in Wires \ {i} : net'[j] = net[j]
  BY DEF Screens!Free, WaitInv, NetFits
<1>2. ASSUME NEW x, Told(x), results' = results, missed' = missed,
             ~(net[i].what = "claimStatus" /\ net[i].val = "found" /\ net[i].arg = x)
      PROVE  Told(x)'
  <2>1. CASE x \in results \cup missed  BY <1>2, <2>1 DEF Told
  <2>2. CASE \E j \in Wires : net[j].what = "claimStatus" /\ net[j].arg = x /\ net[j].val = "found"
    <3>1. PICK j \in Wires : net[j].what = "claimStatus" /\ net[j].arg = x /\ net[j].val = "found"  BY <2>2
    <3>2. j # i  BY <1>2, <3>1
    <3> QED  BY <1>1, <3>1, <3>2 DEF Told
  <2> QED  BY <1>2, <2>1, <2>2 DEF Told
<1> QED  BY <1>1, <1>2

(* A key arrives at the screen: it is of no loop yet, and the dialog shows it unless it is stale. *)
LEMMA KeyMintedKeeps ==
  ASSUME WaitInv, NEW i \in Wires, Screens!KeyMinted(i), net[i].at = "answered", screen' = screen
  PROVE  WaitInv'
<1>0. ScreenTyped /\ ScreenFits /\ NetFits /\ Noticed /\ WireFits(net[i])  BY DEF WaitInv, NetFits
<1> DEFINE c == net[i].arg
<1>1. /\ net[i].what = "mintClaim" /\ Screens!Free(i) /\ UNCHANGED <<keys, pasted, run, results, missed>>
      /\ IF screen = "wizard" THEN w' = [w EXCEPT !.key = c] /\ d' = d
         ELSE d' = [d EXCEPT !.token = c, !.stale = d.stale \/ net[i].old] /\ w' = w
  BY <1>0, ComposeShape DEF Screens!KeyMinted, Screens!server, Screens!history, ScreenTyped
<1>2. c \in keys /\ c \notin pasted \cup {w.key, d.token} /\ c \in Keys /\ run[c] = "none" /\ c # NoId
  BY <1>0, <1>1, OnboardingConstants DEF WireFits, ScreenTyped, Screens!OnboardingConstantsOK
<1>3. DOMAIN net' = Wires /\ net'[i] = Screens!NoWire /\ \A j \in Wires \ {i} : net'[j] = net[j]  BY <1>1, FreedNet
<1>4. \A x : Told(x) => Told(x)'  BY <1>1, FreedNet
<1>5. ASSUME NEW j \in Wires \ {i}
      PROVE  net[j].what = "mintClaim" /\ net[j].at = "answered" => net[j].arg # c
  BY <1>0, <1>1 DEF NetFits, MintsApart
<1>6. CASE screen = "wizard"
  <2>1. /\ d' = d /\ DOMAIN w' = DOMAIN Screens!Fresh /\ w'.key = c /\ w'.step = w.step
    BY <1>0, <1>1, <1>6, WizardShape DEF ScreenTyped
  <2>2. ScreenTyped' /\ ScreenFits'  BY <1>0, <1>1, <1>2, <1>6, <2>1 DEF ScreenTyped, ScreenFits, Sole
  <2>3. ASSUME NEW j \in Wires PROVE WireFits(net[j])'
    <3>1. CASE j = i  BY <1>3, <3>1, WireShape DEF WireFits
    <3>2. CASE j # i
      <4>1. WireFits(net[j]) /\ net'[j] = net[j]  BY <1>0, <1>3, <3>2 DEF NetFits
      <4>2. net[j].what = "mintClaim" /\ net[j].at = "answered" => net[j].arg # c  BY <1>5, <3>2
      <4> QED  BY <1>1, <1>6, <2>1, <4>1, <4>2 DEF WireFits, Sole
    <3> QED  BY <3>1, <3>2
  <2>4. ASSUME NEW j \in Wires, NEW l \in Wires, j # l PROVE MintsApart(net[j], net[l])'
    <3>1. MintsApart(net[j], net[l])  BY <1>0, <2>4 DEF NetFits
    <3>2. CASE j = i \/ l = i  BY <1>3, <3>2, WireShape DEF MintsApart
    <3>3. CASE j # i /\ l # i
      <4>1. net'[j] = net[j] /\ net'[l] = net[l]  BY <1>3, <3>3
      <4> QED  BY <2>1, <3>1, <4>1 DEF MintsApart, Sole
    <3> QED  BY <3>2, <3>3
  <2>5. NetFits'  BY <1>3, <2>3, <2>4 DEF NetFits
  <2>6. Noticed'  BY <1>1, <1>2, <1>6, <2>1 DEF Noticed
  <2> QED  BY <2>2, <2>5, <2>6 DEF WaitInv
<1>7. CASE screen # "wizard"
  <2>1. /\ w' = w /\ DOMAIN d' = DOMAIN Screens!Closed /\ d'.token = c /\ (d'.stale <=> d.stale \/ net[i].old)
        /\ d'.copied = d.copied /\ d'.created = d.created /\ d'.host = d.host /\ d'.open = d.open
        /\ d'.twice = d.twice
    BY <1>0, <1>1, <1>7, ComposeShape DEF ScreenTyped
  <2>2. Sole' => Sole /\ d.host /\ d.token = NoId /\ d.created = NoId /\ d.copied = NoId
    BY <1>0, <1>1, <1>7, <2>1 DEF WireFits, ScreenFits, Sole
  <2>3. ScreenTyped' /\ ScreenFits'  BY <1>0, <1>1, <1>2, <1>7, <2>1, <2>2 DEF ScreenTyped, ScreenFits
  <2>4. ASSUME NEW j \in Wires PROVE WireFits(net[j])'
    <3>1. CASE j = i  BY <1>3, <3>1, WireShape DEF WireFits
    <3>2. CASE j # i
      <4>1. WireFits(net[j]) /\ net'[j] = net[j]  BY <1>0, <1>3, <3>2 DEF NetFits
      <4>2. net[j].what = "mintClaim" /\ net[j].at = "answered" => net[j].arg # c  BY <1>5, <3>2
      <4>3. Sole' => net[j].old \/ net[j].what \notin {"mintClaim", "claimStatus"}
        <5>1. MintsApart(net[i], net[j])  BY <1>0, <3>2 DEF NetFits
        <5>2. NoId \notin keys  BY <1>0, OnboardingConstants DEF ScreenTyped, Screens!OnboardingConstantsOK
        <5>3. Sole' => ~net[i].old  BY <2>1 DEF Sole
        <5> QED  BY <1>1, <1>7, <2>1, <2>2, <4>1, <5>1, <5>2, <5>3 DEF WireFits, MintsApart
      <4> QED  BY <1>1, <2>1, <4>1, <4>2, <4>3 DEF WireFits
    <3> QED  BY <3>1, <3>2
  <2>5. ASSUME NEW j \in Wires, NEW l \in Wires, j # l PROVE MintsApart(net[j], net[l])'
    <3>1. MintsApart(net[j], net[l])  BY <1>0, <2>5 DEF NetFits
    <3>2. CASE j = i \/ l = i  BY <1>3, <3>2, WireShape DEF MintsApart
    <3>3. CASE j # i /\ l # i
      <4>1. net'[j] = net[j] /\ net'[l] = net[l]  BY <1>3, <3>3
      <4> QED  BY <1>1, <2>1, <2>2, <3>1, <4>1 DEF MintsApart
    <3> QED  BY <3>2, <3>3
  <2>6. NetFits'  BY <1>3, <2>4, <2>5 DEF NetFits
  <2>7. Noticed'
    <3>1. w.key = NoId  BY <1>0, <1>7 DEF ScreenFits
    <3> QED  BY <1>1, <1>2, <2>1, <3>1 DEF Noticed
  <2> QED  BY <2>3, <2>6, <2>7 DEF WaitInv
<1> QED  BY <1>6, <1>7

(* A screen learns of a loop. *)
LEMMA ClaimSeenKeeps ==
  ASSUME WaitInv, NEW i \in Wires, Screens!ClaimSeen(i), screen' = screen
  PROVE  WaitInv'
<1>0. ScreenTyped /\ ScreenFits /\ NetFits /\ Noticed /\ WireFits(net[i])  BY DEF WaitInv, NetFits
<1> DEFINE c == net[i].arg
<1>1. /\ net[i].what = "claimStatus" /\ Screens!Free(i) /\ UNCHANGED <<keys, pasted, run, results, missed>>
      /\ IF screen = "wizard"
         THEN w' = (IF net[i].val = "found" THEN [w EXCEPT !.loop = c, !.step = Len(Screens!Steps), !.asked = FALSE] ELSE w)
              /\ d' = d
         ELSE d' = (IF net[i].val = "found" THEN [d EXCEPT !.created = c, !.stale = d.stale \/ net[i].old] ELSE d)
              /\ w' = w
  BY <1>0, ComposeShape DEF Screens!ClaimSeen, Screens!server, Screens!history, ScreenTyped
<1>2. CASE net[i].val # "found"
  <2>1. UNCHANGED <<w, d>>  BY <1>1, <1>2
  <2>2. UiStays  BY <1>1, <2>1, UiStaysThere
  <2> QED  BY <1>1, <1>2, <2>2, FreeStays
<1>3. CASE net[i].val = "found"
  <2>1. DOMAIN net' = Wires /\ net'[i] = Screens!NoWire /\ \A j \in Wires \ {i} : net'[j] = net[j]  BY <1>1, FreedNet
  <2>2. /\ UNCHANGED <<screen, keys, pasted, run>> /\ w'.key = w.key /\ w'.mounted = w.mounted /\ w'.step \in {w.step, 5}
        /\ DOMAIN w' = DOMAIN Screens!Fresh
        /\ DOMAIN d' = DOMAIN Screens!Closed /\ d'.token = d.token /\ d'.copied = d.copied /\ d'.host = d.host
        /\ d'.open = d.open /\ d'.twice = d.twice
        /\ (screen = "wizard" => w'.step = 5 /\ d' = d)
        /\ (screen # "wizard" => d'.created = c /\ (d'.stale <=> d.stale \/ net[i].old))
    <3>1. CASE screen = "wizard"
      <4>1. w' = [w EXCEPT !.loop = c, !.step = 5, !.asked = FALSE] /\ d' = d
        BY <1>0, <1>1, <1>3, <3>1, StepOf DEF ScreenTyped
      <4>2. w'.key = w.key /\ w'.mounted = w.mounted /\ w'.step = 5 /\ DOMAIN w' = DOMAIN Screens!Fresh
        BY <1>0, <4>1, WizardShape DEF ScreenTyped
      <4> QED  BY <1>0, <1>1, <3>1, <4>1, <4>2 DEF ScreenTyped
    <3>2. CASE screen # "wizard"
      <4>1. d' = [d EXCEPT !.created = c, !.stale = d.stale \/ net[i].old] /\ w' = w  BY <1>1, <1>3, <3>2
      <4>2. /\ DOMAIN d' = DOMAIN Screens!Closed /\ d'.token = d.token /\ d'.copied = d.copied /\ d'.host = d.host
            /\ d'.twice = d.twice /\ d'.open = d.open /\ d'.created = c /\ (d'.stale <=> d.stale \/ net[i].old)
        BY <1>0, <4>1, ComposeShape DEF ScreenTyped
      <4> QED  BY <1>0, <1>1, <3>2, <4>1, <4>2 DEF ScreenTyped
    <3> QED  BY <3>1, <3>2
  <2>3. ScreenTyped'  BY <1>0, <2>2 DEF ScreenTyped
  <2>4. c # NoId /\ (screen # "wizard" /\ Sole' => c = d.token /\ Sole)
    BY <1>0, <1>1, <2>2 DEF WireFits, Sole
  <2>a. screen = "wizard" => (Sole' <=> Sole)  BY <2>2 DEF Sole
  <2>5. ScreenFits'  BY <1>0, <2>2, <2>4 DEF ScreenFits
  <2>6. ASSUME NEW j \in Wires PROVE WireFits(net[j])'
    <3>1. CASE j = i  BY <2>1, <3>1, WireShape DEF WireFits
    <3>2. CASE j # i
      <4>1. WireFits(net[j]) /\ net'[j] = net[j]  BY <1>0, <2>1, <3>2 DEF NetFits
      <4> QED  BY <2>2, <2>4, <2>a, <4>1 DEF WireFits
    <3> QED  BY <3>1, <3>2
  <2>7. ASSUME NEW j \in Wires, NEW l \in Wires, j # l PROVE MintsApart(net[j], net[l])'
    <3>1. MintsApart(net[j], net[l])  BY <1>0, <2>7 DEF NetFits
    <3>2. CASE j = i \/ l = i  BY <2>1, <3>2, WireShape DEF MintsApart
    <3>3. CASE j # i /\ l # i
      <4>1. net'[j] = net[j] /\ net'[l] = net[l]  BY <2>1, <3>3
      <4> QED  BY <2>2, <2>4, <2>a, <3>1, <4>1 DEF MintsApart
    <3> QED  BY <3>2, <3>3
  <2>8. NetFits'  BY <2>1, <2>6, <2>7 DEF NetFits
  <2>9. Noticed'
    <3>1. CASE screen = "wizard"
      <4>1. w'.step = 5 /\ screen' = "wizard"  BY <2>2, <3>1
      <4> QED  BY <4>1 DEF Noticed
    <3>2. CASE screen # "wizard"
      <4>1. w'.key = NoId  BY <1>0, <2>2, <3>2 DEF ScreenFits
      <4>2. d'.stale \/ d'.created # NoId  BY <2>2, <2>4, <3>2
      <4> QED  BY <4>1, <4>2 DEF Noticed
    <3> QED  BY <3>1, <3>2
  <2> QED  BY <2>3, <2>5, <2>8, <2>9 DEF WaitInv
<1> QED  BY <1>2, <1>3

(* A request or an answer is lost; a result that was read is missed. *)
LEMMA DropKeeps == ASSUME WaitInv, NEW i \in Wires, Screens!Drop(i) PROVE WaitInv'
<1>0. WireFits(net[i])  BY DEF WaitInv, NetFits
<1>1. /\ Screens!Free(i) /\ UNCHANGED <<screen, w, d, keys, pasted, run, results>>
      /\ missed' = IF net[i].at = "answered" /\ net[i].val = "found" THEN missed \cup {net[i].arg} ELSE missed
  BY DEF Screens!Drop, Screens!server
<1>2. UiStays  BY <1>1, UiStaysThere
<1>3. net[i].val = "found" => net[i].arg \in missed'  BY <1>0, <1>1 DEF WireFits
<1> QED  BY <1>1, <1>2, <1>3, FreeStays

LEMMA ScreensStep == ASSUME WaitInv, Screens!Next PROVE WaitInv'
<1>1. ASSUME NEW i \in Wires, Screens!Receive(i) PROVE WaitInv'
  <2>1. net[i].at = "answered" /\ screen' = screen  BY <1>1 DEF Screens!Receive
  <2> QED  BY <1>1, <2>1, MachineAnswers, KeyMintedKeeps, ClaimSeenKeeps DEF Screens!Receive
<1>2. ASSUME NEW i \in Wires, Screens!Serve(i) \/ Screens!Receive(i) \/ Screens!Drop(i) PROVE WaitInv'
  BY <1>1, <1>2, ServedKeeps, DropKeeps
<1>3. CASE Screens!Mount \/ Screens!Continue \/ Screens!Back \/ Screens!Leave \/ Screens!Finish  BY <1>3, WizardMoves
<1>4. CASE \/ Screens!AskMachine \/ Screens!AskKey \/ Screens!WizardPolls \/ Screens!PickHost \/ Screens!ComposePolls
           \/ Screens!StartConnect \/ Screens!ConnectPolls \/ Screens!Cancel \/ Screens!Done
  BY <1>4, AsksKeep
<1>5. CASE Screens!Open \/ Screens!Close \/ Screens!Copy
  BY <1>5, ScreenOpenKeeps, ScreenCloseKeeps, CopyKeeps
<1>6. CASE \/ Screens!Restart
           \/ \E m \in Machines : Screens!DaemonPolls(m) \/ Screens!GoesOffline(m) \/ Screens!LoopOnMachine(m)
           \/ \E c \in Keys : Screens!RunMoves(c)
  BY <1>6, OutsideKeeps
<1>7. CASE \E c \in Keys : Screens!CreateLoop(c)  BY <1>7, LoopCreateKeeps
<1> QED  BY <1>2, <1>3, <1>4, <1>5, <1>6, <1>7 DEF Screens!Next

(* OnboardingWizard, ComposeModal, readClaim: for any keys, machines and requests in flight, a screen that waits *)
(* for the loop of its key will learn of it, unless the one reading of the result was lost, or the dialog shows  *)
(* another key instead of the copied one: an earlier opening's, or the other of an opening that asked twice.     *)
THEOREM CreatedIsNoticedHolds == Screens!Spec => []CreatedIsNoticed
<1>1. WaitInv /\ [Screens!Next]_(Screens!vars) => WaitInv'
  <2>1. ASSUME WaitInv, UNCHANGED Screens!vars PROVE WaitInv'
    <3>1. UNCHANGED <<screen, w, d, keys, pasted, run, results, missed, net>>
      BY <2>1 DEF Screens!vars
    <3>2. UiStays  BY <2>1, <3>1, UiStaysThere
    <3> QED  BY <2>1, <3>1, <3>2, NetSame, AllStill
  <2> QED  BY <2>1, ScreensStep
<1>2. WaitInv => CreatedIsNoticed
  <2> SUFFICES ASSUME WaitInv PROVE CreatedIsNoticed
    OBVIOUS
  <2>0. ScreenTyped /\ ScreenFits /\ NetFits /\ Noticed  BY DEF WaitInv
  <2>1. ASSUME NEW c, Told(c) PROVE Screens!Coming(c) \/ Screens!Lost(c)
    <3>1. \A i \in Wires : net[i].live \in BOOLEAN  BY <2>0 DEF NetFits, WireFits
    <3> QED  BY <2>1, <3>1 DEF Told, Screens!Coming, Screens!Lost, Screens!OnItsWay
  <2>2. Screens!At("prompt") /\ w.key # NoId /\ run[w.key] # "none" => Screens!Coming(w.key) \/ Screens!Lost(w.key)
    <3>1. Screens!At("prompt") => w.step = 4  BY <2>0, StepOf DEF ScreenTyped
    <3> QED  BY <2>0, <2>1, <3>1 DEF Noticed
  <2>3. ASSUME d.copied # NoId, run[d.copied] # "none", ~d.stale, d.created # d.copied, ~(d.twice /\ Screens!Another)
        PROVE  Screens!Awaited \/ Screens!Lost(d.copied)
    <3>1. screen # "wizard"  BY <2>0, <2>3 DEF ScreenFits
    <3>2. d.copied = d.token /\ d.created = NoId
      <4>1. CASE Sole  BY <2>0, <2>3, <3>1, <4>1 DEF ScreenFits
      <4>2. CASE ~Screens!Another  BY <2>3, <4>2 DEF Screens!Another
      <4> QED  BY <2>3, <4>1, <4>2 DEF Sole
    <3>3. Told(d.copied)  BY <2>0, <2>3, <3>1, <3>2 DEF Noticed
    <3> QED  BY <2>1, <3>2, <3>3 DEF Screens!Awaited
  <2> QED  BY <2>2, <2>3 DEF CreatedIsNoticed, Screens!CreatedIsNoticed
<1> QED  BY <1>1, <1>2, WaitStart, PTL DEF Screens!Spec

==============================================================================
