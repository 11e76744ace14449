---------------------------- MODULE AccountsProofs ----------------------------
(***************************************************************************)
(* An invite grants once, a team keeps an owner and a retried create is    *)
(* replayed, for any number of users, teams, invites, machines, loops and  *)
(* requests in flight.                                                     *)
(***************************************************************************)
EXTENDS Accounts, FiniteSetTheorems, TLAPS

(***************************************************************************)
(* Shapes: what a request carries once it has come.                        *)
(***************************************************************************)
MemberOps == {"setRole", "remove", "leave"}

Shape(q) ==
    /\ q.op \in MemberOps \cup {"deleteTeam", "add", "invite", "redeem", "machine", "enrol", "create"} => q.team \in Teams
    /\ q.op \in MemberOps \cup {"add", "redeem"} => q.who \in Users
    /\ q.op \in {"add", "setRole", "invite", "redeem"} => q.role \in Role
    /\ q.op \in {"invite", "revoke", "redeem"} => q.invite \in Invites
    /\ q.op \in {"machine", "enrol", "create"} => q.by \in Users
    /\ q.op \in {"machine", "enrol", "deleteMachine", "create"} => q.machine \in Machines
    /\ q.op = "create" /\ q.pc = "record" => q.loop \in Loops
    /\ q.op \in MemberOps /\ q.pc \in {"lock", "write"} => q.seen \in Role

ReqsTyped ==
    /\ req \in [Reqs -> Request \cup {NoReq}]
    /\ came \in 0..MaxRequests
    /\ \A r \in Reqs : Shape(req[r])
InvitesTyped == \A i \in Invites : invite[i].st = "live" => invite[i].team \in Teams

Typed == TypeOK /\ ReqsTyped /\ InvitesTyped

LEMMA Absent ==
  AccountsConstantsOK =>
    /\ None \notin Users /\ None \notin Teams /\ None \notin Invites /\ None \notin Machines /\ None \notin Loops
    /\ None \notin Reqs /\ None \notin Role /\ None \notin OpNames /\ None \notin Ops
BY DEF AccountsConstantsOK

LEMMA PersonalTeams == ASSUME AccountsConstantsOK, NEW u \in Users PROVE PersonalTeam(u) \in Teams
BY DEF AccountsConstantsOK, PersonalTeam

LEMMA ScopeIsTeam == ASSUME AccountsConstantsOK, NEW u \in Users, NEW t \in Teams PROVE Scope(u, t) \in Teams
BY PersonalTeams DEF Scope

LEMMA NothingInFlight == AccountsConstantsOK => Shape(NoReq) /\ NoReq.op = None /\ NoReq.pc = "read"
BY Absent DEF Shape, NoReq, MemberOps, OpNames

(* A request in flight, as it comes, goes on and ends. *)
LEMMA Busy ==
  ASSUME AccountsConstantsOK, ReqsTyped, NEW r \in Reqs, NEW ops \in SUBSET OpNames, NEW pc, At(r, ops, pc)
  PROVE  req[r] \in Request /\ req[r].op \in ops /\ req[r].pc = pc /\ Shape(req[r]) /\ req[r] # NoReq
BY Absent, NothingInFlight DEF ReqsTyped, At

LEMMA Begins ==
  ASSUME AccountsConstantsOK, ReqsTyped, NEW r \in Reqs, NEW q, Begin(r, q),
         q.op \in Ops => q \in Request, Shape(q)
  PROVE  ReqsTyped' /\ req[r] = NoReq /\ req'[r] = q /\ \A s \in Reqs \ {r} : req'[s] = req[s]
<1>1. req' = [req EXCEPT ![r] = q] /\ q \in Request /\ came < MaxRequests /\ came' = came + 1 /\ req[r] = NoReq
  BY DEF Begin
<1>2. came' \in 0..MaxRequests
  BY <1>1 DEF ReqsTyped, AccountsConstantsOK
<1>3. req' \in [Reqs -> Request \cup {NoReq}] /\ req'[r] = q /\ \A s \in Reqs \ {r} : req'[s] = req[s]
  BY <1>1 DEF ReqsTyped
<1> QED BY <1>1, <1>2, <1>3 DEF ReqsTyped

LEMMA GoesTo ==
  ASSUME ReqsTyped, NEW r \in Reqs, req[r] \in Request,
         NEW q \in Request, Shape(q), req' = [req EXCEPT ![r] = q], UNCHANGED came
  PROVE  ReqsTyped' /\ req'[r] = q /\ \A s \in Reqs \ {r} : req'[s] = req[s]
BY DEF ReqsTyped

LEMMA GoesOn ==
  ASSUME ReqsTyped, NEW r \in Reqs, req[r] \in Request,
         NEW pc \in {"write", "member", "recount", "claim", "insert"}, GoTo(r, pc),
         pc = "write" /\ req[r].op \in MemberOps => req[r].seen \in Role
  PROVE  /\ ReqsTyped' /\ \A s \in Reqs \ {r} : req'[s] = req[s]
         /\ req'[r].pc = pc /\ req'[r].op = req[r].op /\ req'[r].team = req[r].team /\ req'[r].invite = req[r].invite
         /\ req'[r].seen = req[r].seen /\ req'[r].role = req[r].role /\ req'[r].machine = req[r].machine
         /\ req'[r].claim = req[r].claim /\ req'[r].who = req[r].who
<1> DEFINE q == [req[r] EXCEPT !.pc = pc]
<1>1. q \in Request /\ Shape(req[r])
  BY DEF Request, ReqsTyped
<1>2. /\ q.pc = pc /\ q.op = req[r].op /\ q.team = req[r].team /\ q.invite = req[r].invite /\ q.seen = req[r].seen
      /\ q.role = req[r].role /\ q.machine = req[r].machine /\ q.claim = req[r].claim /\ q.who = req[r].who
      /\ q.by = req[r].by
  BY DEF Request
<1>3. req' = [req EXCEPT ![r] = q] /\ UNCHANGED came
  BY DEF GoTo
<1> HIDE DEF q
<1>4. Shape(q)
  BY <1>1, <1>2 DEF Shape
<1>5. ReqsTyped' /\ req'[r] = q /\ \A s \in Reqs \ {r} : req'[s] = req[s]
  BY <1>1, <1>3, <1>4, GoesTo
<1> QED BY <1>2, <1>5

LEMMA Ends ==
  ASSUME AccountsConstantsOK, ReqsTyped, NEW r \in Reqs, End(r)
  PROVE  ReqsTyped' /\ req'[r] = NoReq /\ \A s \in Reqs \ {r} : req'[s] = req[s]
BY NothingInFlight DEF ReqsTyped, End

(* The rows. *)
LEMMA RoleTyped ==
  ASSUME role \in [Teams -> [Users -> Role \cup {None}]], NEW t, NEW u, NEW v,
         t \in Teams /\ u \in Users => v \in Role \cup {None},
         role' = [role EXCEPT ![t][u] = v]
  PROVE  role' \in [Teams -> [Users -> Role \cup {None}]]
OBVIOUS

LEMMA MadeTyped ==
  ASSUME NEW f \in Made, NEW m \in Machines, NEW c \in Machines \cup {None}, NEW l \in Loops \cup {None}
  PROVE  [f EXCEPT ![m][c] = l] \in Made
BY DEF Made

LEMMA StampTyped ==
  ASSUME NEW i \in Invite, NEW st \in {"unborn", "live", "expired", "spent", "gone"}
  PROVE  [i EXCEPT !.st = st] \in Invite /\ [i EXCEPT !.st = st].st = st
BY DEF Invite

LEMMA NothingMadeTyped == NothingMade \in Made
BY DEF Made, NothingMade

LEMMA OnlyRequests ==
  ASSUME Typed, ReqsTyped', UNCHANGED <<tables, ensured, lock, idem, history>>
  PROVE  Typed'
BY DEF Typed, TypeOK, ReqsTyped, InvitesTyped, tables, history
LEMMA TypedInit == AccountsConstantsOK /\ Init => Typed
<1> SUFFICES ASSUME AccountsConstantsOK, Init PROVE Typed
  OBVIOUS
<1>1. ReqsTyped
  BY NothingInFlight DEF Init, ReqsTyped, AccountsConstantsOK
<1>2. invite \in [Invites -> Invite] /\ InvitesTyped
  BY DEF Init, Invite, Role, InvitesTyped
<1> QED BY <1>1, <1>2, NothingMadeTyped DEF Init, Typed, TypeOK, ReqsTyped

LEMMA TypedTeams ==
  ASSUME AccountsConstantsOK, Typed, NEW r \in Reqs, TeamStep(r)
  PROVE  Typed'
<1>0. TypeOK /\ ReqsTyped /\ InvitesTyped
  BY DEF Typed
<1>a. None \notin Teams /\ \A m \in Machines : machine[m] # NoMachine => machine[m] \in Machine
  BY <1>0, Absent DEF TypeOK
<1>1. ASSUME NEW u \in Users, NEW t \in Teams, DeleteTeamBegin(r, u, t) PROVE Typed'
  <2> DEFINE q == [NoReq EXCEPT !.op = "deleteTeam", !.pc = "count", !.by = u, !.team = t]
  <2>1. (q.op \in Ops => q \in Request) /\ Shape(q)
    BY DEF NoReq, Request, Shape, MemberOps
  <2> HIDE DEF q
  <2>2. ReqsTyped'
    BY <1>0, <1>1, <2>1, Begins DEF DeleteTeamBegin, q
  <2> QED BY <1>0, <1>1, <2>2, OnlyRequests DEF DeleteTeamBegin, Typed
<1>2. ASSUME NEW u \in Users, NEW t \in Teams, LeaveBegin(r, u, t) PROVE Typed'
  <2> DEFINE q == [NoReq EXCEPT !.op = "leave", !.by = u, !.team = t, !.who = u]
  <2>1. (q.op \in Ops => q \in Request) /\ Shape(q)
    BY DEF NoReq, Request, Shape, MemberOps
  <2> HIDE DEF q
  <2>2. ReqsTyped'
    BY <1>0, <1>2, <2>1, Begins DEF LeaveBegin, q
  <2> QED BY <1>0, <1>2, <2>2, OnlyRequests DEF LeaveBegin, Typed
<1>3. ASSUME NEW u \in Users, NEW w \in Users, NEW t \in Teams, RemoveBegin(r, u, t, w) PROVE Typed'
  <2> DEFINE q == [NoReq EXCEPT !.op = "remove", !.by = u, !.team = t, !.who = w]
  <2>1. (q.op \in Ops => q \in Request) /\ Shape(q)
    BY DEF NoReq, Request, Shape, MemberOps
  <2> HIDE DEF q
  <2>2. ReqsTyped'
    BY <1>0, <1>3, <2>1, Begins DEF RemoveBegin, q
  <2> QED BY <1>0, <1>3, <2>2, OnlyRequests DEF RemoveBegin, Typed
<1>4. ASSUME NEW u \in Users, NEW w \in Users, NEW t \in Teams, NEW ro \in Role, AddBegin(r, u, t, w, ro) PROVE Typed'
  <2> DEFINE q == [NoReq EXCEPT !.op = "add", !.pc = "write", !.by = u, !.team = t, !.who = w, !.role = ro]
  <2>1. (q.op \in Ops => q \in Request) /\ Shape(q)
    BY DEF NoReq, Request, Shape, MemberOps
  <2> HIDE DEF q
  <2>2. ReqsTyped'
    BY <1>0, <1>4, <2>1, Begins DEF AddBegin, q
  <2> QED BY <1>0, <1>4, <2>2, OnlyRequests DEF AddBegin, Typed
<1>5. ASSUME NEW u \in Users, NEW w \in Users, NEW t \in Teams, NEW ro \in Role, SetRoleBegin(r, u, t, w, ro) PROVE Typed'
  <2> DEFINE q == [NoReq EXCEPT !.op = "setRole", !.by = u, !.team = t, !.who = w, !.role = ro]
  <2>1. (q.op \in Ops => q \in Request) /\ Shape(q)
    BY DEF NoReq, Request, Shape, MemberOps
  <2> HIDE DEF q
  <2>2. ReqsTyped'
    BY <1>0, <1>5, <2>1, Begins DEF SetRoleBegin, q
  <2> QED BY <1>0, <1>5, <2>2, OnlyRequests DEF SetRoleBegin, Typed
<1>6. ASSUME DeleteTeamCount(r) PROVE Typed'
  <2>1. req[r] \in Request /\ req[r].op \in {"deleteTeam"}
    BY <1>0, <1>6, Busy DEF DeleteTeamCount, OpNames
  <2>2. ReqsTyped'
    BY <1>0, <1>6, <2>1, GoesOn, Ends DEF DeleteTeamCount, MemberOps
  <2> QED BY <1>0, <1>6, <2>2, OnlyRequests DEF DeleteTeamCount, Typed
<1>7. ASSUME DeleteTeamCommit(r) PROVE Typed'
  <2>1. req[r].team \in Teams
    <3>1. At(r, {"deleteTeam"}, "write")
      BY <1>7 DEF DeleteTeamCommit
    <3>2. req[r].op \in {"deleteTeam"} /\ Shape(req[r])
      BY <1>0, <3>1, Busy DEF OpNames
    <3> QED BY <3>2 DEF Shape
  <2>2. ReqsTyped'
    BY <1>0, <1>7, Ends DEF DeleteTeamCommit
  <2>3. machine' \in [Machines -> Machine \cup {NoMachine}]
    <3>1. ASSUME NEW m \in Machines, machine[m].home = req[r].team
          PROVE  [machine[m] EXCEPT !.home = PersonalTeam(machine[m].user)] \in Machine
      <4>1. machine[m] # NoMachine
        BY <1>a, <2>1, <3>1 DEF NoMachine
      <4> QED BY <1>a, <4>1, PersonalTeams DEF Machine
    <3> QED BY <1>0, <1>7, <3>1 DEF DeleteTeamCommit, TypeOK
  <2>4. invite' \in [Invites -> Invite] /\ InvitesTyped'
    <3>1. ASSUME NEW i \in Invites PROVE [invite[i] EXCEPT !.st = "gone"] \in Invite
                                          /\ [invite[i] EXCEPT !.st = "gone"].team = invite[i].team
      BY <1>0 DEF TypeOK, Invite
    <3> QED BY <1>0, <1>7, <3>1 DEF DeleteTeamCommit, TypeOK, InvitesTyped
  <2>5. role' \in [Teams -> [Users -> Role \cup {None}]]
    BY <1>0, <1>7 DEF DeleteTeamCommit, TypeOK
  <2> QED BY <1>0, <1>7, <2>2, <2>3, <2>4, <2>5 DEF DeleteTeamCommit, TypeOK, Typed, ReqsTyped, history
<1>8. ASSUME AddCommit(r) PROVE Typed'
  <2>1. req[r].role \in Role /\ req[r].team \in Teams /\ req[r].who \in Users
    BY <1>0, <1>8, Busy DEF AddCommit, Shape, MemberOps, OpNames
  <2>2. ReqsTyped'
    BY <1>0, <1>8, Ends DEF AddCommit
  <2>3. role' \in [Teams -> [Users -> Role \cup {None}]]
    BY <1>0, <1>8, <2>1 DEF AddCommit, TypeOK
  <2> QED BY <1>0, <1>8, <2>2, <2>3 DEF AddCommit, TypeOK, Typed, ReqsTyped, InvitesTyped, history
<1>9. ASSUME MemberRead(r) PROVE Typed'
  <2> DEFINE seen == role[req[r].team][req[r].who]
             pc == IF seen = "owner" /\ TakesOwner(req[r]) THEN "lock" ELSE "write"
             q == [req[r] EXCEPT !.seen = seen, !.pc = pc]
  <2>1. req[r] \in Request /\ req[r].op \in MemberOps /\ Shape(req[r])
    BY <1>0, <1>9, Busy DEF MemberRead, OpNames, MemberOps
  <2>2. seen \in Role \cup {None}
    BY <1>0, <2>1 DEF Shape, TypeOK
  <2>3. seen # None => q \in Request /\ Shape(q)
    <3>0. pc \in {"lock", "write"}
      OBVIOUS
    <3> HIDE DEF seen, pc
    <3>1. q \in Request
      BY <2>1, <2>2, <3>0 DEF Request
    <3>2. q.op = req[r].op /\ q.team = req[r].team /\ q.who = req[r].who /\ q.role = req[r].role /\ q.seen = seen
      BY <2>1 DEF Request
    <3> HIDE DEF q
    <3> QED BY <2>1, <2>2, <3>1, <3>2 DEF Shape, MemberOps
  <2>4. End(r) \/ (seen # None /\ req' = [req EXCEPT ![r] = q] /\ UNCHANGED came)
    BY <1>9 DEF MemberRead
  <2> HIDE DEF q
  <2>5. ReqsTyped'
    BY <1>0, <2>1, <2>3, <2>4, GoesTo, Ends
  <2> QED BY <1>0, <1>9, <2>5, OnlyRequests DEF MemberRead, Typed
<1>10. ASSUME OwnersLock(r) PROVE Typed'
  <2>1. req[r] \in Request /\ req[r].op \in MemberOps /\ req[r].pc = "lock" /\ Shape(req[r])
    <3>1. At(r, MemberOps, "lock") /\ MemberOps \in SUBSET OpNames
      BY <1>10 DEF OwnersLock, MemberOps, OpNames
    <3> QED BY <1>0, <3>1, Busy
  <2>2. ReqsTyped'
    <3>1. req[r].seen \in Role
      BY <2>1 DEF Shape
    <3> QED BY <1>0, <1>10, <2>1, <3>1, GoesOn, Ends DEF OwnersLock
  <2> QED BY <1>0, <1>10, <2>2 DEF OwnersLock, TypeOK, Typed, ReqsTyped, InvitesTyped, tables, history
<1>11. ASSUME MemberWrite(r) PROVE Typed'
  <2>1. req[r].op = "setRole" => req[r].role \in Role
    BY <1>0, <1>11, Busy DEF MemberWrite, Shape, OpNames
  <2>2. ReqsTyped'
    BY <1>0, <1>11, Ends DEF MemberWrite
  <2>3. role' \in [Teams -> [Users -> Role \cup {None}]]
    BY <1>0, <1>11, <2>1 DEF MemberWrite, TypeOK
  <2> QED BY <1>0, <1>11, <2>2, <2>3 DEF MemberWrite, TypeOK, Typed, ReqsTyped, InvitesTyped, history
<1> QED BY <1>1, <1>2, <1>3, <1>4, <1>5, <1>6, <1>7, <1>8, <1>9, <1>10, <1>11 DEF TeamStep

LEMMA TypedInvites ==
  ASSUME AccountsConstantsOK, Typed, NEW r \in Reqs, InviteStep(r)
  PROVE  Typed'
<1>0. TypeOK /\ ReqsTyped /\ InvitesTyped
  BY DEF Typed
<1>1. ASSUME NEW u \in Users, NEW t \in Teams, NEW i \in Invites, NEW ro \in Role, InviteBegin(r, u, t, i, ro) PROVE Typed'
  <2> DEFINE q == [NoReq EXCEPT !.op = "invite", !.pc = "write", !.by = u, !.team = t, !.invite = i, !.role = ro]
  <2>1. (q.op \in Ops => q \in Request) /\ Shape(q)
    BY DEF NoReq, Request, Shape, MemberOps
  <2> HIDE DEF q
  <2>2. ReqsTyped'
    BY <1>0, <1>1, <2>1, Begins DEF InviteBegin, q
  <2> QED BY <1>0, <1>1, <2>2, OnlyRequests DEF InviteBegin, Typed
<1>2. ASSUME NEW u \in Users, NEW i \in Invites, RevokeBegin(r, u, i) PROVE Typed'
  <2> DEFINE q == [NoReq EXCEPT !.op = "revoke", !.pc = "write", !.by = u, !.invite = i]
  <2>1. (q.op \in Ops => q \in Request) /\ Shape(q)
    BY DEF NoReq, Request, Shape, MemberOps
  <2> HIDE DEF q
  <2>2. ReqsTyped'
    BY <1>0, <1>2, <2>1, Begins DEF RevokeBegin, q
  <2> QED BY <1>0, <1>2, <2>2, OnlyRequests DEF RevokeBegin, Typed
<1>3. ASSUME NEW u \in Users, NEW i \in Invites, RedeemBegin(r, u, i) PROVE Typed'
  <2> DEFINE q == [NoReq EXCEPT !.op = "redeem", !.pc = "team", !.by = u, !.who = u,
                      !.team = invite[i].team, !.invite = i, !.role = invite[i].role]
  <2>1. invite[i].team \in Teams /\ invite[i].role \in Role
    BY <1>0, <1>3 DEF RedeemBegin, InvitesTyped, TypeOK, Invite
  <2>2. (q.op \in Ops => q \in Request) /\ Shape(q)
    BY <2>1 DEF NoReq, Request, Shape, MemberOps
  <2> HIDE DEF q
  <2>3. ReqsTyped'
    BY <1>0, <1>3, <2>2, Begins DEF RedeemBegin, q
  <2> QED BY <1>0, <1>3, <2>3, OnlyRequests DEF RedeemBegin, Typed
<1>4. ASSUME InviteCommit(r) PROVE Typed'
  <2>1. req[r].team \in Teams /\ req[r].role \in Role
    <3>1. At(r, {"invite"}, "write")
      BY <1>4 DEF InviteCommit
    <3>2. req[r].op \in {"invite"} /\ Shape(req[r])
      BY <1>0, <3>1, Busy DEF OpNames
    <3> QED BY <3>2 DEF Shape
  <2>2. ReqsTyped'
    BY <1>0, <1>4, Ends DEF InviteCommit
  <2>3. invite' \in [Invites -> Invite] /\ InvitesTyped'
    <3> DEFINE new == [team |-> req[r].team, role |-> req[r].role, st |-> "live"]
    <3>1. new \in Invite /\ new.team \in Teams
      BY <2>1 DEF Invite
    <3>2. invite' = [invite EXCEPT ![req[r].invite] = new]
      BY <1>4 DEF InviteCommit
    <3> HIDE DEF new
    <3> QED BY <1>0, <3>1, <3>2 DEF TypeOK, InvitesTyped
  <2> QED BY <1>0, <1>4, <2>2, <2>3 DEF InviteCommit, TypeOK, Typed, ReqsTyped, history
<1>5. ASSUME RevokeCommit(r) PROVE Typed'
  <2>1. ReqsTyped'
    BY <1>0, <1>5, Ends DEF RevokeCommit
  <2>2. invite' \in [Invites -> Invite] /\ InvitesTyped'
    <3>1. ASSUME NEW i \in Invites PROVE [invite[i] EXCEPT !.st = "gone"] \in Invite
                                          /\ [invite[i] EXCEPT !.st = "gone"].st = "gone"
      BY <1>0 DEF TypeOK, Invite
    <3> QED BY <1>0, <1>5, <3>1 DEF RevokeCommit, TypeOK, InvitesTyped
  <2> QED BY <1>0, <1>5, <2>1, <2>2 DEF RevokeCommit, TypeOK, Typed, ReqsTyped, history
<1>6. ASSUME RedeemTeam(r) PROVE Typed'
  <2>1. req[r] \in Request
    BY <1>0, <1>6, Busy DEF RedeemTeam, OpNames
  <2>2. ReqsTyped'
    BY <1>0, <1>6, <2>1, GoesOn, Ends DEF RedeemTeam
  <2> QED BY <1>0, <1>6, <2>2, OnlyRequests DEF RedeemTeam, Typed
<1>7. ASSUME RedeemMember(r) PROVE Typed'
  <2> DEFINE seen == role[req[r].team][req[r].who]
             q == [req[r] EXCEPT !.pc = "write", !.seen = seen]
  <2>1. req[r] \in Request /\ req[r].op = "redeem" /\ Shape(req[r])
    BY <1>0, <1>7, Busy DEF RedeemMember, OpNames
  <2>2. seen \in Role \cup {None}
    BY <1>0, <2>1 DEF Shape, TypeOK
  <2>3. req' = [req EXCEPT ![r] = q] /\ UNCHANGED came
    BY <1>7 DEF RedeemMember
  <2>4. q \in Request /\ Shape(q)
    <3> HIDE DEF seen
    <3>1. q \in Request
      BY <2>1, <2>2 DEF Request
    <3>2. q.op = "redeem" /\ q.team = req[r].team /\ q.who = req[r].who /\ q.role = req[r].role /\ q.invite = req[r].invite
      BY <2>1 DEF Request
    <3> HIDE DEF q
    <3>3. Shape(q)
      BY <2>1, <3>2 DEF Shape, MemberOps
    <3> QED BY <3>1, <3>3
  <2> HIDE DEF q
  <2>5. ReqsTyped'
    BY <1>0, <2>1, <2>3, <2>4, GoesTo
  <2> QED BY <1>0, <1>7, <2>5, OnlyRequests DEF RedeemMember, Typed
<1>8. ASSUME RedeemCommit(r) PROVE Typed'
  <2>1. req[r].role \in Role /\ req[r].team \in Teams /\ req[r].who \in Users /\ req[r].invite \in Invites
    <3>1. At(r, {"redeem"}, "write")
      BY <1>8 DEF RedeemCommit
    <3>2. req[r].op \in {"redeem"} /\ Shape(req[r])
      BY <1>0, <3>1, Busy DEF OpNames
    <3> QED BY <3>2 DEF Shape
  <2>2. ReqsTyped'
    BY <1>0, <1>8, Ends DEF RedeemCommit
  <2>3. CASE Unspent(req[r].invite)
    <3>1. [invite[req[r].invite] EXCEPT !.st = "spent"] \in Invite
          /\ [invite[req[r].invite] EXCEPT !.st = "spent"].st = "spent"
      BY <1>0, <2>1, StampTyped DEF TypeOK
    <3>2. invite' = [invite EXCEPT ![req[r].invite] = [invite[req[r].invite] EXCEPT !.st = "spent"]]
      BY <1>8, <2>3 DEF RedeemCommit
    <3>3. invite' \in [Invites -> Invite] /\ InvitesTyped'
      BY <1>0, <3>1, <3>2 DEF TypeOK, InvitesTyped
    <3>4. role' \in [Teams -> [Users -> Role \cup {None}]]
      <4> DEFINE old == role[req[r].team][req[r].who]
                 new == IF req[r].seen = None /\ old = None THEN req[r].role ELSE old
      <4>1. role' = [role EXCEPT ![req[r].team][req[r].who] = new]
        BY <1>8, <2>3 DEF RedeemCommit
      <4>2. role \in [Teams -> [Users -> Role \cup {None}]] /\ new \in Role \cup {None}
        BY <1>0, <2>1 DEF TypeOK
      <4> HIDE DEF new
      <4> QED BY <4>1, <4>2, RoleTyped
    <3>5. granted' \in [Invites -> Nat]
      BY <1>0, <1>8, <2>1, <2>3 DEF RedeemCommit, TypeOK
    <3> QED BY <1>0, <1>8, <2>2, <3>3, <3>4, <3>5 DEF RedeemCommit, TypeOK, Typed, ReqsTyped
  <2>4. CASE ~Unspent(req[r].invite)
    BY <1>0, <1>8, <2>2, <2>4 DEF RedeemCommit, TypeOK, Typed, ReqsTyped, InvitesTyped
  <2> QED BY <2>3, <2>4
<1> QED BY <1>1, <1>2, <1>3, <1>4, <1>5, <1>6, <1>7, <1>8 DEF InviteStep

LEMMA EnsureTyped ==
  ASSUME AccountsConstantsOK, TypeOK, NEW t \in Teams, Ensure(t)
  PROVE  /\ team' \in [Teams -> {"unborn", "live", "deleted"}] /\ ensured' \subseteq Teams
         /\ role' \in [Teams -> [Users -> Role \cup {None}]]
<1> DEFINE old == role[t][PersonalOf[t]]
           new == IF t \notin ensured /\ old = None THEN "owner" ELSE old
<1>1. role' = [role EXCEPT ![t][PersonalOf[t]] = new]
  BY DEF Ensure
<1>2. PersonalOf[t] \in Users => new \in Role \cup {None}
  BY DEF TypeOK, Role
<1> HIDE DEF new
<1>3. role' \in [Teams -> [Users -> Role \cup {None}]]
  BY <1>1, <1>2, RoleTyped DEF TypeOK
<1> QED BY <1>3 DEF Ensure, TypeOK

LEMMA TypedMachines ==
  ASSUME AccountsConstantsOK, Typed, NEW r \in Reqs, MachineStep(r)
  PROVE  Typed'
<1>0. TypeOK /\ ReqsTyped /\ InvitesTyped
  BY DEF Typed
<1>1. ASSUME NEW u \in Users, NEW t \in Teams, NEW m \in Machines, CreateMachineBegin(r, u, t, m) PROVE Typed'
  <2> DEFINE q == [NoReq EXCEPT !.op = "machine", !.pc = "write", !.by = u, !.team = Scope(u, t), !.machine = m]
  <2>1. (q.op \in Ops => q \in Request) /\ Shape(q)
    BY ScopeIsTeam DEF NoReq, Request, Shape, MemberOps
  <2> HIDE DEF q
  <2>2. ReqsTyped'
    BY <1>0, <1>1, <2>1, Begins DEF CreateMachineBegin, q
  <2>3. minted' \subseteq Machines /\ key' \in [Machines -> Key \cup {NoKey}]
    BY <1>0, <1>1, ScopeIsTeam DEF CreateMachineBegin, Remember, TypeOK, Key
  <2> QED BY <1>0, <1>1, <2>2, <2>3 DEF CreateMachineBegin, TypeOK, Typed, ReqsTyped, InvitesTyped, history
<1>2. ASSUME NEW u \in Users, NEW m \in Machines, DeleteMachineBegin(r, u, m) PROVE Typed'
  <2> DEFINE q == [NoReq EXCEPT !.op = "deleteMachine", !.pc = "count", !.by = u, !.machine = m]
  <2>1. (q.op \in Ops => q \in Request) /\ Shape(q)
    BY DEF NoReq, Request, Shape, MemberOps
  <2> HIDE DEF q
  <2>2. ReqsTyped'
    BY <1>0, <1>2, <2>1, Begins DEF DeleteMachineBegin, q
  <2> QED BY <1>0, <1>2, <2>2, OnlyRequests DEF DeleteMachineBegin, Typed
<1>3. ASSUME NEW m \in Machines, EnrolBegin(r, m) PROVE Typed'
  <2> DEFINE q == [NoReq EXCEPT !.op = "enrol", !.pc = "team", !.by = key[m].user, !.machine = m,
                                !.team = PersonalTeam(key[m].user)]
  <2>1. key[m].user \in Users
    BY <1>0, <1>3 DEF EnrolBegin, TypeOK, Key
  <2>2. (q.op \in Ops => q \in Request) /\ Shape(q)
    BY <2>1, PersonalTeams DEF NoReq, Request, Shape, MemberOps
  <2> HIDE DEF q
  <2>3. ReqsTyped'
    BY <1>0, <1>3, <2>2, Begins DEF EnrolBegin, q
  <2> QED BY <1>0, <1>3, <2>3, OnlyRequests DEF EnrolBegin, Typed
<1>4. ASSUME EnrolEnsure(r) PROVE Typed'
  <2>1. At(r, {"enrol"}, "team")
    BY <1>4 DEF EnrolEnsure
  <2>2. req[r] \in Request /\ req[r].team \in Teams /\ req[r].op \in {"enrol"}
    <3>1. req[r] \in Request /\ req[r].op \in {"enrol"} /\ Shape(req[r])
      BY <1>0, <2>1, Busy DEF OpNames
    <3> QED BY <3>1 DEF Shape
  <2>3. ReqsTyped'
    BY <1>0, <1>4, <2>2, GoesOn DEF EnrolEnsure, MemberOps
  <2> QED BY <1>0, <1>4, <2>2, <2>3, EnsureTyped DEF EnrolEnsure, TypeOK, Typed, ReqsTyped, InvitesTyped, history
<1>5. ASSUME MachineCommit(r) PROVE Typed'
  <2>1. req[r].by \in Users /\ req[r].team \in Teams
    <3>1. At(r, {"machine", "enrol"}, "write")
      BY <1>5 DEF MachineCommit
    <3>2. req[r].op \in {"machine", "enrol"} /\ Shape(req[r])
      BY <1>0, <3>1, Busy DEF OpNames
    <3> QED BY <3>2 DEF Shape
  <2>2. ReqsTyped'
    BY <1>0, <1>5, Ends DEF MachineCommit
  <2>3. machine' \in [Machines -> Machine \cup {NoMachine}]
    BY <1>0, <1>5, <2>1 DEF MachineCommit, TypeOK, Machine
  <2> QED BY <1>0, <1>5, <2>2, <2>3 DEF MachineCommit, TypeOK, Typed, ReqsTyped, InvitesTyped, history
<1>6. ASSUME DeleteMachineCount(r) PROVE Typed'
  <2>1. req[r] \in Request /\ req[r].op \in {"deleteMachine"}
    BY <1>0, <1>6, Busy DEF DeleteMachineCount, OpNames
  <2>2. ReqsTyped'
    BY <1>0, <1>6, <2>1, GoesOn, Ends DEF DeleteMachineCount, MemberOps
  <2> QED BY <1>0, <1>6, <2>2, OnlyRequests DEF DeleteMachineCount, Typed
<1>7. ASSUME DeleteMachineCommit(r) PROVE Typed'
  <2>1. ReqsTyped'
    BY <1>0, <1>7, Ends DEF DeleteMachineCommit
  <2> QED BY <1>0, <1>7, <2>1 DEF DeleteMachineCommit, TypeOK, Typed, ReqsTyped, InvitesTyped, history
<1> QED BY <1>1, <1>2, <1>3, <1>4, <1>5, <1>6, <1>7 DEF MachineStep

LEMMA TypedCreates ==
  ASSUME AccountsConstantsOK, Typed, NEW r \in Reqs, CreateStep(r)
  PROVE  Typed'
<1>0. TypeOK /\ ReqsTyped /\ InvitesTyped
  BY DEF Typed
<1>1. ASSUME NEW m \in Machines, NEW c \in Machines \cup {None}, CreateBegin(r, m, c) PROVE Typed'
  <2> DEFINE q == [NoReq EXCEPT !.op = "create", !.pc = "idem", !.by = machine[m].user,
                                !.team = machine[m].home, !.machine = m, !.claim = c]
  <2>1. machine[m].user \in Users /\ machine[m].home \in Teams
    BY <1>0, <1>1 DEF CreateBegin, TypeOK, Machine
  <2>2. (q.op \in Ops => q \in Request) /\ Shape(q)
    BY <2>1 DEF NoReq, Request, Shape, MemberOps
  <2> HIDE DEF q
  <2>3. ReqsTyped'
    BY <1>0, <1>1, <2>2, Begins DEF CreateBegin, q
  <2> QED BY <1>0, <1>1, <2>3, OnlyRequests DEF CreateBegin, Typed
<1>2. ASSUME CreateLookup(r) \/ CreateMember(r) PROVE Typed'
  <2>1. req[r] \in Request
    BY <1>0, <1>2, Busy DEF CreateLookup, CreateMember, OpNames
  <2>2. ReqsTyped'
    BY <1>0, <1>2, <2>1, GoesOn, Ends DEF CreateLookup, CreateMember
  <2> QED BY <1>0, <1>2, <2>2, OnlyRequests DEF CreateLookup, CreateMember, Typed
<1>3. ASSUME CreateClaim(r) PROVE Typed'
  <2> DEFINE intent == IF req[r].claim = None THEN NoKey ELSE key[req[r].claim]
             q == [req[r] EXCEPT !.pc = "member", !.team = intent.team]
  <2>1. req[r] \in Request /\ req[r].op = "create" /\ Shape(req[r])
    BY <1>0, <1>3, Busy DEF CreateClaim, OpNames
  <2>2. intent \in Key \cup {NoKey}
    BY <1>0, <2>1 DEF TypeOK, Request
  <2>3. CASE intent.team \in {None, req[r].team}
    <3>1. GoTo(r, "insert")
      BY <1>3, <2>3 DEF CreateClaim
    <3> QED BY <1>0, <1>3, <2>1, <3>1, GoesOn, OnlyRequests DEF CreateClaim, Typed
  <2>4. CASE intent.team \notin {None, req[r].team}
    <3>1. intent.team \in Teams
      BY <2>2, <2>4 DEF Key, NoKey
    <3>2. End(r) \/ (req' = [req EXCEPT ![r] = q] /\ UNCHANGED came)
      BY <1>3, <2>4 DEF CreateClaim
    <3> HIDE DEF intent
    <3>3. q \in Request
      BY <2>1, <3>1 DEF Request
    <3>4. q.op = "create" /\ q.pc = "member" /\ q.team = intent.team /\ q.by = req[r].by /\ q.machine = req[r].machine
      BY <2>1 DEF Request
    <3> HIDE DEF q
    <3>5. Shape(q)
      BY <2>1, <3>1, <3>4 DEF Shape, MemberOps
    <3>6. ReqsTyped'
      BY <1>0, <2>1, <3>2, <3>3, <3>5, GoesTo, Ends
    <3> QED BY <1>0, <1>3, <3>6, OnlyRequests DEF CreateClaim, Typed
  <2> QED BY <2>3, <2>4
<1>4. ASSUME NEW l \in Loops, CreateInsert(r, l) PROVE Typed'
  <2> DEFINE q == [req[r] EXCEPT !.pc = "record", !.loop = l]
  <2>1. req[r] \in Request /\ req[r].op = "create" /\ Shape(req[r])
    BY <1>0, <1>4, Busy DEF CreateInsert, OpNames
  <2>2. q \in Request
    BY <2>1 DEF Request
  <2>3. q.op = "create" /\ q.team = req[r].team /\ q.by = req[r].by /\ q.machine = req[r].machine /\ q.loop = l
    BY <2>1 DEF Request
  <2>4. req' = [req EXCEPT ![r] = q] /\ UNCHANGED came
    BY <1>4 DEF CreateInsert
  <2> HIDE DEF q
  <2>5. Shape(q)
    BY <2>1, <2>3 DEF Shape, MemberOps
  <2>6. ReqsTyped'
    BY <1>0, <2>1, <2>2, <2>4, <2>5, GoesTo
  <2>7. loop' \in [Loops -> Loop \cup {NoLoop}]
    <3>1. req[r].team \in Teams /\ req[r].machine \in Machines
      BY <2>1 DEF Shape
    <3> QED BY <1>0, <1>4, <3>1 DEF CreateInsert, TypeOK, Loop
  <2> QED BY <1>0, <1>4, <2>6, <2>7 DEF CreateInsert, TypeOK, Typed, ReqsTyped, InvitesTyped, history
<1>5. ASSUME CreateRecord(r) PROVE Typed'
  <2>1. At(r, {"create"}, "record")
    BY <1>5 DEF CreateRecord
  <2>2. req[r] \in Request /\ req[r].machine \in Machines /\ req[r].loop \in Loops
    <3>1. {"create"} \in SUBSET OpNames
      BY DEF OpNames
    <3>2. req[r] \in Request /\ req[r].op \in {"create"} /\ req[r].pc = "record" /\ Shape(req[r])
      BY <1>0, <2>1, <3>1, Busy
    <3> QED BY <3>2 DEF Shape
  <2>3. ReqsTyped'
    BY <1>0, <1>5, Ends DEF CreateRecord
  <2>4. idem' \in Made /\ answered' \in Made
    <3>1. req[r].claim \in Machines \cup {None}
      BY <2>2 DEF Request
    <3> QED BY <1>0, <1>5, <2>2, <3>1, MadeTyped DEF CreateRecord, TypeOK
  <2> QED BY <1>0, <1>5, <2>3, <2>4 DEF CreateRecord, TypeOK, Typed, ReqsTyped, InvitesTyped, tables
<1> QED BY <1>1, <1>2, <1>3, <1>4, <1>5 DEF CreateStep

LEMMA TypedStep ==
  ASSUME AccountsConstantsOK, Typed, [Next]_vars
  PROVE  Typed'
<1>0. TypeOK /\ ReqsTyped /\ InvitesTyped
  BY DEF Typed
<1>1. ASSUME NEW r \in Reqs, TeamStep(r) \/ InviteStep(r) \/ MachineStep(r) \/ CreateStep(r) PROVE Typed'
  BY <1>1, TypedTeams, TypedInvites, TypedMachines, TypedCreates
<1>2. ASSUME UNCHANGED <<req, came>> PROVE ReqsTyped'
  BY <1>0, <1>2 DEF ReqsTyped
<1>3. ASSUME NEW u \in Users, NEW t \in Teams, CreateTeam(u, t) PROVE Typed'
  <2>1. role' \in [Teams -> [Users -> Role \cup {None}]]
    BY <1>0, <1>3 DEF CreateTeam, TypeOK, Role
  <2> QED BY <1>0, <1>2, <1>3, <2>1 DEF CreateTeam, TypeOK, Typed, ReqsTyped, InvitesTyped, history
<1>4. ASSUME NEW t \in Teams, SignIn(t) PROVE Typed'
  BY <1>0, <1>2, <1>4, EnsureTyped DEF SignIn, TypeOK, Typed, ReqsTyped, InvitesTyped, history
<1>5. ASSUME NEW u \in Users, NEW t \in Teams, NEW m \in Machines, MintClaim(u, t, m) PROVE Typed'
  <2>1. minted' \subseteq Machines /\ key' \in [Machines -> Key \cup {NoKey}]
    BY <1>0, <1>5, ScopeIsTeam DEF MintClaim, Remember, TypeOK, Key
  <2> QED BY <1>0, <1>2, <1>5, <2>1 DEF MintClaim, TypeOK, Typed, ReqsTyped, InvitesTyped, history
<1>6. ASSUME NEW i \in Invites, InviteExpires(i) PROVE Typed'
  <2>1. invite' = [invite EXCEPT ![i] = [invite[i] EXCEPT !.st = "expired"]]
    BY <1>6 DEF InviteExpires
  <2>2. [invite[i] EXCEPT !.st = "expired"] \in Invite /\ [invite[i] EXCEPT !.st = "expired"].st = "expired"
    BY <1>0, StampTyped DEF TypeOK
  <2>3. invite' \in [Invites -> Invite] /\ InvitesTyped'
    BY <1>0, <2>1, <2>2 DEF TypeOK, InvitesTyped
  <2> QED BY <1>0, <1>2, <1>6, <2>3 DEF InviteExpires, TypeOK, Typed, ReqsTyped, history
<1>7. ASSUME NEW m \in Machines, KeyExpires(m) PROVE Typed'
  BY <1>0, <1>2, <1>7 DEF KeyExpires, TypeOK, Typed, ReqsTyped, InvitesTyped, history
<1>8. ASSUME NEW l \in Loops, DeleteLoop(l) PROVE Typed'
  <2>1. loop[l] \in Loop
    BY <1>0, <1>8 DEF DeleteLoop, TypeOK, NoLoop
  <2>2. [loop[l] EXCEPT !.st = "deleted"] \in Loop
    BY <2>1 DEF Loop
  <2>3. loop' = [loop EXCEPT ![l] = [loop[l] EXCEPT !.st = "deleted"]]
    BY <1>8 DEF DeleteLoop
  <2>4. loop' \in [Loops -> Loop \cup {NoLoop}]
    BY <1>0, <2>2, <2>3 DEF TypeOK
  <2> QED BY <1>0, <1>2, <1>8, <2>4 DEF DeleteLoop, TypeOK, Typed, ReqsTyped, InvitesTyped, history
<1>9. ASSUME NEW m \in Machines, NEW c \in Machines \cup {None}, IdemExpires(m, c) PROVE Typed'
  <2>1. idem' \in Made /\ answered' \in Made
    BY <1>0, <1>9, MadeTyped DEF IdemExpires, TypeOK
  <2> QED BY <1>0, <1>2, <1>9, <2>1 DEF IdemExpires, TypeOK, Typed, ReqsTyped, InvitesTyped, tables
<1>10. ASSUME Restart PROVE Typed'
  <2>1. ReqsTyped'
    BY <1>0, <1>10, NothingInFlight DEF Restart, ReqsTyped
  <2>2. lock' \in [Teams -> Reqs \cup {None}]
    BY <1>10 DEF Restart
  <2> QED BY <1>0, <1>10, <2>1, <2>2, NothingMadeTyped DEF Restart, TypeOK, Typed, ReqsTyped, InvitesTyped, tables
<1>11. ASSUME UNCHANGED vars PROVE Typed'
  BY <1>0, <1>11 DEF vars, TypeOK, Typed, ReqsTyped, InvitesTyped
<1> QED BY <1>1, <1>3, <1>4, <1>5, <1>6, <1>7, <1>8, <1>9, <1>10, <1>11 DEF Next

(* The shapes of the rows and of the requests.                              *)
THEOREM AccountsAreTyped == Spec => []TypeOK
<1>1. Init => Typed
  BY TypedInit, AccountsConstantsOK
<1>2. Typed /\ [Next]_vars => Typed'
  BY TypedStep, AccountsConstantsOK
<1>3. Typed => TypeOK
  BY DEF Typed
<1> QED BY <1>1, <1>2, <1>3, PTL DEF Spec

(***************************************************************************)
(* Owners.  Inductive: a request that is about to take an owner's role     *)
(* holds the lock on the team's owner rows, and a team whose rows are held *)
(* has two owners, since nobody else takes one from it meanwhile.          *)
(***************************************************************************)
Taking(q) == q.op \in MemberOps /\ q.pc = "write" /\ q.seen = "owner" /\ TakesOwner(q)
TakersHoldTheRows == \A r \in Reqs : Taking(req[r]) => lock[req[r].team] = r
HeldTeamsKeepOne ==
  \A t \in Teams : lock[t] # None => \E u, w \in Users : u # w /\ role[t][u] = "owner" /\ role[t][w] = "owner"

OwnersInv == Typed /\ TakersHoldTheRows /\ HeldTeamsKeepOne

NoOwnerLost == \A t \in Teams, u \in Users : role[t][u] = "owner" => role'[t][u] = "owner"

LEMMA TwoOwners ==
  ASSUME AccountsConstantsOK, NEW t \in Teams, ~(Cardinality(Owners(t)) <= 1)
  PROVE  \E u, w \in Users : u # w /\ role[t][u] = "owner" /\ role[t][w] = "owner"
<1>1. IsFiniteSet(Owners(t))
  BY FS_Subset DEF Owners, AccountsConstantsOK
<1>2. Cardinality(Owners(t)) # 0 /\ Owners(t) # {}
  BY <1>1, FS_CardinalityType, FS_EmptySet
<1>3. PICK u \in Owners(t) : TRUE
  BY <1>2
<1>4. Owners(t) # {u}
  BY FS_Singleton
<1>5. PICK w \in Owners(t) : w # u
  BY <1>3, <1>4
<1> QED BY <1>3, <1>5 DEF Owners

\* What a step does to a role it writes: nothing is lost, or a taker takes what it has locked.
LEMMA RoleWritten ==
  ASSUME AccountsConstantsOK, Typed, NEW t, NEW u, NEW v,
         role' = [role EXCEPT ![t][u] = v],
         t \in Teams /\ u \in Users => v = role[t][u] \/ role[t][u] = None
  PROVE  NoOwnerLost
<1>1. role \in [Teams -> [Users -> Role \cup {None}]] /\ None # "owner"
  BY Absent DEF Typed, TypeOK, Role
<1> QED BY <1>1 DEF NoOwnerLost

(***************************************************************************)
(* Calm steps: they take no owner's role and touch neither locks, invites, *)
(* loops nor what has been recorded of creates.                            *)
(***************************************************************************)
InviteOps == {"invite", "revoke", "redeem"}
Recording(q) == q.op = "create" /\ q.pc = "record"

Harmless(q, p) ==
    \/ p = q
    \/ p = NoReq
    \/ /\ ~Taking(p) /\ ~Recording(p)
       /\ p.op \in InviteOps => p.op = q.op /\ p.invite = q.invite
       /\ q.op = "create" /\ q.pc = "idem" => p.pc # "claim"

Calm == /\ NoOwnerLost
        /\ UNCHANGED <<lock, invite, granted, loop, idem, answered>>
        /\ \A r \in Reqs : Harmless(req[r], req'[r])

LEMMA HarmlessBegin ==
  ASSUME AccountsConstantsOK, ReqsTyped, NEW r \in Reqs, NEW q, Begin(r, q),
         ~Taking(q), ~Recording(q), q.op \notin InviteOps
  PROVE  \A s \in Reqs : Harmless(req[s], req'[s])
<1>1. req' = [req EXCEPT ![r] = q] /\ req[r] = NoReq
  BY DEF Begin
<1>2. NoReq.op # "create"
  BY Absent, NothingInFlight DEF OpNames
<1> QED BY <1>1, <1>2 DEF ReqsTyped, Harmless

LEMMA HarmlessGoTo ==
  ASSUME AccountsConstantsOK, ReqsTyped, NEW r \in Reqs, req[r] \in Request,
         NEW pc \in {"write", "member", "recount", "claim", "insert"}, GoTo(r, pc),
         pc = "write" => req[r].op \notin MemberOps,
         pc = "claim" => ~(req[r].op = "create" /\ req[r].pc = "idem")
  PROVE  \A s \in Reqs : Harmless(req[s], req'[s])
<1>1. /\ req'[r].pc = pc /\ req'[r].op = req[r].op /\ req'[r].invite = req[r].invite
      /\ \A s \in Reqs \ {r} : req'[s] = req[s]
  BY GoesOn
<1>2. ~Taking(req'[r]) /\ ~Recording(req'[r])
  BY <1>1 DEF Taking, Recording
<1>3. req[r].op = "create" /\ req[r].pc = "idem" => req'[r].pc # "claim"
  BY <1>1
<1> QED BY <1>1, <1>2, <1>3 DEF Harmless

LEMMA HarmlessEnd ==
  ASSUME AccountsConstantsOK, ReqsTyped, NEW r \in Reqs, End(r)
  PROVE  \A s \in Reqs : Harmless(req[s], req'[s])
BY Ends DEF Harmless

LEMMA EnsureLosesNobody ==
  ASSUME AccountsConstantsOK, Typed, NEW t \in Teams, Ensure(t)
  PROVE  NoOwnerLost
<1> DEFINE old == role[t][PersonalOf[t]]
           new == IF t \notin ensured /\ old = None THEN "owner" ELSE old
<1>1. role' = [role EXCEPT ![t][PersonalOf[t]] = new]
  BY DEF Ensure
<1>2. new = old \/ old = None
  OBVIOUS
<1> HIDE DEF new
<1> QED BY <1>1, <1>2, RoleWritten

LEMMA CalmTeams ==
  ASSUME AccountsConstantsOK, Typed, NEW r \in Reqs,
         \/ \E u \in Users, t \in Teams : DeleteTeamBegin(r, u, t) \/ LeaveBegin(r, u, t)
         \/ \E u, w \in Users, t \in Teams : RemoveBegin(r, u, t, w)
         \/ \E u, w \in Users, t \in Teams, ro \in Role : AddBegin(r, u, t, w, ro) \/ SetRoleBegin(r, u, t, w, ro)
         \/ DeleteTeamCount(r) \/ AddCommit(r) \/ MemberRead(r)
  PROVE  Calm
<1>0. ReqsTyped /\ None \notin OpNames
  BY Absent DEF Typed
<1>1. ASSUME UNCHANGED <<role, lock, invite, granted, loop, idem, answered>>,
             \A s \in Reqs : Harmless(req[s], req'[s])
      PROVE  Calm
  BY <1>1 DEF Calm, NoOwnerLost
<1>2. ASSUME NEW q, Begin(r, q), ~Taking(q), ~Recording(q), q.op \notin InviteOps,
             UNCHANGED <<tables, ensured, lock, idem, history>>
      PROVE  Calm
  BY <1>0, <1>1, <1>2, HarmlessBegin DEF tables, history
<1>3. ASSUME NEW u \in Users, NEW t \in Teams, DeleteTeamBegin(r, u, t) PROVE Calm
  <2> DEFINE q == [NoReq EXCEPT !.op = "deleteTeam", !.pc = "count", !.by = u, !.team = t]
  <2>1. ~Taking(q) /\ ~Recording(q) /\ q.op \notin InviteOps
    BY DEF Taking, Recording, InviteOps, NoReq
  <2>2. Begin(r, q) /\ UNCHANGED <<tables, ensured, lock, idem, history>>
    BY <1>3 DEF DeleteTeamBegin
  <2> HIDE DEF q
  <2> QED BY <1>2, <2>1, <2>2
<1>4. ASSUME NEW u \in Users, NEW t \in Teams, LeaveBegin(r, u, t) PROVE Calm
  <2> DEFINE q == [NoReq EXCEPT !.op = "leave", !.by = u, !.team = t, !.who = u]
  <2>1. ~Taking(q) /\ ~Recording(q) /\ q.op \notin InviteOps
    BY DEF Taking, Recording, InviteOps, NoReq
  <2>2. Begin(r, q) /\ UNCHANGED <<tables, ensured, lock, idem, history>>
    BY <1>4 DEF LeaveBegin
  <2> HIDE DEF q
  <2> QED BY <1>2, <2>1, <2>2
<1>5. ASSUME NEW u \in Users, NEW w \in Users, NEW t \in Teams, RemoveBegin(r, u, t, w) PROVE Calm
  <2> DEFINE q == [NoReq EXCEPT !.op = "remove", !.by = u, !.team = t, !.who = w]
  <2>1. ~Taking(q) /\ ~Recording(q) /\ q.op \notin InviteOps
    BY DEF Taking, Recording, InviteOps, NoReq
  <2>2. Begin(r, q) /\ UNCHANGED <<tables, ensured, lock, idem, history>>
    BY <1>5 DEF RemoveBegin
  <2> HIDE DEF q
  <2> QED BY <1>2, <2>1, <2>2
<1>6. ASSUME NEW u \in Users, NEW w \in Users, NEW t \in Teams, NEW ro \in Role, AddBegin(r, u, t, w, ro) PROVE Calm
  <2> DEFINE q == [NoReq EXCEPT !.op = "add", !.pc = "write", !.by = u, !.team = t, !.who = w, !.role = ro]
  <2>1. ~Taking(q) /\ ~Recording(q) /\ q.op \notin InviteOps
    BY DEF Taking, Recording, InviteOps, MemberOps, NoReq
  <2>2. Begin(r, q) /\ UNCHANGED <<tables, ensured, lock, idem, history>>
    BY <1>6 DEF AddBegin
  <2> HIDE DEF q
  <2> QED BY <1>2, <2>1, <2>2
<1>7. ASSUME NEW u \in Users, NEW w \in Users, NEW t \in Teams, NEW ro \in Role, SetRoleBegin(r, u, t, w, ro) PROVE Calm
  <2> DEFINE q == [NoReq EXCEPT !.op = "setRole", !.by = u, !.team = t, !.who = w, !.role = ro]
  <2>1. ~Taking(q) /\ ~Recording(q) /\ q.op \notin InviteOps
    BY DEF Taking, Recording, InviteOps, NoReq
  <2>2. Begin(r, q) /\ UNCHANGED <<tables, ensured, lock, idem, history>>
    BY <1>7 DEF SetRoleBegin
  <2> HIDE DEF q
  <2> QED BY <1>2, <2>1, <2>2
<1>8. ASSUME DeleteTeamCount(r) PROVE Calm
  <2>1. req[r] \in Request /\ req[r].op \in {"deleteTeam"}
    BY <1>0, <1>8, Busy DEF DeleteTeamCount, OpNames
  <2>2. \A s \in Reqs : Harmless(req[s], req'[s])
    BY <1>0, <1>8, <2>1, HarmlessGoTo, HarmlessEnd DEF DeleteTeamCount, MemberOps
  <2> QED BY <1>1, <1>8, <2>2 DEF DeleteTeamCount, tables, history
<1>9. ASSUME AddCommit(r) PROVE Calm
  <2> DEFINE old == role[req[r].team][req[r].who]
             new == IF old = None THEN req[r].role ELSE old
  <2>1. role' = [role EXCEPT ![req[r].team][req[r].who] = new]
    BY <1>9 DEF AddCommit
  <2>2. new = old \/ old = None
    OBVIOUS
  <2> HIDE DEF new
  <2>3. NoOwnerLost
    BY <2>1, <2>2, RoleWritten
  <2> QED BY <1>0, <1>9, <2>3, HarmlessEnd DEF AddCommit, Calm, history
<1>10. ASSUME MemberRead(r) PROVE Calm
  <2> DEFINE seen == role[req[r].team][req[r].who]
             pc == IF seen = "owner" /\ TakesOwner(req[r]) THEN "lock" ELSE "write"
             q == [req[r] EXCEPT !.seen = seen, !.pc = pc]
  <2>1. req[r] \in Request /\ req[r].op \in MemberOps
    BY <1>0, <1>10, Busy DEF MemberRead, OpNames, MemberOps
  <2>2. End(r) \/ (req' = [req EXCEPT ![r] = q] /\ UNCHANGED came)
    BY <1>10 DEF MemberRead
  <2>3. CASE End(r)
    BY <1>0, <1>1, <1>10, <2>3, HarmlessEnd DEF MemberRead, tables, history
  <2>4. CASE req' = [req EXCEPT ![r] = q]
    <3>1. q.op = req[r].op /\ q.seen = seen /\ q.pc = pc /\ q.role = req[r].role
      BY <2>1 DEF Request
    <3>2. ~Taking(q)
      BY <3>1 DEF Taking, TakesOwner
    <3>3. ~Recording(q) /\ q.op \notin InviteOps /\ req[r].op # "create"
      BY <2>1, <3>1 DEF Recording, InviteOps, MemberOps
    <3> HIDE DEF q
    <3>4. \A s \in Reqs : Harmless(req[s], req'[s])
      BY <1>0, <2>4, <3>2, <3>3 DEF Harmless, ReqsTyped
    <3> QED BY <1>1, <1>10, <3>4 DEF MemberRead, tables, history
  <2> QED BY <2>2, <2>3, <2>4
<1> QED BY <1>3, <1>4, <1>5, <1>6, <1>7, <1>8, <1>9, <1>10

LEMMA CalmMachines ==
  ASSUME AccountsConstantsOK, Typed, NEW r \in Reqs,
         MachineStep(r) \/ RedeemTeam(r) \/ RedeemMember(r)
  PROVE  Calm
<1>0. ReqsTyped /\ None \notin OpNames
  BY Absent DEF Typed
<1>1. ASSUME UNCHANGED <<role, lock, invite, granted, loop, idem, answered>>,
             \A s \in Reqs : Harmless(req[s], req'[s])
      PROVE  Calm
  BY <1>1 DEF Calm, NoOwnerLost
<1>2. ASSUME NEW q, Begin(r, q), ~Taking(q), ~Recording(q), q.op \notin InviteOps,
             UNCHANGED <<role, lock, invite, loop, idem, history>>
      PROVE  Calm
  BY <1>0, <1>1, <1>2, HarmlessBegin DEF history
<1>3. ASSUME NEW u \in Users, NEW t \in Teams, NEW m \in Machines, CreateMachineBegin(r, u, t, m) PROVE Calm
  <2> DEFINE q == [NoReq EXCEPT !.op = "machine", !.pc = "write", !.by = u, !.team = Scope(u, t), !.machine = m]
  <2>1. ~Taking(q) /\ ~Recording(q) /\ q.op \notin InviteOps
    BY DEF Taking, Recording, InviteOps, MemberOps, NoReq
  <2>2. Begin(r, q) /\ UNCHANGED <<role, lock, invite, loop, idem, history>>
    BY <1>3 DEF CreateMachineBegin
  <2> HIDE DEF q
  <2> QED BY <1>2, <2>1, <2>2
<1>4. ASSUME NEW u \in Users, NEW m \in Machines, DeleteMachineBegin(r, u, m) PROVE Calm
  <2> DEFINE q == [NoReq EXCEPT !.op = "deleteMachine", !.pc = "count", !.by = u, !.machine = m]
  <2>1. ~Taking(q) /\ ~Recording(q) /\ q.op \notin InviteOps
    BY DEF Taking, Recording, InviteOps, NoReq
  <2>2. Begin(r, q) /\ UNCHANGED <<role, lock, invite, loop, idem, history>>
    BY <1>4 DEF DeleteMachineBegin, tables
  <2> HIDE DEF q
  <2> QED BY <1>2, <2>1, <2>2
<1>5. ASSUME NEW m \in Machines, EnrolBegin(r, m) PROVE Calm
  <2> DEFINE q == [NoReq EXCEPT !.op = "enrol", !.pc = "team", !.by = key[m].user, !.machine = m,
                                !.team = PersonalTeam(key[m].user)]
  <2>1. ~Taking(q) /\ ~Recording(q) /\ q.op \notin InviteOps
    BY DEF Taking, Recording, InviteOps, NoReq
  <2>2. Begin(r, q) /\ UNCHANGED <<role, lock, invite, loop, idem, history>>
    BY <1>5 DEF EnrolBegin, tables
  <2> HIDE DEF q
  <2> QED BY <1>2, <2>1, <2>2
<1>6. ASSUME EnrolEnsure(r) PROVE Calm
  <2>1. At(r, {"enrol"}, "team")
    BY <1>6 DEF EnrolEnsure
  <2>2. req[r] \in Request /\ req[r].op \in {"enrol"} /\ Shape(req[r])
    BY <1>0, <2>1, Busy DEF OpNames
  <2>3. \A s \in Reqs : Harmless(req[s], req'[s])
    BY <1>0, <1>6, <2>2, HarmlessGoTo DEF EnrolEnsure, MemberOps
  <2>4. NoOwnerLost
    BY <1>6, <2>2, EnsureLosesNobody DEF EnrolEnsure, Shape
  <2> QED BY <1>6, <2>3, <2>4 DEF EnrolEnsure, Calm, history
<1>7. ASSUME MachineCommit(r) \/ DeleteMachineCommit(r) PROVE Calm
  BY <1>0, <1>1, <1>7, HarmlessEnd DEF MachineCommit, DeleteMachineCommit, history
<1>8. ASSUME DeleteMachineCount(r) PROVE Calm
  <2>1. req[r] \in Request /\ req[r].op \in {"deleteMachine"}
    BY <1>0, <1>8, Busy DEF DeleteMachineCount, OpNames
  <2>2. \A s \in Reqs : Harmless(req[s], req'[s])
    BY <1>0, <1>8, <2>1, HarmlessGoTo, HarmlessEnd DEF DeleteMachineCount, MemberOps
  <2> QED BY <1>1, <1>8, <2>2 DEF DeleteMachineCount, tables, history
<1>9. ASSUME RedeemTeam(r) PROVE Calm
  <2>1. req[r] \in Request /\ req[r].op \in {"redeem"}
    BY <1>0, <1>9, Busy DEF RedeemTeam, OpNames
  <2>2. \A s \in Reqs : Harmless(req[s], req'[s])
    BY <1>0, <1>9, <2>1, HarmlessGoTo, HarmlessEnd DEF RedeemTeam
  <2> QED BY <1>1, <1>9, <2>2 DEF RedeemTeam, tables, history
<1>10. ASSUME RedeemMember(r) PROVE Calm
  <2> DEFINE q == [req[r] EXCEPT !.pc = "write", !.seen = role[req[r].team][req[r].who]]
  <2>1. req[r] \in Request /\ req[r].op \in {"redeem"}
    BY <1>0, <1>10, Busy DEF RedeemMember, OpNames
  <2>2. q.op = req[r].op /\ q.invite = req[r].invite /\ q.pc = "write"
    BY <2>1 DEF Request
  <2>3. req' = [req EXCEPT ![r] = q]
    BY <1>10 DEF RedeemMember
  <2> HIDE DEF q
  <2>4. ~Taking(q) /\ ~Recording(q) /\ req[r].op # "create"
    BY <2>1, <2>2 DEF Taking, Recording, MemberOps
  <2>5. \A s \in Reqs : Harmless(req[s], req'[s])
    BY <1>0, <2>2, <2>3, <2>4 DEF Harmless, ReqsTyped
  <2> QED BY <1>1, <1>10, <2>5 DEF RedeemMember, tables, history
<1> QED BY <1>3, <1>4, <1>5, <1>6, <1>7, <1>8, <1>9, <1>10 DEF MachineStep

LEMMA CalmCreates ==
  ASSUME AccountsConstantsOK, Typed, NEW r \in Reqs,
         (\E m \in Machines, c \in Machines \cup {None} : CreateBegin(r, m, c)) \/ CreateClaim(r) \/ CreateMember(r)
  PROVE  Calm
<1>0. ReqsTyped /\ None \notin OpNames
  BY Absent DEF Typed
<1>1. ASSUME UNCHANGED <<tables, ensured, lock, idem, history>>,
             \A s \in Reqs : Harmless(req[s], req'[s])
      PROVE  Calm
  BY <1>1 DEF Calm, NoOwnerLost, tables, history
<1>2. ASSUME NEW m \in Machines, NEW c \in Machines \cup {None}, CreateBegin(r, m, c) PROVE Calm
  <2> DEFINE q == [NoReq EXCEPT !.op = "create", !.pc = "idem", !.by = machine[m].user,
                                !.team = machine[m].home, !.machine = m, !.claim = c]
  <2>1. ~Taking(q) /\ ~Recording(q) /\ q.op \notin InviteOps
    BY DEF Taking, Recording, InviteOps, NoReq
  <2>2. Begin(r, q) /\ UNCHANGED <<tables, ensured, lock, idem, history>>
    BY <1>2 DEF CreateBegin
  <2> HIDE DEF q
  <2> QED BY <1>0, <1>1, <2>1, <2>2, HarmlessBegin
<1>3. ASSUME CreateMember(r) PROVE Calm
  <2>1. req[r] \in Request /\ req[r].op \in {"create"}
    BY <1>0, <1>3, Busy DEF CreateMember, OpNames
  <2>2. \A s \in Reqs : Harmless(req[s], req'[s])
    BY <1>0, <1>3, <2>1, HarmlessGoTo, HarmlessEnd DEF CreateMember
  <2> QED BY <1>1, <1>3, <2>2 DEF CreateMember
<1>4. ASSUME CreateClaim(r) PROVE Calm
  <2> DEFINE intent == IF req[r].claim = None THEN NoKey ELSE key[req[r].claim]
             q == [req[r] EXCEPT !.pc = "member", !.team = intent.team]
  <2>1. req[r] \in Request /\ req[r].op \in {"create"}
    BY <1>0, <1>4, Busy DEF CreateClaim, OpNames
  <2>2. GoTo(r, "insert") \/ End(r) \/ req' = [req EXCEPT ![r] = q]
    BY <1>4 DEF CreateClaim
  <2>3. q.op = req[r].op /\ q.pc = "member"
    BY <2>1 DEF Request
  <2> HIDE DEF q
  <2>4. ~Taking(q) /\ ~Recording(q) /\ q.op \notin InviteOps
    BY <2>1, <2>3 DEF Taking, Recording, InviteOps
  <2>5. \A s \in Reqs : Harmless(req[s], req'[s])
    <3>1. CASE GoTo(r, "insert")
      BY <1>0, <2>1, <3>1, HarmlessGoTo
    <3>2. CASE End(r)
      BY <1>0, <3>2, HarmlessEnd
    <3>3. CASE req' = [req EXCEPT ![r] = q]
      BY <1>0, <2>3, <2>4, <3>3 DEF Harmless, ReqsTyped
    <3> QED BY <2>2, <3>1, <3>2, <3>3
  <2> QED BY <1>1, <1>4, <2>5 DEF CreateClaim
<1> QED BY <1>2, <1>3, <1>4

\* The steps that are not calm.
Stirs(r) == \/ DeleteTeamCommit(r) \/ OwnersLock(r) \/ MemberWrite(r)
            \/ \E u \in Users, t \in Teams, i \in Invites, ro \in Role : InviteBegin(r, u, t, i, ro)
            \/ \E u \in Users, i \in Invites : RevokeBegin(r, u, i) \/ RedeemBegin(r, u, i)
            \/ InviteCommit(r) \/ RevokeCommit(r) \/ RedeemCommit(r)
            \/ CreateLookup(r) \/ (\E l \in Loops : CreateInsert(r, l)) \/ CreateRecord(r)

LEMMA CalmStep ==
  ASSUME AccountsConstantsOK, Typed, [Next]_vars
  PROVE  \/ Calm
         \/ \E r \in Reqs : Stirs(r)
         \/ \E i \in Invites : InviteExpires(i)
         \/ \E l \in Loops : DeleteLoop(l)
         \/ \E m \in Machines, c \in Machines \cup {None} : IdemExpires(m, c)
         \/ Restart
<1>1. ASSUME UNCHANGED <<req, lock, invite, granted, loop, idem, answered>>, NoOwnerLost PROVE Calm
  BY <1>1 DEF Calm, Harmless
<1>2. ASSUME NEW u \in Users, NEW t \in Teams, CreateTeam(u, t) PROVE Calm
  <2>1. role \in [Teams -> [Users -> Role \cup {None}]]
    BY DEF Typed, TypeOK
  <2>2. NoOwnerLost
    BY <1>2, <2>1 DEF CreateTeam, NoOwnerLost
  <2> QED BY <1>1, <1>2, <2>2 DEF CreateTeam, history
<1>3. ASSUME NEW t \in Teams, SignIn(t) PROVE Calm
  BY <1>1, <1>3, EnsureLosesNobody DEF SignIn, history
<1>4. ASSUME (\E u \in Users, t \in Teams, m \in Machines : MintClaim(u, t, m)) \/ (\E m \in Machines : KeyExpires(m))
             \/ UNCHANGED vars
      PROVE  Calm
  BY <1>1, <1>4 DEF MintClaim, KeyExpires, vars, history, NoOwnerLost
<1>5. ASSUME NEW r \in Reqs, TeamStep(r) PROVE Calm \/ Stirs(r)
  BY <1>5, CalmTeams DEF TeamStep, Stirs
<1>6. ASSUME NEW r \in Reqs, InviteStep(r) PROVE Calm \/ Stirs(r)
  BY <1>6, CalmMachines DEF InviteStep, Stirs
<1>7. ASSUME NEW r \in Reqs, MachineStep(r) PROVE Calm
  BY <1>7, CalmMachines
<1>8. ASSUME NEW r \in Reqs, CreateStep(r) PROVE Calm \/ Stirs(r)
  BY <1>8, CalmCreates DEF CreateStep, Stirs
<1> QED BY <1>2, <1>3, <1>4, <1>5, <1>6, <1>7, <1>8 DEF Next

LEMMA StirEnds ==
  ASSUME AccountsConstantsOK, Typed, NEW r \in Reqs,
         DeleteTeamCommit(r) \/ MemberWrite(r) \/ InviteCommit(r) \/ RevokeCommit(r) \/ RedeemCommit(r) \/ CreateRecord(r)
  PROVE  req'[r] = NoReq /\ \A s \in Reqs \ {r} : req'[s] = req[s]
<1>1. End(r)
  BY DEF DeleteTeamCommit, MemberWrite, InviteCommit, RevokeCommit, RedeemCommit, CreateRecord
<1> QED BY <1>1, Ends DEF Typed

LEMMA StirBegins ==
  ASSUME AccountsConstantsOK, Typed, NEW r \in Reqs, NEW u \in Users, NEW i \in Invites,
         \/ \E t \in Teams, ro \in Role : InviteBegin(r, u, t, i, ro)
         \/ RevokeBegin(r, u, i) \/ RedeemBegin(r, u, i)
  PROVE  /\ req'[r].op \in InviteOps /\ req'[r].invite = i /\ ~Recording(req'[r])
         /\ req[r] = NoReq /\ \A s \in Reqs \ {r} : req'[s] = req[s]
         /\ req'[r].op = "invite" => invite[i].st = "unborn" /\ \A s \in Reqs : req[s].invite # i
         /\ req'[r].op # "invite" => invite[i].st # "unborn"
         /\ UNCHANGED <<tables, ensured, lock, idem, history>>
<1>0. req \in [Reqs -> Request \cup {NoReq}]
  BY DEF Typed, TypeOK
<1>1. CASE \E t \in Teams, ro \in Role : InviteBegin(r, u, t, i, ro)
  <2>1. PICK t \in Teams, ro \in Role : InviteBegin(r, u, t, i, ro)
    BY <1>1
  <2> DEFINE q == [NoReq EXCEPT !.op = "invite", !.pc = "write", !.by = u, !.team = t, !.invite = i, !.role = ro]
  <2>2. q.op = "invite" /\ q.invite = i
    BY DEF NoReq
  <2>3. req' = [req EXCEPT ![r] = q] /\ req[r] = NoReq
    BY <2>1 DEF InviteBegin, Begin
  <2> HIDE DEF q
  <2> QED BY <1>0, <2>1, <2>2, <2>3 DEF InviteBegin, InviteOps, Recording
<1>2. CASE RevokeBegin(r, u, i)
  <2> DEFINE q == [NoReq EXCEPT !.op = "revoke", !.pc = "write", !.by = u, !.invite = i]
  <2>1. q.op = "revoke" /\ q.invite = i
    BY DEF NoReq
  <2>2. req' = [req EXCEPT ![r] = q] /\ req[r] = NoReq
    BY <1>2 DEF RevokeBegin, Begin
  <2> HIDE DEF q
  <2> QED BY <1>0, <1>2, <2>1, <2>2 DEF RevokeBegin, InviteOps, Recording
<1>3. CASE RedeemBegin(r, u, i)
  <2> DEFINE q == [NoReq EXCEPT !.op = "redeem", !.pc = "team", !.by = u, !.who = u,
                      !.team = invite[i].team, !.invite = i, !.role = invite[i].role]
  <2>1. q.op = "redeem" /\ q.invite = i
    BY DEF NoReq
  <2>2. req' = [req EXCEPT ![r] = q] /\ req[r] = NoReq
    BY <1>3 DEF RedeemBegin, Begin
  <2> HIDE DEF q
  <2> QED BY <1>0, <1>3, <2>1, <2>2 DEF RedeemBegin, InviteOps, Recording
<1> QED BY <1>1, <1>2, <1>3

LEMMA StirCreates ==
  ASSUME AccountsConstantsOK, Typed, NEW r \in Reqs, CreateLookup(r) \/ (\E l \in Loops : CreateInsert(r, l))
  PROVE  /\ req[r] \in Request /\ req[r].op = "create"
         /\ req'[r] = NoReq \/ (req'[r].op = "create" /\ req'[r].machine = req[r].machine /\ req'[r].claim = req[r].claim)
         /\ \A s \in Reqs \ {r} : req'[s] = req[s]
         /\ UNCHANGED <<role, lock, invite, idem, history>>
<1>0. ReqsTyped /\ req \in [Reqs -> Request \cup {NoReq}]
  BY DEF Typed, TypeOK
<1>1. CASE CreateLookup(r)
  <2>1. req[r] \in Request /\ req[r].op \in {"create"}
    BY <1>0, <1>1, Busy DEF CreateLookup, OpNames
  <2>2. GoTo(r, "claim") \/ End(r)
    BY <1>1 DEF CreateLookup
  <2>3. UNCHANGED <<role, lock, invite, idem, history>>
    BY <1>1 DEF CreateLookup, tables
  <2> QED BY <1>0, <2>1, <2>2, <2>3, GoesOn, Ends
<1>2. CASE \E l \in Loops : CreateInsert(r, l)
  <2>1. PICK l \in Loops : CreateInsert(r, l)
    BY <1>2
  <2>2. req[r] \in Request /\ req[r].op \in {"create"}
    BY <1>0, <2>1, Busy DEF CreateInsert, OpNames
  <2> DEFINE q == [req[r] EXCEPT !.pc = "record", !.loop = l]
  <2>3. q.op = "create" /\ q.machine = req[r].machine /\ q.claim = req[r].claim
    BY <2>2 DEF Request
  <2>4. req' = [req EXCEPT ![r] = q]
    BY <2>1 DEF CreateInsert
  <2>5. UNCHANGED <<role, lock, invite, idem, history>>
    BY <2>1 DEF CreateInsert
  <2> HIDE DEF q
  <2> QED BY <1>0, <2>2, <2>3, <2>4, <2>5
<1> QED BY <1>1, <1>2

\* The steps that stir nothing of what the owners' invariant speaks of.
LEMMA OwnersCalm ==
  ASSUME OwnersInv, Typed', NoOwnerLost, UNCHANGED lock,
         \A r \in Reqs : req'[r] = req[r] \/ ~Taking(req'[r])
  PROVE  OwnersInv'
<1>1. TakersHoldTheRows'
  BY DEF OwnersInv, TakersHoldTheRows
<1>2. HeldTeamsKeepOne'
  BY DEF OwnersInv, HeldTeamsKeepOne, NoOwnerLost
<1> QED BY <1>1, <1>2 DEF OwnersInv

\* What LastOwnerGuarded says of a step.
GuardedStep ==
  \A t \in Teams : Owners(t) # {} /\ Owners(t)' = {} =>
      \/ team'[t] = "deleted"
      \/ \E r \in Reqs : At(r, {"setRole", "remove", "leave"}, "write")
                         /\ req[r].team = t /\ req[r].seen = "member" /\ req'[r] = NoReq

LEMMA NoneLostIsGuarded == NoOwnerLost => GuardedStep
BY DEF NoOwnerLost, GuardedStep, Owners

LEMMA OwnersStep ==
  ASSUME AccountsConstantsOK, OwnersInv, [Next]_vars
  PROVE  OwnersInv' /\ GuardedStep
<1>0. Typed /\ Typed' /\ ReqsTyped /\ req \in [Reqs -> Request \cup {NoReq}]
  BY TypedStep DEF OwnersInv, Typed, TypeOK
<1>n. ~Taking(NoReq) /\ None \notin Reqs /\ None \notin Role
  BY NothingInFlight, Absent DEF Taking
<1>r. role \in [Teams -> [Users -> Role \cup {None}]]
  BY <1>0 DEF Typed, TypeOK
<1>1. ASSUME NoOwnerLost, UNCHANGED lock, \A r \in Reqs : req'[r] = req[r] \/ ~Taking(req'[r])
      PROVE  OwnersInv' /\ GuardedStep
  BY <1>0, <1>1, OwnersCalm, NoneLostIsGuarded
<1>2. CASE Calm
  BY <1>1, <1>2, <1>n DEF Calm, Harmless
<1>3. ASSUME NEW r \in Reqs, DeleteTeamCommit(r) PROVE OwnersInv' /\ GuardedStep
  <2> DEFINE t == req[r].team
  <2>1. req'[r] = NoReq /\ (\A s \in Reqs \ {r} : req'[s] = req[s]) /\ lock[t] = None /\ UNCHANGED lock
    BY <1>0, <1>3, StirEnds DEF DeleteTeamCommit
  <2>2. role' = [role EXCEPT ![t] = [u \in Users |-> None]] /\ team' = [team EXCEPT ![t] = "deleted"]
    BY <1>3 DEF DeleteTeamCommit
  <2>3. t \in Teams
    <3>1. At(r, {"deleteTeam"}, "write")
      BY <1>3 DEF DeleteTeamCommit
    <3>2. req[r].op \in {"deleteTeam"} /\ Shape(req[r])
      BY <1>0, <3>1, Busy DEF OpNames
    <3> QED BY <3>2 DEF Shape
  <2> HIDE DEF t
  <2>4. TakersHoldTheRows'
    BY <1>n, <2>1 DEF OwnersInv, TakersHoldTheRows
  <2>5. HeldTeamsKeepOne'
    BY <2>1, <2>2 DEF OwnersInv, HeldTeamsKeepOne
  <2>6. team'[t] = "deleted" /\ \A o \in Teams \ {t} : Owners(o)' = Owners(o)
    BY <1>0, <1>r, <2>2, <2>3 DEF Owners, Typed, TypeOK
  <2> QED BY <1>0, <2>4, <2>5, <2>6 DEF OwnersInv, GuardedStep
<1>4. ASSUME NEW r \in Reqs, OwnersLock(r) PROVE OwnersInv' /\ GuardedStep
  <2>0. At(r, MemberOps, "lock") /\ UNCHANGED role /\ lock[req[r].team] = None
    BY <1>4 DEF OwnersLock, MemberOps, tables
  <2>1. req[r] \in Request /\ req[r].op \in MemberOps /\ req[r].pc = "lock" /\ Shape(req[r])
    <3>1. MemberOps \in SUBSET OpNames
      BY DEF OpNames, MemberOps
    <3> QED BY <1>0, <2>0, <3>1, Busy
  <2>2. NoOwnerLost
    BY <2>0 DEF NoOwnerLost
  <2>3. CASE End(r) /\ UNCHANGED lock
    BY <1>0, <1>1, <1>n, <2>2, <2>3, Ends
  <2>4. CASE /\ GoTo(r, "write") /\ lock' = [lock EXCEPT ![req[r].team] = r]
             /\ ~(Cardinality(Owners(req[r].team)) <= 1)
    <3>1. req'[r].team = req[r].team /\ \A s \in Reqs \ {r} : req'[s] = req[s]
      <4>1. req[r].seen \in Role
        BY <2>1 DEF Shape
      <4> QED BY <1>0, <2>1, <2>4, <4>1, GoesOn
    <3>2. req[r].team \in Teams
      BY <2>1 DEF Shape
    <3>3. lock \in [Teams -> Reqs \cup {None}]
      BY <1>0 DEF Typed, TypeOK
    <3>4. TakersHoldTheRows'
      BY <1>n, <2>0, <2>4, <3>1, <3>2, <3>3 DEF OwnersInv, TakersHoldTheRows
    <3>5. HeldTeamsKeepOne'
      BY <2>0, <2>4, <3>2, <3>3, TwoOwners DEF OwnersInv, HeldTeamsKeepOne
    <3> QED BY <1>0, <2>2, <3>4, <3>5, NoneLostIsGuarded DEF OwnersInv
  <2> QED BY <1>4, <2>3, <2>4 DEF OwnersLock
<1>5. ASSUME NEW r \in Reqs, MemberWrite(r) PROVE OwnersInv' /\ GuardedStep
  <2> DEFINE t == req[r].team
             u == req[r].who
             new == IF req[r].op = "setRole" /\ role[t][u] # None THEN req[r].role ELSE None
  <2>1. At(r, MemberOps, "write") /\ (role[t][u] = "owner" => lock[t] \in {None, r})
    BY <1>5 DEF MemberWrite, MemberOps
  <2>2. req[r].op \in MemberOps /\ req[r].pc = "write" /\ Shape(req[r]) /\ req[r] \in Request
    <3>1. MemberOps \in SUBSET OpNames
      BY DEF OpNames, MemberOps
    <3> QED BY <1>0, <2>1, <3>1, Busy
  <2>3. t \in Teams /\ u \in Users /\ req[r].seen \in Role
    BY <2>2 DEF Shape
  <2>4. req'[r] = NoReq /\ (\A s \in Reqs \ {r} : req'[s] = req[s])
    BY <1>0, <1>5, StirEnds
  <2>5. role' = [role EXCEPT ![t][u] = new]
    BY <1>5 DEF MemberWrite
  <2>6. lock' = [lock EXCEPT ![t] = IF lock[t] = r THEN None ELSE lock[t]]
    BY <1>5 DEF MemberWrite
  <2>l. lock \in [Teams -> Reqs \cup {None}]
    BY <1>0 DEF Typed, TypeOK
  <2>7. TakersHoldTheRows'
    BY <1>n, <2>3, <2>4, <2>6, <2>l DEF OwnersInv, TakersHoldTheRows
  <2>8. \A o \in Teams, w \in Users : o # t \/ w # u => role'[o][w] = role[o][w]
    BY <1>r, <2>3, <2>5
  <2> HIDE DEF new, t, u
  <2>9. HeldTeamsKeepOne'
    <3> SUFFICES ASSUME NEW o \in Teams, lock'[o] # None
                 PROVE  \E w, x \in Users : w # x /\ role'[o][w] = "owner" /\ role'[o][x] = "owner"
      BY DEF HeldTeamsKeepOne
    <3>1. lock[o] # None
      BY <2>3, <2>6, <2>l
    <3>2. PICK w \in Users, x \in Users : w # x /\ role[o][w] = "owner" /\ role[o][x] = "owner"
      BY <3>1 DEF OwnersInv, HeldTeamsKeepOne
    <3>3. o = t => role[t][u] # "owner"
      BY <1>n, <2>1, <2>3, <2>6, <2>l, <3>1
    <3> QED BY <2>8, <3>2, <3>3
  <2>10. GuardedStep
    <3> SUFFICES ASSUME NEW o \in Teams, Owners(o) # {}, Owners(o)' = {}
                 PROVE  At(r, {"setRole", "remove", "leave"}, "write")
                        /\ req[r].team = o /\ req[r].seen = "member" /\ req'[r] = NoReq
      BY DEF GuardedStep
    <3>1. PICK w \in Users : role[o][w] = "owner"
      BY DEF Owners
    <3>2. \A x \in Users : role'[o][x] # "owner"
      BY DEF Owners
    <3>3. o = t /\ w = u /\ role[t][u] = "owner"
      BY <2>8, <3>1, <3>2
    <3>4. new # "owner"
      BY <1>r, <2>3, <2>5, <3>2, <3>3
    <3>5. TakesOwner(req[r])
      BY <1>n, <2>2, <3>3, <3>4 DEF new, TakesOwner, MemberOps, Shape, Role, t, u
    <3>6. ~Taking(req[r])
      <4> SUFFICES ASSUME Taking(req[r]) PROVE FALSE
        OBVIOUS
      <4>1. lock[t] = r
        BY DEF OwnersInv, TakersHoldTheRows, t
      <4>2. PICK x \in Users, y \in Users : x # y /\ role[t][x] = "owner" /\ role[t][y] = "owner"
        BY <1>n, <2>3, <4>1 DEF OwnersInv, HeldTeamsKeepOne
      <4> QED BY <2>3, <2>8, <3>2, <3>3, <4>2
    <3>7. req[r].seen = "member"
      BY <2>2, <2>3, <3>5, <3>6 DEF Taking, Role
    <3> QED BY <2>1, <2>4, <3>3, <3>7 DEF t, MemberOps
  <2> QED BY <1>0, <2>7, <2>9, <2>10 DEF OwnersInv
<1>6. ASSUME NEW r \in Reqs, InviteCommit(r) \/ RevokeCommit(r) \/ CreateRecord(r) PROVE OwnersInv' /\ GuardedStep
  <2>1. UNCHANGED <<role, lock>>
    BY <1>6 DEF InviteCommit, RevokeCommit, CreateRecord, tables
  <2>2. NoOwnerLost
    BY <2>1 DEF NoOwnerLost
  <2> QED BY <1>0, <1>1, <1>6, <1>n, <2>1, <2>2, StirEnds
<1>7. ASSUME NEW r \in Reqs, RedeemCommit(r) PROVE OwnersInv' /\ GuardedStep
  <2> DEFINE old == role[req[r].team][req[r].who]
             new == IF req[r].seen = None /\ old = None THEN req[r].role ELSE old
  <2>1. UNCHANGED role \/ role' = [role EXCEPT ![req[r].team][req[r].who] = new]
    BY <1>7 DEF RedeemCommit
  <2>2. new = old \/ old = None
    OBVIOUS
  <2> HIDE DEF new
  <2>3. NoOwnerLost
    <3>1. CASE UNCHANGED role
      BY <3>1 DEF NoOwnerLost
    <3>2. CASE role' = [role EXCEPT ![req[r].team][req[r].who] = new]
      BY <1>0, <2>2, <3>2, RoleWritten
    <3> QED BY <2>1, <3>1, <3>2
  <2>4. UNCHANGED lock
    BY <1>7 DEF RedeemCommit
  <2> QED BY <1>0, <1>1, <1>7, <1>n, <2>3, <2>4, StirEnds
<1>8. ASSUME NEW r \in Reqs, NEW u \in Users, NEW i \in Invites,
             \/ \E t \in Teams, ro \in Role : InviteBegin(r, u, t, i, ro)
             \/ RevokeBegin(r, u, i) \/ RedeemBegin(r, u, i)
      PROVE  OwnersInv' /\ GuardedStep
  <2>1. /\ req'[r].op \in InviteOps /\ \A s \in Reqs \ {r} : req'[s] = req[s]
        /\ UNCHANGED <<tables, ensured, lock, idem, history>>
    BY <1>0, <1>8, StirBegins
  <2>2. NoOwnerLost /\ UNCHANGED lock /\ ~Taking(req'[r])
    BY <2>1 DEF NoOwnerLost, Taking, MemberOps, InviteOps, tables
  <2> QED BY <1>1, <2>1, <2>2
<1>9. ASSUME NEW r \in Reqs, CreateLookup(r) \/ (\E l \in Loops : CreateInsert(r, l)) PROVE OwnersInv' /\ GuardedStep
  <2>1. /\ req'[r] = NoReq \/ req'[r].op = "create"
        /\ \A s \in Reqs \ {r} : req'[s] = req[s]
        /\ UNCHANGED <<role, lock>>
    BY <1>0, <1>9, StirCreates
  <2>2. NoOwnerLost /\ UNCHANGED lock /\ ~Taking(req'[r])
    BY <1>n, <2>1 DEF NoOwnerLost, Taking, MemberOps
  <2> QED BY <1>1, <2>1, <2>2
<1>10. ASSUME \/ \E i \in Invites : InviteExpires(i)
              \/ \E l \in Loops : DeleteLoop(l)
              \/ \E m \in Machines, c \in Machines \cup {None} : IdemExpires(m, c)
       PROVE  OwnersInv' /\ GuardedStep
  <2>1. UNCHANGED <<role, lock, req>>
    BY <1>10 DEF InviteExpires, DeleteLoop, IdemExpires, tables
  <2>2. NoOwnerLost
    BY <2>1 DEF NoOwnerLost
  <2> QED BY <1>1, <2>1, <2>2
<1>11. ASSUME Restart PROVE OwnersInv' /\ GuardedStep
  <2>1. UNCHANGED role /\ (\A t \in Teams : lock'[t] = None) /\ (\A r \in Reqs : req'[r] = NoReq)
    BY <1>11 DEF Restart, tables
  <2>2. TakersHoldTheRows' /\ HeldTeamsKeepOne'
    BY <1>n, <2>1 DEF TakersHoldTheRows, HeldTeamsKeepOne
  <2>3. NoOwnerLost
    BY <2>1 DEF NoOwnerLost
  <2> QED BY <1>0, <2>2, <2>3, NoneLostIsGuarded DEF OwnersInv
<1>12. ASSUME NEW r \in Reqs, Stirs(r) PROVE OwnersInv' /\ GuardedStep
  BY <1>3, <1>4, <1>5, <1>6, <1>7, <1>8, <1>9, <1>12 DEF Stirs
<1> QED BY <1>0, <1>2, <1>10, <1>11, <1>12, CalmStep

(* A team never loses its last owner to a removal, a demotion or a departure  *)
(* that knew it was taking an owner's role (db/store.ts, the transactions of  *)
(* removeTeamMemberGuarded and setTeamMemberRoleGuarded): two of them that    *)
(* race wait for each other at the rows they lock.                            *)
THEOREM LastOwnerIsGuarded == Spec => LastOwnerGuarded
<1>1. Init => OwnersInv
  <2> SUFFICES ASSUME Init PROVE OwnersInv
    OBVIOUS
  <2>1. Typed
    BY TypedInit, AccountsConstantsOK
  <2>2. TakersHoldTheRows /\ HeldTeamsKeepOne
    BY NothingInFlight, AccountsConstantsOK DEF Init, TakersHoldTheRows, HeldTeamsKeepOne, Taking
  <2> QED BY <2>1, <2>2 DEF OwnersInv
<1>2. OwnersInv /\ [Next]_vars => OwnersInv'
  BY OwnersStep, AccountsConstantsOK
<1>3. OwnersInv /\ [Next]_vars => GuardedStep
  BY OwnersStep, AccountsConstantsOK
<1>4. OwnersInv /\ [Next]_vars => [GuardedStep]_vars
  BY <1>3
<1>5. Spec => [][GuardedStep]_vars
  BY <1>1, <1>2, <1>4, PTL DEF Spec
<1> QED BY <1>5 DEF LastOwnerGuarded, GuardedStep

(***************************************************************************)
(* Invites.  Inductive: an invite that has let somebody in is spent or     *)
(* gone, and a link that is about to be stored has an id no other request  *)
(* has, so it is not stored over one that is spent.                        *)
(***************************************************************************)
UnspentLetNobodyIn ==
  \A i \in Invites : granted[i] \in {0, 1} /\ (invite[i].st \in {"unborn", "live", "expired"} => granted[i] = 0)
OnItsInvite(q) ==
  /\ q.op = "invite" => invite[q.invite].st = "unborn"
  /\ q.op \in {"revoke", "redeem"} => invite[q.invite].st # "unborn"
IdsAreFresh ==
  \A r, s \in Reqs : r # s /\ req[r].op = "invite" /\ req[s].op \in InviteOps => req[r].invite # req[s].invite

InvitesInv == Typed /\ UnspentLetNobodyIn /\ (\A r \in Reqs : OnItsInvite(req[r])) /\ IdsAreFresh

\* The steps that leave the invites alone.
LEMMA InvitesCalm ==
  ASSUME AccountsConstantsOK, InvitesInv, Typed', UNCHANGED <<invite, granted>>,
         \A r \in Reqs : \/ req'[r].op \notin InviteOps
                         \/ req'[r].op = req[r].op /\ req'[r].invite = req[r].invite
  PROVE  InvitesInv'
<1>1. UnspentLetNobodyIn'
  BY DEF InvitesInv, UnspentLetNobodyIn
<1>2. \A r \in Reqs : OnItsInvite(req[r])'
  BY DEF InvitesInv, OnItsInvite, InviteOps
<1>3. IdsAreFresh'
  BY DEF InvitesInv, IdsAreFresh, InviteOps
<1> QED BY <1>1, <1>2, <1>3 DEF InvitesInv

\* The steps of a request that ends, and stamps its invite or not.
LEMMA InviteStamped ==
  ASSUME AccountsConstantsOK, InvitesInv, Typed',
         \A r \in Reqs : req'[r] = req[r] \/ req'[r] = NoReq,
         \A i \in Invites : \/ invite'[i].st = invite[i].st /\ granted'[i] = granted[i]
                            \/ invite[i].st # "unborn" /\ invite'[i].st = "expired" /\ granted'[i] = 0
                            \/ invite[i].st # "unborn" /\ invite'[i].st \in {"spent", "gone"} /\ granted'[i] \in {0, 1}
  PROVE  InvitesInv'
<1>0. NoReq.op \notin InviteOps
  BY NothingInFlight, Absent DEF InviteOps, OpNames
<1>1. UnspentLetNobodyIn'
  BY DEF InvitesInv, UnspentLetNobodyIn
<1>2. \A r \in Reqs : OnItsInvite(req[r])'
  <2> SUFFICES ASSUME NEW r \in Reqs, req'[r] = req[r] PROVE OnItsInvite(req[r])'
    BY <1>0 DEF OnItsInvite, InviteOps
  <2>1. req[r].op \in InviteOps => req[r].invite \in Invites
    BY DEF InvitesInv, Typed, ReqsTyped, Shape, InviteOps
  <2> QED BY <2>1 DEF InvitesInv, OnItsInvite, InviteOps
<1>3. IdsAreFresh'
  BY <1>0 DEF InvitesInv, IdsAreFresh, InviteOps
<1> QED BY <1>1, <1>2, <1>3 DEF InvitesInv

LEMMA InvitesStep ==
  ASSUME AccountsConstantsOK, InvitesInv, [Next]_vars
  PROVE  InvitesInv'
<1>0. Typed /\ Typed' /\ ReqsTyped /\ req \in [Reqs -> Request \cup {NoReq}]
  BY TypedStep DEF InvitesInv, Typed, TypeOK
<1>n. NoReq.op \notin InviteOps
  BY NothingInFlight, Absent DEF InviteOps, OpNames
<1>t. invite \in [Invites -> Invite] /\ granted \in [Invites -> Nat]
  BY <1>0 DEF Typed, TypeOK
<1>1. ASSUME UNCHANGED <<invite, granted>>, \A r \in Reqs : req'[r] = req[r] \/ req'[r].op \notin InviteOps
      PROVE  InvitesInv'
  BY <1>0, <1>1, InvitesCalm
<1>2. CASE Calm
  BY <1>0, <1>2, <1>n, InvitesCalm DEF Calm, Harmless
<1>3. ASSUME NEW r \in Reqs, DeleteTeamCommit(r) PROVE InvitesInv'
  <2>1. UNCHANGED granted
    BY <1>3 DEF DeleteTeamCommit, history
  <2>2. ASSUME NEW i \in Invites
        PROVE  invite'[i] = invite[i] \/ (invite[i].st # "unborn" /\ invite'[i].st = "gone")
    <3>1. [invite[i] EXCEPT !.st = "gone"].st = "gone"
      BY <1>t, StampTyped
    <3> QED BY <1>3, <3>1 DEF DeleteTeamCommit
  <2>3. \A i \in Invites : granted[i] \in {0, 1}
    BY DEF InvitesInv, UnspentLetNobodyIn
  <2> QED BY <1>0, <1>3, <2>1, <2>2, <2>3, StirEnds, InviteStamped
<1>4. ASSUME NEW r \in Reqs, RevokeCommit(r) PROVE InvitesInv'
  <2>1. UNCHANGED granted /\ invite' = [invite EXCEPT ![req[r].invite] = [invite[req[r].invite] EXCEPT !.st = "gone"]]
    BY <1>4 DEF RevokeCommit, history
  <2>2. req[r].invite \in Invites /\ invite[req[r].invite].st # "unborn"
    <3>1. At(r, {"revoke"}, "write")
      BY <1>4 DEF RevokeCommit
    <3>2. req[r].op \in {"revoke"} /\ Shape(req[r]) /\ OnItsInvite(req[r])
      BY <1>0, <3>1, Busy DEF OpNames, InvitesInv
    <3> QED BY <3>2 DEF Shape, OnItsInvite
  <2>3. ASSUME NEW i \in Invites
        PROVE  invite'[i] = invite[i] \/ (invite[i].st # "unborn" /\ invite'[i].st = "gone")
    <3>1. [invite[req[r].invite] EXCEPT !.st = "gone"].st = "gone"
      BY <1>t, <2>2, StampTyped
    <3> QED BY <1>t, <2>1, <2>2, <3>1
  <2>4. \A i \in Invites : granted[i] \in {0, 1}
    BY DEF InvitesInv, UnspentLetNobodyIn
  <2> QED BY <1>0, <1>4, <2>1, <2>3, <2>4, StirEnds, InviteStamped
<1>5. ASSUME NEW r \in Reqs, RedeemCommit(r) PROVE InvitesInv'
  <2>1. req[r].invite \in Invites
    <3>1. At(r, {"redeem"}, "write")
      BY <1>5 DEF RedeemCommit
    <3>2. req[r].op \in {"redeem"} /\ Shape(req[r])
      BY <1>0, <3>1, Busy DEF OpNames
    <3> QED BY <3>2 DEF Shape
  <2>2. CASE ~Unspent(req[r].invite)
    <3>1. UNCHANGED <<invite, granted>>
      BY <1>5, <2>2 DEF RedeemCommit
    <3> QED BY <1>0, <1>1, <1>5, <1>n, <3>1, StirEnds
  <2>3. CASE Unspent(req[r].invite)
    <3>1. /\ invite' = [invite EXCEPT ![req[r].invite] = [invite[req[r].invite] EXCEPT !.st = "spent"]]
          /\ granted' = [granted EXCEPT ![req[r].invite] = granted[req[r].invite] + 1]
      BY <1>5, <2>3 DEF RedeemCommit
    <3>2. [invite[req[r].invite] EXCEPT !.st = "spent"].st = "spent"
      BY <1>t, <2>1, StampTyped
    <3>3. invite[req[r].invite].st # "unborn" /\ granted[req[r].invite] = 0
      BY <2>1, <2>3 DEF Unspent, InvitesInv, UnspentLetNobodyIn
    <3>4. ASSUME NEW i \in Invites
          PROVE  \/ invite'[i].st = invite[i].st /\ granted'[i] = granted[i]
                 \/ invite[i].st # "unborn" /\ invite'[i].st = "spent" /\ granted'[i] = 1
      BY <1>t, <2>1, <3>1, <3>2, <3>3
    <3> QED BY <1>0, <1>5, <3>4, StirEnds, InviteStamped
  <2> QED BY <2>2, <2>3
<1>6. ASSUME NEW i \in Invites, InviteExpires(i) PROVE InvitesInv'
  <2>1. /\ invite' = [invite EXCEPT ![i] = [invite[i] EXCEPT !.st = "expired"]] /\ invite[i].st = "live"
        /\ UNCHANGED <<req, granted>>
    BY <1>6 DEF InviteExpires, history
  <2>2. [invite[i] EXCEPT !.st = "expired"].st = "expired"
    BY <1>t, StampTyped
  <2>3. granted[i] = 0
    BY <2>1 DEF InvitesInv, UnspentLetNobodyIn
  <2>4. ASSUME NEW o \in Invites
        PROVE  \/ invite'[o].st = invite[o].st /\ granted'[o] = granted[o]
               \/ invite[o].st # "unborn" /\ invite'[o].st = "expired" /\ granted'[o] = 0
    BY <1>t, <2>1, <2>2, <2>3
  <2> QED BY <1>0, <2>1, <2>4, InviteStamped
<1>7. ASSUME NEW r \in Reqs, InviteCommit(r) PROVE InvitesInv'
  <2> DEFINE i == req[r].invite
             new == [team |-> req[r].team, role |-> req[r].role, st |-> "live"]
  <2>1. req[r].op = "invite" /\ i \in Invites /\ invite[i].st = "unborn"
    <3>1. At(r, {"invite"}, "write")
      BY <1>7 DEF InviteCommit
    <3>2. req[r].op \in {"invite"} /\ Shape(req[r]) /\ OnItsInvite(req[r])
      BY <1>0, <3>1, Busy DEF OpNames, InvitesInv
    <3> QED BY <3>2 DEF Shape, OnItsInvite
  <2>2. invite' = [invite EXCEPT ![i] = new] /\ UNCHANGED granted /\ new.st = "live"
    BY <1>7 DEF InviteCommit, history
  <2>3. req'[r] = NoReq /\ \A s \in Reqs \ {r} : req'[s] = req[s]
    BY <1>0, <1>7, StirEnds
  <2>4. \A s \in Reqs \ {r} : req[s].op \in InviteOps => req[s].invite # i
    BY <2>1 DEF InvitesInv, IdsAreFresh
  <2> HIDE DEF i, new
  <2>5. UnspentLetNobodyIn'
    BY <1>t, <2>1, <2>2 DEF InvitesInv, UnspentLetNobodyIn
  <2>6. \A s \in Reqs : OnItsInvite(req[s])'
    <3> SUFFICES ASSUME NEW s \in Reqs \ {r}, req[s].op \in InviteOps PROVE OnItsInvite(req[s])'
      BY <1>n, <2>3 DEF OnItsInvite, InviteOps
    <3>1. req[s].invite \in Invites
      BY <1>0 DEF ReqsTyped, Shape, InviteOps
    <3>2. invite'[req[s].invite] = invite[req[s].invite]
      BY <1>t, <2>2, <2>4, <3>1
    <3> QED BY <2>3, <3>2 DEF InvitesInv, OnItsInvite
  <2>7. IdsAreFresh'
    BY <1>n, <2>3 DEF InvitesInv, IdsAreFresh, InviteOps
  <2> QED BY <1>0, <2>5, <2>6, <2>7 DEF InvitesInv
<1>8. ASSUME NEW r \in Reqs, NEW u \in Users, NEW i \in Invites,
             \/ \E t \in Teams, ro \in Role : InviteBegin(r, u, t, i, ro)
             \/ RevokeBegin(r, u, i) \/ RedeemBegin(r, u, i)
      PROVE  InvitesInv'
  <2>1. /\ req'[r].op \in InviteOps /\ req'[r].invite = i /\ \A s \in Reqs \ {r} : req'[s] = req[s]
        /\ req'[r].op = "invite" => invite[i].st = "unborn" /\ \A s \in Reqs : req[s].invite # i
        /\ req'[r].op # "invite" => invite[i].st # "unborn"
        /\ UNCHANGED <<tables, ensured, lock, idem, history>>
    BY <1>0, <1>8, StirBegins
  <2>2. UNCHANGED <<invite, granted>>
    BY <2>1 DEF tables, history
  <2>3. UnspentLetNobodyIn'
    BY <2>2 DEF InvitesInv, UnspentLetNobodyIn
  <2>4. \A s \in Reqs : OnItsInvite(req[s])'
    BY <2>1, <2>2 DEF InvitesInv, OnItsInvite, InviteOps
  <2>5. IdsAreFresh'
    <3> SUFFICES ASSUME NEW s \in Reqs, NEW o \in Reqs, s # o, req'[s].op = "invite", req'[o].op \in InviteOps,
                        req'[s].invite = req'[o].invite
                 PROVE  FALSE
      BY DEF IdsAreFresh
    <3>1. CASE s = r
      BY <2>1, <3>1
    <3>2. CASE o = r
      <4>1. req[s].op = "invite" /\ req[s].invite = i /\ invite[i].st = "unborn"
        BY <2>1, <3>2 DEF InvitesInv, OnItsInvite
      <4>2. req'[r].op = "invite"
        BY <2>1, <4>1
      <4> QED BY <2>1, <4>1, <4>2
    <3>3. CASE s # r /\ o # r
      BY <2>1, <3>3 DEF InvitesInv, IdsAreFresh
    <3> QED BY <3>1, <3>2, <3>3
  <2> QED BY <1>0, <2>3, <2>4, <2>5 DEF InvitesInv
<1>9. ASSUME NEW r \in Reqs, OwnersLock(r) \/ MemberWrite(r) PROVE InvitesInv'
  <2>1. UNCHANGED <<invite, granted>>
    BY <1>9 DEF OwnersLock, MemberWrite, tables, history
  <2>2. CASE MemberWrite(r)
    BY <1>0, <1>1, <1>n, <2>1, <2>2, StirEnds
  <2>3. CASE OwnersLock(r)
    <3>1. req[r] \in Request /\ req[r].op \in MemberOps /\ req[r].pc = "lock" /\ Shape(req[r])
      <4>1. At(r, MemberOps, "lock") /\ MemberOps \in SUBSET OpNames
        BY <2>3 DEF OwnersLock, MemberOps, OpNames
      <4> QED BY <1>0, <4>1, Busy
    <3>2. req[r].seen \in Role
      BY <3>1 DEF Shape
    <3>3. GoTo(r, "write") \/ End(r)
      BY <2>3 DEF OwnersLock
    <3>4. req'[r].op \notin InviteOps /\ \A s \in Reqs \ {r} : req'[s] = req[s]
      BY <1>0, <1>n, <3>1, <3>2, <3>3, GoesOn, Ends DEF MemberOps, InviteOps
    <3> QED BY <1>1, <2>1, <3>4
  <2> QED BY <1>9, <2>2, <2>3
<1>10. ASSUME NEW r \in Reqs, CreateLookup(r) \/ (\E l \in Loops : CreateInsert(r, l)) PROVE InvitesInv'
  <2>1. /\ req'[r] = NoReq \/ req'[r].op = "create"
        /\ \A s \in Reqs \ {r} : req'[s] = req[s]
        /\ UNCHANGED <<invite, history>>
    BY <1>0, <1>10, StirCreates
  <2> QED BY <1>1, <1>n, <2>1 DEF InviteOps, history
<1>11. ASSUME NEW r \in Reqs, CreateRecord(r) PROVE InvitesInv'
  <2>1. UNCHANGED <<invite, granted>>
    BY <1>11 DEF CreateRecord, tables
  <2> QED BY <1>0, <1>1, <1>11, <1>n, <2>1, StirEnds
<1>12. ASSUME \/ \E l \in Loops : DeleteLoop(l)
              \/ \E m \in Machines, c \in Machines \cup {None} : IdemExpires(m, c)
       PROVE  InvitesInv'
  BY <1>1, <1>12 DEF DeleteLoop, IdemExpires, tables, history
<1>13. ASSUME Restart PROVE InvitesInv'
  BY <1>1, <1>13, <1>n DEF Restart, tables
<1>14. ASSUME NEW r \in Reqs, Stirs(r) PROVE InvitesInv'
  BY <1>3, <1>4, <1>5, <1>7, <1>8, <1>9, <1>10, <1>11, <1>14 DEF Stirs
<1> QED BY <1>0, <1>2, <1>6, <1>12, <1>13, <1>14, CalmStep

(* An invite link lets in at most one redeem (db/store.ts, redeemInviteAtomic), *)
(* however its redeems, its revocation and its team's deletion interleave.      *)
THEOREM InviteIsGrantedOnce == Spec => []InviteGrantsOnce
<1>1. Init => InvitesInv
  <2> SUFFICES ASSUME Init PROVE InvitesInv
    OBVIOUS
  <2>1. Typed
    BY TypedInit, AccountsConstantsOK
  <2>2. \A r \in Reqs : req[r].op \notin InviteOps
    BY NothingInFlight, Absent, AccountsConstantsOK DEF Init, InviteOps, OpNames
  <2>3. UnspentLetNobodyIn
    BY DEF Init, UnspentLetNobodyIn
  <2> QED BY <2>1, <2>2, <2>3 DEF InvitesInv, OnItsInvite, IdsAreFresh, InviteOps
<1>2. InvitesInv /\ [Next]_vars => InvitesInv'
  BY InvitesStep, AccountsConstantsOK
<1>3. InvitesInv => InviteGrantsOnce
  BY DEF InvitesInv, UnspentLetNobodyIn, InviteGrantsOnce
<1> QED BY <1>1, <1>2, <1>3, PTL DEF Spec

(***************************************************************************)
(* Creates.  Inductive: what is recorded of a machine's creates is what it *)
(* was answered, and the loop recorded was born on that machine.           *)
(***************************************************************************)
BornOn(l, m) == loop[l].st \in {"live", "deleted"} /\ loop[l].on = m
RecordedAsAnswered == answered = idem
RecordedWereBorn ==
  \A m \in Machines, c \in Machines \cup {None} : idem[m][c] # None => BornOn(idem[m][c], m)
RecordersWereBorn == \A r \in Reqs : Recording(req[r]) => BornOn(req[r].loop, req[r].machine)

RetryInv == Typed /\ RecordedAsAnswered /\ RecordedWereBorn /\ RecordersWereBorn

\* What RetryReplays says of a step.
RetryStep ==
  \A r \in Reqs : At(r, {"create"}, "idem") /\ req'[r].pc = "claim" =>
      LET l == answered[req[r].machine][req[r].claim] IN l = None \/ loop[l].st = "deleted"

\* The steps that record nothing; a loop stays where it was born.
LEMMA RetryCalm ==
  ASSUME AccountsConstantsOK, RetryInv, Typed', UNCHANGED <<idem, answered>>,
         \A l \in Loops, m \in Machines : BornOn(l, m) => BornOn(l, m)',
         \A r \in Reqs : req'[r] = req[r] \/ ~Recording(req'[r]),
         \A r \in Reqs : req'[r] = req[r] \/ ~(At(r, {"create"}, "idem") /\ req'[r].pc = "claim")
  PROVE  RetryInv' /\ RetryStep
<1>1. RecordedWereBorn'
  <2> SUFFICES ASSUME NEW m \in Machines, NEW c \in Machines \cup {None}, idem[m][c] # None
               PROVE  BornOn(idem[m][c], m)'
    BY DEF RecordedWereBorn
  <2>1. idem[m][c] \in Loops /\ BornOn(idem[m][c], m)
    BY DEF RetryInv, RecordedWereBorn, Typed, TypeOK, Made
  <2> QED BY <2>1 DEF BornOn
<1>2. RecordersWereBorn'
  <2> SUFFICES ASSUME NEW r \in Reqs, Recording(req[r]), req'[r] = req[r]
               PROVE  BornOn(req[r].loop, req[r].machine)'
    BY DEF RecordersWereBorn, BornOn, Recording
  <2>1. req[r].loop \in Loops /\ req[r].machine \in Machines /\ BornOn(req[r].loop, req[r].machine)
    BY DEF RetryInv, RecordersWereBorn, Recording, Typed, ReqsTyped, Shape
  <2> QED BY <2>1 DEF BornOn
<1>3. RetryStep
  BY DEF RetryStep, At
<1> QED BY <1>1, <1>2, <1>3 DEF RetryInv, RecordedAsAnswered

LEMMA CreatesStep ==
  ASSUME AccountsConstantsOK, RetryInv, [Next]_vars
  PROVE  RetryInv' /\ RetryStep
<1>0. Typed /\ Typed' /\ ReqsTyped /\ req \in [Reqs -> Request \cup {NoReq}]
  BY TypedStep DEF RetryInv, Typed, TypeOK
<1>n. ~Recording(NoReq) /\ NoReq.pc # "claim" /\ NoReq.op # "create"
  BY NothingInFlight, Absent DEF Recording, OpNames
<1>l. loop \in [Loops -> Loop \cup {NoLoop}] /\ idem \in Made /\ answered = idem
  BY <1>0 DEF Typed, TypeOK, RetryInv, RecordedAsAnswered
<1>1. ASSUME UNCHANGED <<idem, answered, loop>>,
             \A r \in Reqs : req'[r] = req[r] \/ ~Recording(req'[r]),
             \A r \in Reqs : req'[r] = req[r] \/ ~(At(r, {"create"}, "idem") /\ req'[r].pc = "claim")
      PROVE  RetryInv' /\ RetryStep
  <2>1. \A l \in Loops, m \in Machines : BornOn(l, m) => BornOn(l, m)'
    BY <1>1 DEF BornOn
  <2> QED BY <1>0, <1>1, <2>1, RetryCalm
<1>2. CASE Calm
  BY <1>1, <1>2, <1>n DEF Calm, Harmless, At
<1>3. ASSUME NEW r \in Reqs,
             DeleteTeamCommit(r) \/ MemberWrite(r) \/ InviteCommit(r) \/ RevokeCommit(r) \/ RedeemCommit(r)
      PROVE  RetryInv' /\ RetryStep
  <2>1. UNCHANGED <<idem, answered, loop>>
    BY <1>3 DEF DeleteTeamCommit, MemberWrite, InviteCommit, RevokeCommit, RedeemCommit, history
  <2> QED BY <1>0, <1>1, <1>3, <1>n, <2>1, StirEnds
<1>4. ASSUME NEW r \in Reqs, OwnersLock(r) PROVE RetryInv' /\ RetryStep
  <2>1. req[r] \in Request /\ req[r].op \in MemberOps /\ req[r].pc = "lock" /\ Shape(req[r])
    <3>1. At(r, MemberOps, "lock") /\ MemberOps \in SUBSET OpNames
      BY <1>4 DEF OwnersLock, MemberOps, OpNames
    <3> QED BY <1>0, <3>1, Busy
  <2>2. req[r].seen \in Role
    BY <2>1 DEF Shape
  <2>3. (GoTo(r, "write") \/ End(r)) /\ UNCHANGED <<idem, answered, loop>>
    BY <1>4 DEF OwnersLock, tables, history
  <2>4. req'[r].pc \in {"write", "read"} /\ \A s \in Reqs \ {r} : req'[s] = req[s]
    BY <1>0, <2>1, <2>2, <2>3, GoesOn, Ends, NothingInFlight
  <2> QED BY <1>1, <2>3, <2>4 DEF Recording
<1>5. ASSUME NEW r \in Reqs, NEW u \in Users, NEW i \in Invites,
             \/ \E t \in Teams, ro \in Role : InviteBegin(r, u, t, i, ro)
             \/ RevokeBegin(r, u, i) \/ RedeemBegin(r, u, i)
      PROVE  RetryInv' /\ RetryStep
  <2>1. /\ ~Recording(req'[r]) /\ req[r] = NoReq /\ \A s \in Reqs \ {r} : req'[s] = req[s]
        /\ UNCHANGED <<tables, ensured, lock, idem, history>>
    BY <1>0, <1>5, StirBegins
  <2> QED BY <1>1, <1>n, <2>1 DEF At, tables, history
<1>6. ASSUME NEW r \in Reqs, CreateLookup(r) PROVE RetryInv' /\ RetryStep
  <2>1. /\ req[r] \in Request /\ req[r].op = "create" /\ (\A s \in Reqs \ {r} : req'[s] = req[s])
        /\ UNCHANGED <<idem, history>>
    BY <1>0, <1>6, StirCreates
  <2>2. UNCHANGED <<idem, answered, loop>>
    BY <1>6 DEF CreateLookup, tables, history
  <2>3. CASE End(r)
    BY <1>0, <1>1, <1>n, <2>2, <2>3, Ends
  <2>4. CASE GoTo(r, "claim") /\ ~Replays(req[r].machine, req[r].claim)
    <3>1. req'[r].pc = "claim"
      BY <1>0, <2>1, <2>4, GoesOn
    <3>2. RecordersWereBorn' /\ RecordedWereBorn' /\ RecordedAsAnswered'
      BY <2>1, <2>2, <3>1 DEF RetryInv, RecordersWereBorn, RecordedWereBorn, RecordedAsAnswered, BornOn, Recording
    <3>3. LET l == answered[req[r].machine][req[r].claim] IN l = None \/ loop[l].st = "deleted"
      <4> DEFINE l == idem[req[r].machine][req[r].claim]
      <4>1. req[r].machine \in Machines /\ req[r].claim \in Machines \cup {None}
        BY <1>0, <2>1 DEF ReqsTyped, Shape, Request
      <4>2. l = None \/ BornOn(l, req[r].machine)
        BY <4>1 DEF RetryInv, RecordedWereBorn
      <4> QED BY <1>l, <2>4, <4>2 DEF Replays, BornOn
    <3>4. RetryStep
      <4> SUFFICES ASSUME NEW s \in Reqs, At(s, {"create"}, "idem"), req'[s].pc = "claim"
                   PROVE  s = r
        BY <3>3 DEF RetryStep
      <4> QED BY <2>1 DEF At
    <3> QED BY <1>0, <3>2, <3>4 DEF RetryInv
  <2> QED BY <1>6, <2>3, <2>4 DEF CreateLookup
<1>7. ASSUME NEW r \in Reqs, NEW l \in Loops, CreateInsert(r, l) PROVE RetryInv' /\ RetryStep
  <2> DEFINE q == [req[r] EXCEPT !.pc = "record", !.loop = l]
  <2>1. req[r] \in Request /\ req[r].op \in {"create"} /\ Shape(req[r])
    BY <1>0, <1>7, Busy DEF CreateInsert, OpNames
  <2>2. q.pc = "record" /\ q.loop = l /\ q.machine = req[r].machine
    BY <2>1 DEF Request
  <2>3. req' = [req EXCEPT ![r] = q]
    BY <1>7 DEF CreateInsert
  <2> HIDE DEF q
  <2>4. /\ req'[r].pc = "record" /\ req'[r].loop = l /\ req'[r].machine = req[r].machine
        /\ \A s \in Reqs \ {r} : req'[s] = req[s]
    BY <1>0, <2>2, <2>3
  <2>5. UNCHANGED <<idem, answered>> /\ loop[l].st = "unborn"
        /\ loop' = [loop EXCEPT ![l] = [st |-> "live", team |-> req[r].team, on |-> req[r].machine]]
    BY <1>7 DEF CreateInsert, history
  <2>6. BornOn(l, req[r].machine)'
    BY <1>l, <2>4, <2>5 DEF BornOn
  <2>7. \A k \in Loops, m \in Machines : BornOn(k, m) => BornOn(k, m)'
    BY <1>l, <2>5 DEF BornOn
  <2>8. RecordedWereBorn'
    BY <1>l, <2>5, <2>7 DEF RetryInv, RecordedWereBorn, Made, BornOn
  <2>9. RecordersWereBorn'
    BY <1>l, <2>4, <2>5, <2>6, <2>7 DEF RetryInv, RecordersWereBorn, BornOn, Recording
  <2>10. RetryStep
    BY <2>4 DEF RetryStep, At
  <2> QED BY <1>0, <1>l, <2>5, <2>8, <2>9, <2>10 DEF RetryInv, RecordedAsAnswered
<1>8. ASSUME NEW r \in Reqs, CreateRecord(r) PROVE RetryInv' /\ RetryStep
  <2> DEFINE m == req[r].machine
             c == req[r].claim
             l == req[r].loop
  <2>1. At(r, {"create"}, "record")
    BY <1>8 DEF CreateRecord
  <2>2. m \in Machines /\ c \in Machines \cup {None} /\ l \in Loops /\ BornOn(l, m)
    <3>1. {"create"} \in SUBSET OpNames
      BY DEF OpNames
    <3>2. req[r] \in Request /\ req[r].op \in {"create"} /\ req[r].pc = "record" /\ Shape(req[r])
      BY <1>0, <2>1, <3>1, Busy
    <3> QED BY <3>2 DEF Shape, Request, RetryInv, RecordersWereBorn, Recording
  <2>3. /\ idem' = [idem EXCEPT ![m][c] = l] /\ answered' = [answered EXCEPT ![m][c] = l]
        /\ UNCHANGED loop
    BY <1>8 DEF CreateRecord, tables
  <2>4. req'[r] = NoReq /\ \A s \in Reqs \ {r} : req'[s] = req[s]
    BY <1>0, <1>8, StirEnds
  <2> HIDE DEF m, c, l
  <2>5. RecordedAsAnswered'
    BY <1>l, <2>3 DEF RecordedAsAnswered
  <2>6. RecordedWereBorn'
    <3> SUFFICES ASSUME NEW n \in Machines, NEW d \in Machines \cup {None}, idem'[n][d] # None
                 PROVE  BornOn(idem'[n][d], n)
      BY <2>3 DEF RecordedWereBorn, BornOn
    <3>1. CASE n = m /\ d = c
      BY <1>l, <2>2, <2>3, <3>1 DEF Made
    <3>2. CASE ~(n = m /\ d = c)
      <4>1. idem'[n][d] = idem[n][d]
        BY <1>l, <2>2, <2>3, <3>2 DEF Made
      <4> QED BY <4>1 DEF RetryInv, RecordedWereBorn
    <3> QED BY <3>1, <3>2
  <2>7. RecordersWereBorn'
    BY <1>n, <2>3, <2>4 DEF RetryInv, RecordersWereBorn, BornOn
  <2>8. RetryStep
    BY <1>n, <2>4 DEF RetryStep, At
  <2> QED BY <1>0, <2>5, <2>6, <2>7, <2>8 DEF RetryInv
<1>9. ASSUME NEW l \in Loops, DeleteLoop(l) PROVE RetryInv' /\ RetryStep
  <2>1. loop' = [loop EXCEPT ![l] = [loop[l] EXCEPT !.st = "deleted"]] /\ loop[l].st = "live"
        /\ UNCHANGED <<req, idem, answered>>
    BY <1>9 DEF DeleteLoop, history
  <2>2. loop[l] \in Loop
    BY <1>l, <2>1 DEF NoLoop
  <2>3. [loop[l] EXCEPT !.st = "deleted"].st = "deleted" /\ [loop[l] EXCEPT !.st = "deleted"].on = loop[l].on
    BY <2>2 DEF Loop
  <2>4. \A k \in Loops, m \in Machines : BornOn(k, m) => BornOn(k, m)'
    BY <1>l, <2>1, <2>3 DEF BornOn
  <2> QED BY <1>0, <2>1, <2>4, RetryCalm
<1>10. ASSUME NEW m \in Machines, NEW c \in Machines \cup {None}, IdemExpires(m, c) PROVE RetryInv' /\ RetryStep
  <2>1. /\ idem' = [idem EXCEPT ![m][c] = None] /\ answered' = [answered EXCEPT ![m][c] = None]
        /\ UNCHANGED <<req, loop>>
    BY <1>10 DEF IdemExpires, tables
  <2>2. RecordedAsAnswered'
    BY <1>l, <2>1 DEF RecordedAsAnswered
  <2>3. RecordedWereBorn'
    <3> SUFFICES ASSUME NEW n \in Machines, NEW d \in Machines \cup {None}, idem'[n][d] # None
                 PROVE  BornOn(idem'[n][d], n)
      BY <2>1 DEF RecordedWereBorn, BornOn
    <3>1. idem'[n][d] = idem[n][d]
      BY <1>l, <2>1 DEF Made
    <3> QED BY <3>1 DEF RetryInv, RecordedWereBorn
  <2>4. RecordersWereBorn' /\ RetryStep
    BY <2>1 DEF RetryInv, RecordersWereBorn, BornOn, RetryStep, At
  <2> QED BY <1>0, <2>2, <2>3, <2>4 DEF RetryInv
<1>11. ASSUME Restart PROVE RetryInv' /\ RetryStep
  <2>1. idem' = NothingMade /\ answered' = NothingMade /\ \A r \in Reqs : req'[r] = NoReq
    BY <1>11 DEF Restart
  <2>2. RecordedWereBorn' /\ RecordersWereBorn' /\ RecordedAsAnswered'
    BY <1>n, <2>1 DEF RecordedWereBorn, RecordersWereBorn, RecordedAsAnswered, NothingMade
  <2>3. RetryStep
    BY <1>n, <2>1 DEF RetryStep
  <2> QED BY <1>0, <2>2, <2>3 DEF RetryInv
<1>12. ASSUME NEW i \in Invites, InviteExpires(i) PROVE RetryInv' /\ RetryStep
  BY <1>1, <1>12 DEF InviteExpires, history
<1>13. ASSUME NEW r \in Reqs, Stirs(r) PROVE RetryInv' /\ RetryStep
  BY <1>3, <1>4, <1>5, <1>6, <1>7, <1>8, <1>13 DEF Stirs
<1> QED BY <1>0, <1>2, <1>9, <1>10, <1>11, <1>12, <1>13, CalmStep

(* A retried create goes past its lookup only when the loop it made is gone, *)
(* forgotten in a restart or out of the window (gateway/index.ts,            *)
(* createLoop over readNewIdempotency and recordNewIdempotency).             *)
THEOREM RetryIsReplayed == Spec => RetryReplays
<1>1. Init => RetryInv
  <2> SUFFICES ASSUME Init PROVE RetryInv
    OBVIOUS
  <2>1. Typed
    BY TypedInit, AccountsConstantsOK
  <2>2. RecordedAsAnswered /\ RecordedWereBorn /\ RecordersWereBorn
    BY NothingInFlight, AccountsConstantsOK
       DEF Init, RecordedAsAnswered, RecordedWereBorn, RecordersWereBorn, NothingMade, Recording
  <2> QED BY <2>1, <2>2 DEF RetryInv
<1>2. RetryInv /\ [Next]_vars => RetryInv'
  BY CreatesStep, AccountsConstantsOK
<1>3. RetryInv /\ [Next]_vars => [RetryStep]_vars
  BY CreatesStep, AccountsConstantsOK
<1>4. Spec => [][RetryStep]_vars
  BY <1>1, <1>2, <1>3, PTL DEF Spec
<1> QED BY <1>4 DEF RetryReplays, RetryStep
===============================================================================
