------------------------------- MODULE Accounts -------------------------------
(***************************************************************************)
(* Teams, their members and invites, the machines that enrol, and the      *)
(* creation of a loop on a machine for a team.  Every request reads and    *)
(* writes in several awaits, and requests interleave: what one has checked *)
(* another may change before it writes.  The Postgres transactions run at  *)
(* READ COMMITTED: a plain SELECT locks nothing, SELECT ... FOR UPDATE     *)
(* holds the team's owner rows until the transaction ends.                 *)
(*                                                                         *)
(*   members, invites   server/teamAdmin.ts over db/store.ts               *)
(*   machines           server/machineFns.ts, poll's self-registration     *)
(*   creation           gateway/index.ts createLoop, gateway/tokens.ts     *)
(*                                                                         *)
(* A device token and the machine id derived from it are one identity, and *)
(* a claim is such a token too.  Names, tokens' texts and channels are     *)
(* left out.                                                               *)
(***************************************************************************)
EXTENDS FiniteSets, Naturals

CONSTANTS
    Users, Teams, Invites, Machines, Loops,
    Reqs,                \* slots for requests in flight
    PersonalOf,          \* the user whose personal team a team is, or None
    Ops,                 \* the requests that come in
    MaxRequests,         \* bound: how many come in
    None

Role == {"owner", "member"}
OpNames == {"deleteTeam", "add", "setRole", "remove", "leave", "invite", "revoke", "redeem",
            "machine", "enrol", "deleteMachine", "create"}

ASSUME AccountsConstantsOK ==
    /\ PersonalOf \in [Teams -> Users \cup {None}]
    /\ \A u \in Users : \E t \in Teams : PersonalOf[t] = u
    /\ IsFiniteSet(Users)
    /\ None \notin Users \cup Teams \cup Invites \cup Machines \cup Loops \cup Reqs \cup Role \cup OpNames
    /\ Ops \subseteq OpNames
    /\ MaxRequests \in Nat

VARIABLES
    team,       \* the teams table: "unborn", "live" or "deleted"
    ensured,    \* the process's memo of the personal teams it has ensured
    role,       \* team_members: each user's role in each team, None without a row
    invite,     \* team_invites
    lock,       \* the transaction that holds a team's owner rows
    minted,     \* the tokens that have been minted
    key,        \* connect_keys: minter and team of a token, NoKey when none or expired
    machine,    \* the machines table: owner and home team
    loop,       \* the loops table
    idem,       \* the loop a `loopany new` of a machine made, with and without a claim
    req,        \* requests in flight
    came,       \* how many requests have come
    granted,    \* history: how many redeems each invite let in
    answered    \* history: the loop the last answered such create made, within the window

vars == <<team, ensured, role, invite, lock, minted, key, machine, loop, idem, req, came, granted, answered>>
tables == <<team, role, invite, minted, key, machine, loop>>
history == <<granted, answered>>
\* The idempotency key hashes the machine and the whole body, so its claim too.
Made == [Machines -> [Machines \cup {None} -> Loops \cup {None}]]
NothingMade == [m \in Machines |-> [c \in Machines \cup {None} |-> None]]

Invite == [team : Teams \cup {None}, role : Role,
           st : {"unborn", "live", "expired", "spent", "gone"}]
Key == [user : Users, team : Teams]
NoKey == [user |-> None, team |-> None]
Machine == [user : Users, home : Teams]
NoMachine == [user |-> None, home |-> None]
Loop == [st : {"live", "deleted"}, team : Teams, on : Machines]
NoLoop == [st |-> "unborn", team |-> None, on |-> None]

Request == [op : Ops, pc : {"read", "lock", "write", "team", "member", "count", "recount",
                            "idem", "claim", "insert", "record"},
            by : Users \cup {None}, who : Users \cup {None}, team : Teams \cup {None},
            role : Role \cup {None}, seen : Role \cup {None}, invite : Invites \cup {None},
            machine : Machines \cup {None}, claim : Machines \cup {None},
            loop : Loops \cup {None}]
NoReq == [op |-> None, pc |-> "read", by |-> None, who |-> None, team |-> None, role |-> None,
          seen |-> None, invite |-> None, machine |-> None, claim |-> None, loop |-> None]

TypeOK ==
    /\ team \in [Teams -> {"unborn", "live", "deleted"}]
    /\ ensured \subseteq Teams
    /\ role \in [Teams -> [Users -> Role \cup {None}]]
    /\ invite \in [Invites -> Invite]
    /\ lock \in [Teams -> Reqs \cup {None}]
    /\ minted \subseteq Machines
    /\ key \in [Machines -> Key \cup {NoKey}]
    /\ machine \in [Machines -> Machine \cup {NoMachine}]
    /\ loop \in [Loops -> Loop \cup {NoLoop}]
    /\ idem \in Made
    /\ req \in [Reqs -> Request \cup {NoReq}]
    /\ came \in 0..MaxRequests
    /\ granted \in [Invites -> Nat]
    /\ answered \in Made

Init ==
    /\ team = [t \in Teams |-> "unborn"]
    /\ ensured = {}
    /\ role = [t \in Teams |-> [u \in Users |-> None]]
    /\ invite = [i \in Invites |-> [team |-> None, role |-> "member", st |-> "unborn"]]
    /\ lock = [t \in Teams |-> None]
    /\ minted = {}
    /\ key = [m \in Machines |-> NoKey]
    /\ machine = [m \in Machines |-> NoMachine]
    /\ loop = [l \in Loops |-> NoLoop]
    /\ idem = NothingMade
    /\ req = [r \in Reqs |-> NoReq]
    /\ came = 0
    /\ granted = [i \in Invites |-> 0]
    /\ answered = NothingMade

------------------------------------------------------------------------------
(* What the requests read                                                  *)

Owners(t) == {u \in Users : role[t][u] = "owner"}        \* countTeamOwners
LoopsOf(t) == {l \in Loops : loop[l].st = "live" /\ loop[l].team = t}
LoopsOn(m) == {l \in Loops : loop[l].st = "live" /\ loop[l].on = m}
Personal(t) == PersonalOf[t] # None                      \* isPersonalTeam
PersonalTeam(u) == CHOOSE t \in Teams : PersonalOf[t] = u    \* teamIdForUser

\* requestScope: the team asked for when the user belongs to it, else their own.
Scope(u, t) == IF role[t][u] # None THEN t ELSE PersonalTeam(u)

Begin(r, q) ==
    /\ req[r] = NoReq
    /\ q.op \in Ops
    /\ came < MaxRequests
    /\ came' = came + 1
    /\ req' = [req EXCEPT ![r] = q]

At(r, ops, pc) == req[r].op \in ops /\ req[r].pc = pc

GoTo(r, pc) == req' = [req EXCEPT ![r].pc = pc] /\ UNCHANGED came
End(r) == req' = [req EXCEPT ![r] = NoReq] /\ UNCHANGED came

------------------------------------------------------------------------------
(* Teams: createTeam, ensureTeam, deleteTeam                               *)

CreateTeam(u, t) ==
    /\ ~Personal(t)
    /\ team[t] = "unborn"
    /\ team' = [team EXCEPT ![t] = "live"]
    /\ role' = [role EXCEPT ![t][u] = "owner"]
    /\ UNCHANGED <<ensured, invite, lock, minted, key, machine, loop, idem, req, came, history>>

\* ensureTeam: once per process, insert what is missing and touch what is there.
Ensure(t) ==
    /\ role' = [role EXCEPT ![t][PersonalOf[t]] =
                    IF t \notin ensured /\ @ = None THEN "owner" ELSE @]
    /\ team' = [team EXCEPT ![t] = "live"]
    /\ ensured' = ensured \cup {t}

\* requestScope of a signed-in user, or the hook that runs when they sign up
SignIn(t) ==
    /\ Personal(t)
    /\ Ensure(t)
    /\ UNCHANGED <<invite, lock, minted, key, machine, loop, idem, req, came, history>>

\* assertOwner, then getTeam: nobody deletes a personal team.
DeleteTeamBegin(r, u, t) ==
    /\ role[t][u] = "owner"
    /\ team[t] = "live" /\ ~Personal(t)
    /\ Begin(r, [NoReq EXCEPT !.op = "deleteTeam", !.pc = "count", !.by = u, !.team = t])
    /\ UNCHANGED <<tables, ensured, lock, idem, history>>

\* The count before the transaction, and again inside it.
DeleteTeamCount(r) ==
    /\ \/ /\ At(r, {"deleteTeam"}, "count")
          /\ IF LoopsOf(req[r].team) = {} THEN GoTo(r, "recount") ELSE End(r)
       \/ /\ At(r, {"deleteTeam"}, "recount")
          /\ IF LoopsOf(req[r].team) = {} THEN GoTo(r, "write") ELSE End(r)
    /\ UNCHANGED <<tables, ensured, lock, idem, history>>

\* deleteTeamCascade: machines go home, the team's rows go with it.
DeleteTeamCommit(r) == LET t == req[r].team IN
    /\ At(r, {"deleteTeam"}, "write")
    /\ lock[t] = None
    /\ machine' = [m \in Machines |->
                      IF machine[m].home = t
                      THEN [machine[m] EXCEPT !.home = PersonalTeam(machine[m].user)]
                      ELSE machine[m]]
    /\ invite' = [i \in Invites |-> IF invite[i].team = t /\ invite[i].st # "unborn"
                                    THEN [invite[i] EXCEPT !.st = "gone"] ELSE invite[i]]
    /\ role' = [role EXCEPT ![t] = [u \in Users |-> None]]
    /\ team' = [team EXCEPT ![t] = "deleted"]
    /\ ensured' = ensured \ {t}
    /\ End(r)
    /\ UNCHANGED <<lock, minted, key, loop, idem, history>>

------------------------------------------------------------------------------
(* Members: addMemberByEmail, setMemberRole, removeMember, leaveTeam       *)

\* addMemberByEmail: the owner gate and the test that they are no member yet
AddBegin(r, u, t, w, ro) ==
    /\ role[t][u] = "owner"
    /\ role[t][w] = None
    /\ Begin(r, [NoReq EXCEPT !.op = "add", !.pc = "write", !.by = u, !.team = t,
                              !.who = w, !.role = ro])
    /\ UNCHANGED <<tables, ensured, lock, idem, history>>

\* addTeamMember: on a conflict the row stays as it is.
AddCommit(r) ==
    /\ At(r, {"add"}, "write")
    /\ role' = [role EXCEPT ![req[r].team][req[r].who] = IF @ = None THEN req[r].role ELSE @]
    /\ End(r)
    /\ UNCHANGED <<team, ensured, invite, lock, minted, key, machine, loop, idem, history>>

SetRoleBegin(r, u, t, w, ro) ==
    /\ role[t][u] = "owner"
    /\ Begin(r, [NoReq EXCEPT !.op = "setRole", !.by = u, !.team = t, !.who = w, !.role = ro])
    /\ UNCHANGED <<tables, ensured, lock, idem, history>>

RemoveBegin(r, u, t, w) ==
    /\ role[t][u] = "owner" /\ u # w
    /\ Begin(r, [NoReq EXCEPT !.op = "remove", !.by = u, !.team = t, !.who = w])
    /\ UNCHANGED <<tables, ensured, lock, idem, history>>

LeaveBegin(r, u, t) ==
    /\ team[t] = "live" /\ role[t][u] # None /\ ~Personal(t)
    /\ Begin(r, [NoReq EXCEPT !.op = "leave", !.by = u, !.team = t, !.who = u])
    /\ UNCHANGED <<tables, ensured, lock, idem, history>>

TakesOwner(q) == q.op \in {"remove", "leave"} \/ (q.op = "setRole" /\ q.role = "member")

\* The transactions of removeTeamMemberGuarded and setTeamMemberRoleGuarded: they read
\* the member's row without a lock ...
MemberRead(r) == LET q == req[r]
                     seen == role[q.team][q.who] IN
    /\ At(r, {"setRole", "remove", "leave"}, "read")
    /\ IF seen = None THEN End(r)
       ELSE /\ req' = [req EXCEPT ![r].seen = seen,
                         ![r].pc = IF seen = "owner" /\ TakesOwner(q) THEN "lock" ELSE "write"]
            /\ UNCHANGED came
    /\ UNCHANGED <<tables, ensured, lock, idem, history>>

\* Mutant: the owners are counted without FOR UPDATE.
OwnersCountOnly(r) ==
    /\ At(r, {"setRole", "remove", "leave"}, "lock")
    /\ IF Cardinality(Owners(req[r].team)) <= 1 THEN End(r) ELSE GoTo(r, "write")
    /\ UNCHANGED <<tables, ensured, lock, idem, history>>

\* ... lock and count the owners when it was an owner's ...
OwnersLock(r) == LET t == req[r].team IN
    /\ At(r, {"setRole", "remove", "leave"}, "lock")
    /\ lock[t] = None
    /\ IF Cardinality(Owners(t)) <= 1
       THEN End(r) /\ UNCHANGED lock
       ELSE GoTo(r, "write") /\ lock' = [lock EXCEPT ![t] = r]
    /\ UNCHANGED <<tables, ensured, idem, history>>

\* ... and write.  Another transaction's lock on an owner's row is waited for.
MemberWrite(r) == LET q == req[r] IN
    /\ At(r, {"setRole", "remove", "leave"}, "write")
    /\ role[q.team][q.who] = "owner" => lock[q.team] \in {None, r}
    /\ role' = [role EXCEPT ![q.team][q.who] =
                    IF q.op = "setRole" /\ @ # None THEN q.role ELSE None]
    /\ lock' = [lock EXCEPT ![q.team] = IF @ = r THEN None ELSE @]
    /\ End(r)
    /\ UNCHANGED <<team, ensured, invite, minted, key, machine, loop, idem, history>>

------------------------------------------------------------------------------
(* Invites: createInvite, revokeInvite, redeemInvite                       *)

InviteBegin(r, u, t, i, ro) ==
    /\ role[t][u] = "owner"
    /\ invite[i].st = "unborn" /\ \A s \in Reqs : req[s].invite # i
    /\ Begin(r, [NoReq EXCEPT !.op = "invite", !.pc = "write", !.by = u, !.team = t,
                              !.invite = i, !.role = ro])
    /\ UNCHANGED <<tables, ensured, lock, idem, history>>

InviteCommit(r) == LET q == req[r] IN
    /\ At(r, {"invite"}, "write")
    /\ invite' = [invite EXCEPT ![q.invite] = [team |-> q.team, role |-> q.role, st |-> "live"]]
    /\ End(r)
    /\ UNCHANGED <<team, ensured, role, lock, minted, key, machine, loop, idem, history>>

\* The owner gate and getInvite, then deleteInvite
RevokeBegin(r, u, i) ==
    /\ invite[i].st \in {"live", "expired", "spent"}
    /\ role[invite[i].team][u] = "owner"
    /\ Begin(r, [NoReq EXCEPT !.op = "revoke", !.pc = "write", !.by = u, !.invite = i])
    /\ UNCHANGED <<tables, ensured, lock, idem, history>>

RevokeCommit(r) ==
    /\ At(r, {"revoke"}, "write")
    /\ invite' = [invite EXCEPT ![req[r].invite].st = "gone"]
    /\ End(r)
    /\ UNCHANGED <<team, ensured, role, lock, minted, key, machine, loop, idem, history>>

\* redeemInvite reads the invite, then the team, then the membership ...
RedeemBegin(r, u, i) ==
    /\ invite[i].st = "live"
    /\ Begin(r, [NoReq EXCEPT !.op = "redeem", !.pc = "team", !.by = u, !.who = u,
                    !.team = invite[i].team, !.invite = i, !.role = invite[i].role])
    /\ UNCHANGED <<tables, ensured, lock, idem, history>>

RedeemTeam(r) ==
    /\ At(r, {"redeem"}, "team")
    /\ IF team[req[r].team] = "live" THEN GoTo(r, "member") ELSE End(r)
    /\ UNCHANGED <<tables, ensured, lock, idem, history>>

RedeemMember(r) ==
    /\ At(r, {"redeem"}, "member")
    /\ req' = [req EXCEPT ![r].pc = "write", ![r].seen = role[req[r].team][req[r].who]]
    /\ UNCHANGED <<tables, ensured, lock, idem, came, history>>

\* Mutant: the stamp does not ask whether the invite was redeemed.
NotRevoked(i) == invite[i].st # "gone"

\* ... and redeemInviteAtomic stamps it if it is unspent and grants in the same step.
Unspent(i) == invite[i].st \in {"live", "expired"}
RedeemCommit(r) == LET q == req[r] IN
    /\ At(r, {"redeem"}, "write")
    /\ IF Unspent(q.invite)
       THEN /\ invite' = [invite EXCEPT ![q.invite].st = "spent"]
            /\ role' = [role EXCEPT ![q.team][q.who] =
                            IF q.seen = None /\ @ = None THEN q.role ELSE @]
            /\ granted' = [granted EXCEPT ![q.invite] = @ + 1]
       ELSE UNCHANGED <<invite, role, granted>>
    /\ End(r)
    /\ UNCHANGED <<team, ensured, lock, minted, key, machine, loop, idem, answered>>

InviteExpires(i) ==
    /\ invite[i].st = "live"
    /\ invite' = [invite EXCEPT ![i].st = "expired"]
    /\ UNCHANGED <<team, ensured, role, lock, minted, key, machine, loop, idem, req, came, history>>

------------------------------------------------------------------------------
(* Machines: mintClaim, createMachine, poll's self-registration,           *)
(* deleteMachine                                                           *)

\* rememberConnectKey of a token fresh from mintDeviceToken
Remember(m, u, t) ==
    /\ m \notin minted
    /\ minted' = minted \cup {m}
    /\ key' = [key EXCEPT ![m] = [user |-> u, team |-> t]]

SignedIn(u) == PersonalTeam(u) \in ensured

\* mintClaim: the New-loop dialog's token carries the team the dialog was opened in.
MintClaim(u, t, m) ==
    /\ SignedIn(u)
    /\ Remember(m, u, Scope(u, t))
    /\ UNCHANGED <<team, ensured, role, invite, lock, machine, loop, idem, req, came, history>>

\* createMachine of the dashboard: the row is homed in the team in scope.
CreateMachineBegin(r, u, t, m) ==
    /\ SignedIn(u)
    /\ Remember(m, u, Scope(u, t))
    /\ Begin(r, [NoReq EXCEPT !.op = "machine", !.pc = "write", !.by = u,
                              !.team = Scope(u, t), !.machine = m])
    /\ UNCHANGED <<team, ensured, role, invite, lock, machine, loop, idem, history>>

\* First contact in poll: getMachine finds nothing, getDeviceOwner the minter of the token.
EnrolBegin(r, m) ==
    /\ machine[m] = NoMachine /\ key[m] # NoKey
    /\ Begin(r, [NoReq EXCEPT !.op = "enrol", !.pc = "team", !.by = key[m].user, !.machine = m,
                              !.team = PersonalTeam(key[m].user)])
    /\ UNCHANGED <<tables, ensured, lock, idem, history>>

EnrolEnsure(r) ==
    /\ At(r, {"enrol"}, "team")
    /\ Ensure(req[r].team)
    /\ GoTo(r, "write")
    /\ UNCHANGED <<invite, lock, minted, key, machine, loop, idem, history>>

\* store.createMachine: the insert of a row that is there fails.
MachineCommit(r) == LET q == req[r] IN
    /\ At(r, {"machine", "enrol"}, "write")
    /\ machine' = [machine EXCEPT ![q.machine] =
                      IF @ = NoMachine THEN [user |-> q.by, home |-> q.team] ELSE @]
    /\ End(r)
    /\ UNCHANGED <<team, ensured, role, invite, lock, minted, key, loop, idem, history>>

\* machineInScope: one's own machine, or one whose owner is in the team in scope
InScope(u, m) == \/ machine[m].user = u
                 \/ \E t \in Teams : role[t][u] # None /\ role[t][machine[m].user] # None

DeleteMachineBegin(r, u, m) ==
    /\ machine[m] # NoMachine /\ InScope(u, m)
    /\ Begin(r, [NoReq EXCEPT !.op = "deleteMachine", !.pc = "count", !.by = u, !.machine = m])
    /\ UNCHANGED <<tables, ensured, lock, idem, history>>

DeleteMachineCount(r) ==
    /\ At(r, {"deleteMachine"}, "count")
    /\ IF LoopsOn(req[r].machine) = {} THEN GoTo(r, "write") ELSE End(r)
    /\ UNCHANGED <<tables, ensured, lock, idem, history>>

DeleteMachineCommit(r) ==
    /\ At(r, {"deleteMachine"}, "write")
    /\ machine' = [machine EXCEPT ![req[r].machine] = NoMachine]
    /\ End(r)
    /\ UNCHANGED <<team, ensured, role, invite, lock, minted, key, loop, idem, history>>

\* CONNECT_KEY_TTL_MS has passed.
KeyExpires(m) ==
    /\ key[m] # NoKey
    /\ key' = [key EXCEPT ![m] = NoKey]
    /\ UNCHANGED <<team, ensured, role, invite, lock, minted, machine, loop, idem, req, came, history>>

------------------------------------------------------------------------------
(* Gateway.createLoop: one configuration, so a key per machine and claim   *)

\* getMachine; the loop goes to the machine's home unless a claim says otherwise.
CreateBegin(r, m, c) ==
    /\ machine[m] # NoMachine
    /\ Begin(r, [NoReq EXCEPT !.op = "create", !.pc = "idem", !.by = machine[m].user,
                              !.team = machine[m].home, !.machine = m, !.claim = c])
    /\ UNCHANGED <<tables, ensured, lock, idem, history>>

\* readNewIdempotency: a loop this machine made and that is still there is the answer.
Replays(m, c) == LET l == idem[m][c] IN l # None /\ loop[l].st = "live" /\ loop[l].on = m

CreateLookup(r) ==
    /\ At(r, {"create"}, "idem")
    /\ IF Replays(req[r].machine, req[r].claim) THEN End(r) ELSE GoTo(r, "claim")
    /\ UNCHANGED <<tables, ensured, lock, idem, history>>

\* readClaimIntent: a claim of another user is refused, one of another team checked.
CreateClaim(r) == LET q == req[r]
                      intent == IF q.claim = None THEN NoKey ELSE key[q.claim] IN
    /\ At(r, {"create"}, "claim")
    /\ \/ /\ intent.team \in {None, q.team}
          /\ GoTo(r, "insert")
       \/ /\ intent.team \notin {None, q.team}
          /\ IF intent.user # q.by THEN End(r)
             ELSE /\ req' = [req EXCEPT ![r].pc = "member", ![r].team = intent.team]
                  /\ UNCHANGED came
    /\ UNCHANGED <<tables, ensured, lock, idem, history>>

CreateMember(r) ==
    /\ At(r, {"create"}, "member")
    /\ IF role[req[r].team][req[r].by] # None THEN GoTo(r, "insert") ELSE End(r)
    /\ UNCHANGED <<tables, ensured, lock, idem, history>>

CreateInsert(r, l) == LET q == req[r] IN
    /\ At(r, {"create"}, "insert")
    /\ loop[l].st = "unborn"
    /\ loop' = [loop EXCEPT ![l] = [st |-> "live", team |-> q.team, on |-> q.machine]]
    /\ req' = [req EXCEPT ![r].pc = "record", ![r].loop = l]
    /\ UNCHANGED <<team, ensured, role, invite, lock, minted, key, machine, idem, came, history>>

\* Mutant: the key is recorded only for a create that carries a claim.
CreateRecordClaimed(r) == LET q == req[r] IN
    /\ At(r, {"create"}, "record")
    /\ idem' = [idem EXCEPT ![q.machine][q.claim] = IF q.claim # None THEN q.loop ELSE @]
    /\ answered' = [answered EXCEPT ![q.machine][q.claim] = q.loop]
    /\ End(r)
    /\ UNCHANGED <<tables, ensured, lock, granted>>

\* After runNow's awaits: recordNewIdempotency, and the answer
CreateRecord(r) == LET q == req[r] IN
    /\ At(r, {"create"}, "record")
    /\ idem' = [idem EXCEPT ![q.machine][q.claim] = q.loop]
    /\ answered' = [answered EXCEPT ![q.machine][q.claim] = q.loop]
    /\ End(r)
    /\ UNCHANGED <<tables, ensured, lock, granted>>

DeleteLoop(l) ==
    /\ loop[l].st = "live"
    /\ loop' = [loop EXCEPT ![l].st = "deleted"]
    /\ UNCHANGED <<team, ensured, role, invite, lock, minted, key, machine, idem, req, came, history>>

\* NEW_IDEMPOTENCY_TTL_MS has passed.
IdemExpires(m, c) ==
    /\ idem[m][c] # None
    /\ idem' = [idem EXCEPT ![m][c] = None]
    /\ answered' = [answered EXCEPT ![m][c] = None]
    /\ UNCHANGED <<tables, ensured, lock, req, came, granted>>

\* The server restarts: transactions roll back, what it held in memory is lost.
Restart ==
    /\ req' = [r \in Reqs |-> NoReq]
    /\ lock' = [t \in Teams |-> None]
    /\ ensured' = {} /\ idem' = NothingMade /\ answered' = NothingMade
    /\ UNCHANGED <<tables, came, granted>>

------------------------------------------------------------------------------
TeamStep(r) == \/ \E u \in Users, t \in Teams : DeleteTeamBegin(r, u, t) \/ LeaveBegin(r, u, t)
               \/ \E u, w \in Users, t \in Teams : RemoveBegin(r, u, t, w)
               \/ \E u, w \in Users, t \in Teams, ro \in Role :
                      AddBegin(r, u, t, w, ro) \/ SetRoleBegin(r, u, t, w, ro)
               \/ DeleteTeamCount(r) \/ DeleteTeamCommit(r)
               \/ AddCommit(r) \/ MemberRead(r) \/ OwnersLock(r) \/ MemberWrite(r)

InviteStep(r) == \/ \E u \in Users, t \in Teams, i \in Invites, ro \in Role :
                        InviteBegin(r, u, t, i, ro)
                 \/ \E u \in Users, i \in Invites : RevokeBegin(r, u, i) \/ RedeemBegin(r, u, i)
                 \/ InviteCommit(r) \/ RevokeCommit(r)
                 \/ RedeemTeam(r) \/ RedeemMember(r) \/ RedeemCommit(r)

MachineStep(r) == \/ \E u \in Users, t \in Teams, m \in Machines : CreateMachineBegin(r, u, t, m)
                  \/ \E u \in Users, m \in Machines : DeleteMachineBegin(r, u, m)
                  \/ \E m \in Machines : EnrolBegin(r, m)
                  \/ EnrolEnsure(r) \/ MachineCommit(r)
                  \/ DeleteMachineCount(r) \/ DeleteMachineCommit(r)

CreateStep(r) == \/ \E m \in Machines, c \in Machines \cup {None} : CreateBegin(r, m, c)
                 \/ CreateLookup(r) \/ CreateClaim(r) \/ CreateMember(r)
                 \/ \E l \in Loops : CreateInsert(r, l)
                 \/ CreateRecord(r)

Next == \/ \E r \in Reqs : TeamStep(r) \/ InviteStep(r) \/ MachineStep(r) \/ CreateStep(r)
        \/ \E u \in Users, t \in Teams : CreateTeam(u, t)
        \/ \E t \in Teams : SignIn(t)
        \/ \E u \in Users, t \in Teams, m \in Machines : MintClaim(u, t, m)
        \/ \E i \in Invites : InviteExpires(i)
        \/ \E m \in Machines : KeyExpires(m)
        \/ \E l \in Loops : DeleteLoop(l)
        \/ \E m \in Machines, c \in Machines \cup {None} : IdemExpires(m, c)
        \/ Restart

Spec == Init /\ [][Next]_vars

------------------------------------------------------------------------------
(* Properties                                                              *)

\* An invite link lets in at most one redeem, however its redeems, its revocation and its
\* team's deletion interleave.
InviteGrantsOnce ==
    \A i \in Invites : granted[i] <= 1

\* A team never loses its last owner to a removal, a demotion or a departure whose
\* transaction knew that it was taking an owner.
LastOwnerGuarded ==
    [][\A t \in Teams : Owners(t) # {} /\ Owners(t)' = {} =>
            \/ team'[t] = "deleted"
            \/ \E r \in Reqs : At(r, {"setRole", "remove", "leave"}, "write")
                               /\ req[r].team = t /\ req[r].seen = "member" /\ req'[r] = NoReq]_vars

\* A create of the same configuration, by the same machine and with the same claim, goes past
\* its lookup only when the loop that the last such create answered with is gone, was forgotten
\* in a restart or has left the window.
RetryReplays ==
    [][\A r \in Reqs : At(r, {"create"}, "idem") /\ req'[r].pc = "claim" =>
            LET l == answered[req[r].machine][req[r].claim] IN l = None \/ loop[l].st = "deleted"]_vars
==============================================================================
