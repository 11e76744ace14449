------------------------------ MODULE TeamsDialog ------------------------------
(***************************************************************************)
(* The dialog in which a user manages teams: components/TeamsModal.tsx,    *)
(* and what server/teamFns.ts and teamAdmin.ts answer it.                  *)
(*                                                                         *)
(* On the left the user's teams, on the right the detail of the one        *)
(* selected.  An operation is a chain of requests: the change, then what   *)
(* it shows anew.  Most buttons are dead while a chain runs, but not the   *)
(* list, nor the forms sent with Enter, nor the roles; and the dialog      *)
(* stays mounted when it is closed, so that answers land on it unseen.     *)
(*                                                                         *)
(* The rules of a change (the last owner, loops in the way) are those of   *)
(* Accounts: here it is made or refused.  A read is one step.  Left out    *)
(* are the error banner, the new link's highlight and what is typed but    *)
(* the new name.                                                           *)
(***************************************************************************)
EXTENDS Naturals, Sequences

CONSTANTS
  Teams, Personal,
  Active,      \* the team of the dashboard under the dialog
  Unborn,      \* teams that can be created
  None,
  Ops,         \* the operations the user may try
  Requests,    \* bound: requests in flight
  MaxChanges   \* bound: changes of teams

DialogConstantsOK ==
  /\ Requests \subseteq Nat /\ Unborn \subseteq Teams
  /\ Ops \subseteq {"create", "rename", "delete", "leave", "add", "remove", "setRole", "invite", "revoke"}

VARIABLES
  row,       \* row[t]: the user's role in a team, and the changes that wrote its facts last
  changes,   \* the number of changes
  open, list, selected, detail, busy,
  typed,     \* is there a new name in the rename field?
  call,      \* call[i]: a request, the rest of its chain, its answer
  strayed    \* history: the dialog missed a change by others, or an answer that failed, came
             \* for another team or a closed dialog, or was no longer true

dialog == <<open, list, selected, detail, busy, typed>>
vars == <<row, changes, dialog, call, strayed>>

(* Mutant: a changed roster is shown on the right only. *)
DetailOnly(op) ==
  CASE op = "create" -> <<"list", "select">>
    [] op = "rename" -> <<"list", "detail">>
    [] op \in {"delete", "leave"} -> <<"list", "exit">>
    [] OTHER -> <<"detail">>

(* What an operation asks for after the change. *)
ThenOf(op) ==
  CASE op = "create" -> <<"list", "select">>
    [] op = "rename" -> <<"list", "detail">>
    [] op \in {"delete", "leave"} -> <<"list", "exit">>
    [] op \in {"add", "remove"} -> <<"detail", "list">>
    [] op \in {"setRole", "invite", "revoke"} -> <<"detail">>

NoRequest == [at |-> "free", ask |-> "list", of |-> None, rest |-> <<>>, chain |-> FALSE, got |-> {}]
Asking(ask, t, rest, chain) == [at |-> "sent", ask |-> ask, of |-> t, rest |-> rest, chain |-> chain, got |-> {}]

TypeOK ==
  /\ \A t \in Teams : row[t].role \in {"unborn", "none", "member", "owner", "gone"}
  /\ changes \in 0..MaxChanges
  /\ {open, busy, typed, strayed} \subseteq BOOLEAN
  /\ selected \in Teams \cup {None}
  /\ \A d \in list \cup detail : d.of \in Teams
  /\ \A i \in Requests :
       call[i].at \in {"free", "sent", "back", "failed"} /\ call[i].ask \in Ops \cup {"list", "detail"}

Init ==
  /\ row = [t \in Teams |-> [role |-> IF t \in Unborn THEN "unborn" ELSE "owner",
                             name |-> 0, size |-> 0, roles |-> 0, links |-> 0]]
  /\ changes = 0
  /\ open = FALSE /\ list = {} /\ selected = None /\ detail = {} /\ busy = FALSE
  /\ typed = FALSE
  /\ call = [i \in Requests |-> NoRequest] /\ strayed = FALSE

(***************************************************************************)
(* The server.                                                             *)
(***************************************************************************)
Mine == {t \in Teams : row[t].role \in {"member", "owner"}}

(* listManagedTeams *)
Summary(t) == [of |-> t, role |-> row[t].role, name |-> row[t].name, size |-> row[t].size]
Listed == {Summary(t) : t \in Mine}

(* getTeamDetail: none for a stranger, and the links for an owner. *)
Detail(t) ==
  IF t \notin Mine THEN {}
  ELSE {[of |-> t, role |-> row[t].role, name |-> row[t].name, size |-> row[t].size, roles |-> row[t].roles,
         links |-> IF row[t].role = "owner" THEN row[t].links ELSE 0]}

Fact(op) ==
  CASE op = "rename" -> "name" [] op \in {"add", "remove", "leave"} -> "size"
    [] op = "setRole" -> "roles" [] op \in {"invite", "revoke"} -> "links"

May(op, t) ==
  CASE op = "create" -> row[t].role = "unborn"
    [] op = "leave" -> t \in Mine \ {Personal}
    [] op = "delete" -> row[t].role = "owner" /\ t # Personal
    [] OTHER -> row[t].role = "owner"

After(op, t, n) ==
  CASE op = "create" -> [row EXCEPT ![t] = [role |-> "owner", name |-> n, size |-> n, roles |-> n, links |-> n]]
    [] op = "delete" -> [row EXCEPT ![t].role = "gone"]
    [] op = "leave" -> [row EXCEPT ![t].role = "none", ![t].size = n]
    [] OTHER -> [row EXCEPT ![t][Fact(op)] = n]

Serve(i) ==
  /\ call[i].at = "sent"
  /\ \/ /\ call[i].ask = "list"
        /\ call' = [call EXCEPT ![i].at = "back", ![i].got = Listed]
        /\ UNCHANGED <<row, changes>>
     \/ /\ call[i].ask = "detail"
        /\ call' = [call EXCEPT ![i].at = "back", ![i].got = Detail(call[i].of)]
        /\ UNCHANGED <<row, changes>>
     \/ /\ call[i].ask \in Ops /\ changes < MaxChanges /\ May(call[i].ask, call[i].of)
        /\ row' = After(call[i].ask, call[i].of, changes + 1) /\ changes' = changes + 1
        /\ call' = [call EXCEPT ![i].at = "back"]
     \/ call[i].ask \in Ops /\ call' = [call EXCEPT ![i].at = "failed"] /\ UNCHANGED <<row, changes>>
  /\ UNCHANGED <<dialog, strayed>>

(* The user's teams change by others: a role, a removal, a name, a deletion. *)
Others(t) ==
  /\ changes < MaxChanges /\ t \in Mine \ {Personal}
  /\ \/ row' = [row EXCEPT ![t].role = IF @ = "owner" THEN "member" ELSE "owner", ![t].roles = changes + 1]
     \/ row' = After("leave", t, changes + 1)
     \/ row' = After("rename", t, changes + 1)
     \/ row' = After("delete", t, changes + 1)
  /\ changes' = changes + 1 /\ strayed' = TRUE
  /\ UNCHANGED <<dialog, call>>

(***************************************************************************)
(* The user.                                                               *)
(***************************************************************************)
Free == {i \in Requests : call[i].at = "free"}
Lowest == CHOOSE i \in Free : \A j \in Free : i <= j
Send(c) == Free # {} /\ call' = [call EXCEPT ![Lowest] = c]

(* The effects of opening: the list, and the detail of a team that a late answer selected. *)
OpenDialog ==
  /\ ~open /\ open' = TRUE /\ Free # {}
  /\ IF selected = None THEN Send(Asking("list", None, <<>>, FALSE))
     ELSE /\ Free \ {Lowest} # {}
          /\ call' = [call EXCEPT ![Lowest] = Asking("list", None, <<>>, FALSE),
                                  ![CHOOSE i \in Free \ {Lowest} : \A j \in Free \ {Lowest} : i <= j]
                                    = Asking("detail", selected, <<>>, FALSE)]
  /\ strayed' = (Free # Requests \/ detail # {})
  /\ UNCHANGED <<row, changes, list, selected, detail, busy, typed>>

(* Another page has a dialog of its own. *)
LeavePage ==
  /\ open' = FALSE /\ list' = {} /\ selected' = None /\ detail' = {} /\ busy' = FALSE
  /\ typed' = FALSE /\ call' = [i \in Requests |-> NoRequest] /\ strayed' = FALSE

Close ==
  /\ open
  /\ open' = FALSE /\ selected' = None /\ detail' = {}
  /\ UNCHANGED <<row, changes, list, busy, typed, call, strayed>>

Select(t) ==
  /\ open /\ t # selected /\ \E s \in list : s.of = t
  /\ selected' = t /\ Send(Asking("detail", t, <<>>, FALSE))
  /\ UNCHANGED <<row, changes, open, list, detail, busy, typed, strayed>>

(* "Open dashboard": the cookie and the way there are TeamTabs'. *)
OpenDashboard ==
  /\ open /\ \E d \in detail : d.of # Active
  /\ LeavePage /\ UNCHANGED <<row, changes>>

TypeName ==
  /\ open /\ \E d \in detail : d.role = "owner" /\ typed' = TRUE
  /\ UNCHANGED <<row, changes, open, list, selected, detail, busy, call, strayed>>

(* The operations on the team on the right. *)
Operate(op) ==
  /\ open /\ (busy => op \in {"add", "setRole"})
  /\ \E d \in detail :
       /\ op \in {"delete", "leave"} => d.of # Personal
       /\ op # "leave" => d.role = "owner"
       /\ op = "rename" => typed
       /\ Send(Asking(op, d.of, ThenOf(op), TRUE))
  /\ busy' = TRUE
  /\ UNCHANGED <<row, changes, open, list, selected, detail, typed, strayed>>

Create ==
  /\ open /\ "create" \in Ops
  /\ \E t \in Unborn :
       /\ row[t].role = "unborn" /\ \A i \in Requests : call[i].at = "free" \/ call[i].of # t
       /\ Send(Asking("create", t, ThenOf("create"), TRUE))
  /\ busy' = TRUE
  /\ UNCHANGED <<row, changes, open, list, selected, detail, typed, strayed>>

(***************************************************************************)
(* Answers.                                                                *)
(***************************************************************************)
(* The chain goes on, or ends. *)
Resume(i, rest) ==
  IF rest = <<>> \/ Head(rest) \in {"select", "exit"}
  THEN call' = [call EXCEPT ![i] = NoRequest] /\ busy' = (busy /\ ~call[i].chain)
  ELSE call' = [call EXCEPT ![i] = Asking(Head(rest), call[i].of, Tail(rest), TRUE)] /\ UNCHANGED busy

(* A change was made; a deleted or left team is shown no more. *)
Changed(i) ==
  /\ call[i].at = "back" /\ call[i].ask \in Ops
  /\ IF call[i].ask \in {"delete", "leave"} THEN selected' = None /\ detail' = {} ELSE UNCHANGED <<selected, detail>>
  /\ Resume(i, call[i].rest)
  /\ UNCHANGED <<row, changes, open, list, typed, strayed>>

Stale(i, now) == ~open \/ call[i].got # now

(* loadTeams *)
ListLands(i) ==
  /\ call[i].at = "back" /\ call[i].ask = "list" /\ call[i].rest # <<"select">>
  /\ IF call[i].rest = <<"exit">> /\ call[i].of = Active THEN LeavePage
     ELSE /\ list' = call[i].got /\ strayed' = (strayed \/ Stale(i, Listed))
          /\ Resume(i, call[i].rest)
          /\ UNCHANGED <<open, selected, detail, typed>>
  /\ UNCHANGED <<row, changes>>

(* doCreate: the new team is selected, and that asks for its detail. *)
NewTeamListed(i) ==
  /\ call[i].at = "back" /\ call[i].ask = "list" /\ call[i].rest = <<"select">>
  /\ list' = call[i].got /\ strayed' = (strayed \/ Stale(i, Listed))
  /\ selected' = call[i].of /\ busy' = FALSE
  /\ call' = [call EXCEPT ![i] = IF open /\ call[i].of # selected
                                 THEN Asking("detail", call[i].of, <<>>, FALSE) ELSE NoRequest]
  /\ UNCHANGED <<row, changes, open, detail, typed>>

(* loadDetail: the field for the name is seeded with it. *)
DetailLands(i) ==
  /\ call[i].at = "back" /\ call[i].ask = "detail"
  /\ detail' = call[i].got
  /\ typed' = IF call[i].got = {} THEN typed ELSE FALSE
  /\ strayed' = (strayed \/ Stale(i, Detail(call[i].of)) \/ call[i].of # selected)
  /\ Resume(i, call[i].rest)
  /\ UNCHANGED <<row, changes, open, list, selected>>

(* A refused change ends its chain. *)
Refused(i) ==
  /\ call[i].at = "failed" /\ Resume(i, <<>>)
  /\ UNCHANGED <<row, changes, open, list, selected, detail, typed, strayed>>

(* The answer is lost: a list that fails is passed over, all else ends the chain. *)
Lose(i) ==
  /\ call[i].at \in {"sent", "back"}
  /\ Resume(i, IF call[i].ask = "list" /\ call[i].rest \notin {<<"select">>, <<"exit">>} THEN call[i].rest ELSE <<>>)
  /\ strayed' = TRUE
  /\ UNCHANGED <<row, changes, open, list, selected, detail, typed>>

Next ==
  \/ \E i \in Requests : Serve(i) \/ Changed(i) \/ ListLands(i) \/ NewTeamListed(i) \/ DetailLands(i) \/ Refused(i) \/ Lose(i)
  \/ \E t \in Teams : Others(t) \/ Select(t)
  \/ OpenDialog \/ Close \/ OpenDashboard \/ TypeName \/ Create
  \/ \E op \in Ops \ {"create"} : Operate(op)

Spec == Init /\ [][Next]_vars

------------------------------------------------------------------------------
(* Properties                                                              *)

(* SAFETY: when the last answer is in, both sides show every change the user made,  *)
(* however operations overlap (TeamsModal.tsx:110): but for an answer that went     *)
(* astray, and what others did meanwhile.                                           *)
SettledDialogIsCurrent ==
  open /\ ~strayed /\ Free = Requests => list = Listed /\ detail \in {{}, Detail(selected)}

(* CLAIM (TeamsModal.tsx:47): below the list is the selected team's detail. *)
DetailOfSelected == open /\ Free = Requests => \A d \in detail : d.of = selected
===============================================================================
