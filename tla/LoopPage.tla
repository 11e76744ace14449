------------------------------- MODULE LoopPage -------------------------------
(***************************************************************************)
(* The page of one loop in the dashboard (packages/server/src/components:  *)
(* LoopDetailView, useDeferredDelete of actionUi) and the server functions *)
(* behind it (server/loopApi.ts).                                          *)
(*                                                                         *)
(* The page stays mounted from one loop to the next.  Its requests are not *)
(* cancelled: an answer about the loop before arrives at the loop after,   *)
(* and what follows an await uses the loop of its own closure.  A delete   *)
(* is held for an undo window and committed by the window's end or by      *)
(* whatever takes the page down.                                           *)
(***************************************************************************)
EXTENDS Naturals

CONSTANTS
  Loops,   \* loops that have a page
  Nobody,  \* no loop
  Calls    \* bound: 1..n, the requests in flight

VARIABLES
  page,      \* the loop whose page is shown, or Nobody
  detail,    \* the loop whose detail is on display, or Nobody
  editing,   \* the settings form is open
  form,      \* the loop the form was filled from
  del,       \* the loop doomed by the delete in its undo window (pendingKey), or Nobody
  armed,     \* the page shows the tombstone
  rows,      \* loops that exist
  call,      \* call[i]: a request, and whether it was answered
  meant,     \* history: deletes armed and not undone
  sent,      \* history: deletes committed
  abandoned, \* history: deletes lost with their tab
  late       \* history: the detail on display, and the form, came from an answer about another loop

vars == <<page, detail, editing, form, del, armed, rows, call, meant, sent, abandoned, late>>
history == <<meant, sent, abandoned>>

NoCall == [what |-> "none", loop |-> Nobody, at |-> "free", live |-> FALSE]
Call == [what: {"load", "act", "save", "delete"}, loop: Loops, at: {"sent", "ok", "error"}, live: BOOLEAN]

TypeOK ==
  /\ {page, detail, form, del} \subseteq Loops \cup {Nobody}
  /\ {editing, armed} \subseteq BOOLEAN
  /\ rows \subseteq Loops /\ meant \subseteq Loops /\ sent \subseteq Loops /\ abandoned \subseteq Loops
  /\ call \in [Calls -> Call \cup {NoCall}]
  /\ late \in [detail: BOOLEAN, form: BOOLEAN]

Init ==
  /\ page = Nobody /\ detail = Nobody
  /\ editing = FALSE /\ form = Nobody
  /\ del = Nobody /\ armed = FALSE
  /\ rows = Loops
  /\ call = [i \in Calls |-> NoCall]
  /\ meant = {} /\ sent = {} /\ abandoned = {}
  /\ late = [detail |-> FALSE, form |-> FALSE]

Shown == page # Nobody
Unused(calls) == {i \in Calls : calls[i] = NoCall}
Put(calls, what, loop) ==
  LET i == CHOOSE i \in Unused(calls) : \A j \in Unused(calls) : i <= j
  IN [calls EXCEPT ![i] = [what |-> what, loop |-> loop, at |-> "sent", live |-> TRUE]]
Send(what, loop) == Unused(call) # {} /\ call' = Put(call, what, loop)

(***************************************************************************)
(* useDeferredDelete: flush commits the delete of the loop it was armed    *)
(* for (pendingKey), whichever is shown by now.                            *)
(***************************************************************************)
Doomed == IF del = Nobody THEN {} ELSE {del}

(* The page moves to a loop or away; what was armed is committed, in a call of *)
(* its own, and the loop it moves to is loaded.                                *)
Flushed(calls) ==
  IF del = Nobody THEN calls ELSE Put(calls, "delete", del)
Deaf(calls) ==
  [i \in Calls |-> IF calls[i].what = "delete" \/ calls[i] = NoCall THEN calls[i] ELSE [calls[i] EXCEPT !.live = FALSE]]

Move(loop) ==
  /\ page' = loop
  /\ call' = IF loop = Nobody THEN Deaf(Flushed(call)) ELSE Put(Flushed(call), "load", loop)
  /\ sent' = sent \cup Doomed
  /\ del' = Nobody /\ armed' = FALSE
  /\ detail' = Nobody /\ editing' = FALSE /\ form' = Nobody
  /\ late' = [detail |-> FALSE, form |-> FALSE]

(* Room for the load of the next loop and for a delete. *)
Room == \E i, j \in Unused(call) : i # j

Visit(loop) ==
  /\ loop # page /\ Room
  /\ Move(loop)
  /\ UNCHANGED <<rows, meant, abandoned>>

(* The tab is closed: no effect is cleaned up. *)
CloseTab ==
  /\ Shown
  /\ page' = Nobody /\ detail' = Nobody /\ editing' = FALSE /\ form' = Nobody
  /\ del' = Nobody /\ armed' = FALSE
  /\ call' = [i \in Calls |-> IF call[i] = NoCall THEN NoCall ELSE [call[i] EXCEPT !.live = FALSE]]
  /\ abandoned' = abandoned \cup Doomed
  /\ late' = [detail |-> FALSE, form |-> FALSE]
  /\ UNCHANGED <<rows, meant, sent>>

(***************************************************************************)
(* The poll, the form, and the buttons that patch the loop or run it.      *)
(***************************************************************************)
Poll ==
  /\ Shown /\ ~editing /\ ~armed
  /\ Send("load", page)
  /\ UNCHANGED <<page, detail, editing, form, del, armed, rows, history, late>>

OpenForm ==
  /\ detail # Nobody /\ ~editing
  /\ editing' = TRUE /\ form' = detail
  /\ late' = [late EXCEPT !.form = late.detail]
  /\ UNCHANGED <<page, detail, del, armed, rows, call, history>>

CloseForm ==
  /\ editing
  /\ editing' = FALSE /\ form' = Nobody
  /\ late' = [late EXCEPT !.form = FALSE]
  /\ UNCHANGED <<page, detail, del, armed, rows, call, history>>

Save ==
  /\ editing
  /\ Send("save", page)
  /\ UNCHANGED <<page, detail, editing, form, del, armed, rows, history, late>>

Act ==
  /\ detail # Nobody /\ ~editing
  /\ Send("act", page)
  /\ UNCHANGED <<page, detail, editing, form, del, armed, rows, history, late>>

Arm ==
  /\ detail # Nobody /\ ~editing /\ ~armed /\ page \notin meant
  /\ del' = page /\ armed' = TRUE
  /\ meant' = meant \cup {page}
  /\ UNCHANGED <<page, detail, editing, form, rows, call, sent, abandoned, late>>

(* An undo that hides the tombstone and leaves the timer. *)
UndoShown ==
  /\ armed
  /\ armed' = FALSE
  /\ meant' = meant \ {del}
  /\ UNCHANGED <<page, detail, editing, form, del, rows, call, sent, abandoned, late>>

Undo ==
  /\ armed
  /\ del' = Nobody /\ armed' = FALSE
  /\ meant' = meant \ {del}
  /\ UNCHANGED <<page, detail, editing, form, rows, call, sent, abandoned, late>>

(* The window is over: the delete is committed and the dashboard shown. *)
Expire ==
  /\ del # Nobody /\ Room
  /\ Move(Nobody)
  /\ UNCHANGED <<rows, meant, abandoned>>

(***************************************************************************)
(* The server: a loop that is gone is "not found" to all of them.          *)
(***************************************************************************)
Serve(i) ==
  /\ call[i].at = "sent"
  /\ call' = [call EXCEPT ![i].at = IF call[i].loop \in rows THEN "ok" ELSE "error"]
  /\ rows' = IF call[i].what = "delete" THEN rows \ {call[i].loop} ELSE rows
  /\ UNCHANGED <<page, detail, editing, form, del, armed, history, late>>

(***************************************************************************)
(* Answers.                                                                *)
(***************************************************************************)
Free(i) == call' = [call EXCEPT ![i] = NoCall]

(* setDetail, of the loop that was asked about; an error is shown or ignored. *)
Loaded(i) ==
  /\ call[i].what = "load" /\ call[i].live
  /\ IF call[i].at = "ok"
       THEN detail' = call[i].loop /\ late' = [late EXCEPT !.detail = call[i].loop # page]
       ELSE UNCHANGED <<detail, late>>
  /\ Free(i)
  /\ UNCHANGED <<page, editing, form, del, armed, rows, history>>

(* After a patch its own loop is loaded again; a save closes the form first. *)
Acted(i) ==
  /\ call[i].what \in {"act", "save"} /\ call[i].live
  /\ IF call[i].what = "save" /\ call[i].at = "ok"
       THEN editing' = FALSE /\ form' = Nobody /\ late' = [late EXCEPT !.form = FALSE]
       ELSE UNCHANGED <<editing, form, late>>
  /\ IF call[i].at = "ok" THEN call' = [call EXCEPT ![i].what = "load", ![i].at = "sent"] ELSE Free(i)
  /\ UNCHANGED <<page, detail, del, armed, rows, history>>

(* deleteJob's answer shows the dashboard, wherever its user is by now. *)
Deleted(i) ==
  /\ call[i].what = "delete" /\ call[i].live /\ Room
  /\ page' = Nobody
  /\ call' = [Deaf(Flushed(call)) EXCEPT ![i] = NoCall]
  /\ sent' = sent \cup Doomed
  /\ del' = Nobody /\ armed' = FALSE
  /\ detail' = Nobody /\ editing' = FALSE /\ form' = Nobody
  /\ late' = [detail |-> FALSE, form |-> FALSE]
  /\ UNCHANGED <<rows, meant, abandoned>>

Receive(i) ==
  /\ call[i].at \in {"ok", "error"}
  /\ Loaded(i) \/ Acted(i) \/ Deleted(i)

(* Lost, or nobody's any more. *)
Drop(i) ==
  /\ call[i] # NoCall
  /\ Free(i)
  /\ UNCHANGED <<page, detail, editing, form, del, armed, rows, history, late>>

Next ==
  \/ \E l \in Loops \cup {Nobody} : Visit(l)
  \/ CloseTab \/ Poll \/ OpenForm \/ CloseForm \/ Save \/ Act \/ Arm \/ Undo \/ Expire
  \/ \E i \in Calls : Serve(i) \/ Receive(i) \/ Drop(i)

Spec == Init /\ [][Next]_vars

(***************************************************************************)
(* A form on a loop's page was filled from that loop, and a save writes to *)
(* no loop what was read from another, unless the form was opened while a  *)
(* late answer had the loop before on display (LoopDetailView.tsx, load).  *)
(***************************************************************************)
FormIsOfItsPage == editing => form = page \/ late.form

(***************************************************************************)
(* The deletes that were committed are those that were armed and not       *)
(* undone, each for the loop it was armed for, except the one still in its *)
(* window and those that closed with their tab (actionUi.tsx).             *)
(***************************************************************************)
DeletesAreMeant ==
  /\ sent \cup Doomed \cup abandoned = meant
  /\ rows \cup sent = Loops
=============================================================================
