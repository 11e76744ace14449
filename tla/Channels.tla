------------------------------- MODULE Channels -------------------------------
(***************************************************************************)
(* The push channels of a team, the form that adds one, the list that      *)
(* deletes one, and the loop that is routed to one (packages/server/src).  *)
(*                                                                         *)
(*   components/ChannelAddForm.tsx, NotificationsModal.tsx   the dialog    *)
(*   server/notifyFns.ts, db/store.ts                        the rows      *)
(*   gateway/notify.ts, webhookGuard.ts                      the sending   *)
(*                                                                         *)
(* A request is a slot that goes on from one await to the next.  The gate  *)
(* of accounts is on.  What a Slack token can see is named by the token: a *)
(* channel picked from a list is the token the list was loaded with.       *)
(***************************************************************************)
EXTENDS Naturals, Sequences, FiniteSets, SequencesExt

CONSTANTS
  Chans,         \* channels, each created once at most
  Tokens,        \* bot tokens that may be pasted
  Reqs,          \* requests in flight
  Typed, Nothing,
  MaxRedirects,  \* WEBHOOK_MAX_REDIRECTS
  MaxRequests    \* bound: requests in all

VARIABLES
  stored,   \* the team's channels, newest first
  born,     \* channels that were ever created
  loop,     \* the loop: whether it exists, and its channelId
  req,      \* req[q]: a request
  form,     \* ChannelAddForm; its `busy` is not the form's, it outlives it
  busy,
  shown,    \* NotificationsModal: the channels it lists,
  test,     \*   the result of a test per channel,
  timers,   \*   and the timers that clear it
  asked,    \* bound: requests so far
  raced,    \* history: channels a route to which was written while they were deleted
  saved     \* history: Slack channels that were saved: the token, the pick, whether the form was mixed

rows == <<stored, born, loop>>
dialog == <<form, busy, shown, test, timers>>
vars == <<rows, req, dialog, asked, raced, saved>>

Kinds == {"create", "delete", "patch", "new", "say", "test", "load", "list"}
NoReq == [kind |-> "none", pc |-> "free", ch |-> Nothing, token |-> Nothing, pick |-> Nothing,
          ok |-> TRUE, hops |-> 0, got |-> <<>>, mixed |-> FALSE, saves |-> FALSE]
NoForm == [adding |-> "none", token |-> Nothing, pick |-> Nothing, list |-> Nothing,
           manual |-> TRUE, loading |-> FALSE, mixed |-> FALSE]

TypeOK ==
  /\ ToSet(stored) \subseteq born /\ born \subseteq Chans
  /\ loop.is \in {"unborn", "stored"} /\ loop.route \in Chans \cup {Nothing}
  /\ \A q \in Reqs : req[q].kind \in Kinds \cup {"none"} /\ req[q].hops \in 0..(MaxRedirects + 1)
  /\ form.adding \in {"none", "slack", "other"} /\ form.token \in Tokens \cup {Nothing}
  /\ form.pick \in Tokens \cup {Nothing, Typed} /\ form.list \in Tokens \cup {Nothing}
  /\ {busy, form.manual, form.loading, form.mixed} \subseteq BOOLEAN
  /\ test \in [Chans -> {"", "sending", "ok", "failed"}]
  /\ timers \in [Chans -> Nat] /\ asked \in 0..MaxRequests /\ raced \subseteq Chans

Init ==
  /\ stored = <<>> /\ born = {} /\ loop = [is |-> "unborn", route |-> Nothing]
  /\ req = [q \in Reqs |-> NoReq]
  /\ form = NoForm /\ busy = FALSE
  /\ shown = {} /\ test = [c \in Chans |-> ""] /\ timers = [c \in Chans |-> 0]
  /\ asked = 0 /\ raced = {} /\ saved = {}

At(q, pc) == req[q].pc = pc
Is(q, kind, pc) == req[q].kind = kind /\ req[q].pc = pc
GoTo(q, pc) == req' = [req EXCEPT ![q].pc = pc]
Free(q) == req' = [req EXCEPT ![q] = NoReq]

(* A request leaves, and its first await is behind it. *)
Ask(q, r) ==
  /\ At(q, "free") /\ asked < MaxRequests
  /\ req' = [req EXCEPT ![q] = r] /\ asked' = asked + 1
Request(kind, pc, c) == [NoReq EXCEPT !.kind = kind, !.pc = pc, !.ch = c]

(* An answer, or none: the connection may be lost once the work is done. *)
Answer(q, ok) == [req EXCEPT ![q].pc = "answered", ![q].ok = ok]

(***************************************************************************)
(* The form.                                                               *)
(***************************************************************************)
(* startAdd *)
Blank(f) == NoForm

StartAdd(type) ==
  /\ form.adding = "none"
  /\ form' = [Blank(form) EXCEPT !.adding = type]
  /\ UNCHANGED <<rows, req, busy, shown, test, timers, asked, raced, saved>>

(* Neither the list nor the pick of another token is taken back. *)
EditToken(t) ==
  /\ form.adding = "slack" /\ t # form.token
  /\ form' = [form EXCEPT !.token = t,
                          !.mixed = @ \/ (form.token # Nothing /\ (form.list # Nothing \/ form.pick \in Tokens))]
  /\ UNCHANGED <<rows, req, busy, shown, test, timers, asked, raced, saved>>

(* The channel is picked from the list, or typed; the two ways are switched by buttons. *)
Choose ==
  /\ form.adding = "slack" /\ form.token # Nothing
  /\ \/ form.list # Nothing /\ ~form.manual /\ form' = [form EXCEPT !.pick = form.list]
     \/ (form.manual \/ form.list = Nothing) /\ form' = [form EXCEPT !.pick = Typed]
     \/ form.list # Nothing /\ form' = [form EXCEPT !.manual = ~@]
  /\ UNCHANGED <<rows, req, busy, shown, test, timers, asked, raced, saved>>

CancelForm ==
  /\ form.adding # "none"
  /\ form' = [form EXCEPT !.adding = "none"]
  /\ UNCHANGED <<rows, req, busy, shown, test, timers, asked, raced, saved>>

(* loadSlackChannels *)
AskList(q) ==
  /\ form.adding = "slack" /\ form.token # Nothing /\ ~form.loading
  /\ form.manual \/ form.list = Nothing
  /\ Ask(q, [Request("list", "page", Nothing) EXCEPT !.token = form.token])
  /\ form' = [form EXCEPT !.loading = TRUE]
  /\ UNCHANGED <<rows, busy, shown, test, timers, raced, saved>>

(* fetchSlackChannels: page after page, all of them or an error. *)
Page(q) ==
  /\ Is(q, "list", "page")
  /\ \E ok \in BOOLEAN : req' = Answer(q, ok)
  /\ UNCHANGED <<rows, dialog, asked, raced, saved>>

(* The answer finds whichever form is on display; one that is lost leaves the list. *)
ListAnswer(q) ==
  /\ Is(q, "list", "answered")
  /\ \/ form' = IF req[q].ok
             THEN [form EXCEPT !.loading = FALSE, !.list = req[q].token, !.manual = FALSE,
                               !.mixed = @ \/ req[q].token # form.token]
             ELSE [form EXCEPT !.loading = FALSE, !.list = Nothing]
     \/ form' = [form EXCEPT !.loading = FALSE]
  /\ Free(q)
  /\ UNCHANGED <<rows, busy, shown, test, timers, asked, raced, saved>>

(* `filled`, and `disabled` of the button. *)
Filled == form.adding = "other" \/ (form.token # Nothing /\ form.pick # Nothing)

(* add *)
Save(q) ==
  /\ form.adding # "none" /\ Filled /\ ~busy
  /\ Ask(q, [Request("create", "check", Nothing)
               EXCEPT !.token = form.token, !.pick = form.pick, !.mixed = form.mixed])
  /\ busy' = TRUE
  /\ UNCHANGED <<rows, form, shown, test, timers, raced, saved>>

(* What was saved closes the form, the one it was saved from or the next; onCreated loads *)
(* the list, and only then the next form may save.                                       *)
SaveAnswer(q) ==
  /\ Is(q, "create", "answered")
  /\ IF req[q].ok
     THEN /\ form' = [form EXCEPT !.adding = "none"]
          /\ req' = [req EXCEPT ![q] = [Request("load", "read", Nothing) EXCEPT !.saves = TRUE]]
          /\ UNCHANGED busy
     ELSE UNCHANGED form /\ busy' = FALSE /\ Free(q)
  /\ UNCHANGED <<rows, shown, test, timers, asked, raced, saved>>

(***************************************************************************)
(* The list.                                                               *)
(***************************************************************************)
(* The dialog opens. *)
Open(q) ==
  /\ Ask(q, Request("load", "read", Nothing))
  /\ UNCHANGED <<rows, dialog, raced, saved>>

ReadList(q) ==
  /\ Is(q, "load", "read")
  /\ req' = [req EXCEPT ![q].pc = "answered", ![q].got = stored]
  /\ UNCHANGED <<rows, dialog, asked, raced, saved>>

(* An error is ignored; an older answer takes the place of a newer. *)
LoadAnswer(q) ==
  /\ Is(q, "load", "answered")
  /\ \/ shown' = ToSet(req[q].got)
     \/ UNCHANGED shown
  /\ busy' = (busy /\ ~req[q].saves)
  /\ Free(q)
  /\ UNCHANGED <<rows, form, test, timers, asked, raced, saved>>

RemoveChannel(q, c) ==
  /\ c \in shown
  /\ Ask(q, Request("delete", "check", c))
  /\ UNCHANGED <<rows, dialog, raced, saved>>

RemoveAnswer(q) ==
  /\ Is(q, "delete", "answered")
  /\ IF req[q].ok THEN req' = [req EXCEPT ![q] = Request("load", "read", Nothing)] ELSE Free(q)
  /\ UNCHANGED <<rows, dialog, asked, raced, saved>>

RunTest(q, c) ==
  /\ c \in shown /\ test[c] # "sending"
  /\ Ask(q, Request("test", "lookup", c))
  /\ test' = [test EXCEPT ![c] = "sending"]
  /\ UNCHANGED <<rows, form, busy, shown, timers, raced, saved>>

(* An answer that is lost leaves the row as it is, `sending`. *)
TestAnswer(q) ==
  LET c == req[q].ch
  IN /\ Is(q, "test", "answered")
     /\ \/ /\ test' = [test EXCEPT ![c] = IF req[q].ok THEN "ok" ELSE "failed"]
           /\ timers' = [timers EXCEPT ![c] = @ + 1]
        \/ UNCHANGED <<test, timers>>
     /\ Free(q)
     /\ UNCHANGED <<rows, form, busy, shown, asked, raced, saved>>

(* Four seconds later, whatever the row shows by now. *)
ClearTest(c) ==
  /\ timers[c] > 0
  /\ timers' = [timers EXCEPT ![c] = @ - 1]
  /\ test' = [test EXCEPT ![c] = ""]
  /\ UNCHANGED <<rows, req, form, busy, shown, asked, raced, saved>>

(***************************************************************************)
(* The rows.                                                               *)
(***************************************************************************)
(* createChannel: a config may be refused. *)
Create(q, c) ==
  /\ Is(q, "create", "check")
  /\ \/ /\ c \notin born
        /\ stored' = <<c>> \o stored /\ born' = born \cup {c}
        /\ saved' = IF req[q].token = Nothing THEN saved
                    ELSE saved \cup {[token |-> req[q].token, pick |-> req[q].pick, mixed |-> req[q].mixed]}
        /\ \E ok \in BOOLEAN : req' = Answer(q, ok)
     \/ /\ req' = Answer(q, FALSE) /\ UNCHANGED <<stored, born, saved>>
  /\ UNCHANGED <<loop, dialog, asked, raced>>

(* ownedChannel *)
Known(c) == c \in ToSet(stored)

DeleteCheck(q) ==
  /\ Is(q, "delete", "check")
  /\ req' = IF Known(req[q].ch) THEN [req EXCEPT ![q].pc = "detach"] ELSE Answer(q, FALSE)
  /\ UNCHANGED <<rows, dialog, asked, raced, saved>>

(* Mutant: loops are left as they are. *)
DetachedNone(c) == FALSE

(* The loops that the transaction's UPDATE finds, and keeps locked till it commits. *)
Detached(c) == loop.is = "stored" /\ loop.route = c

DeleteDetach(q) ==
  /\ Is(q, "delete", "detach")
  /\ \A p \in Reqs : ~(Is(p, "delete", "commit") /\ req[p].ok)
  /\ req' = [req EXCEPT ![q].pc = "commit", ![q].ok = Detached(req[q].ch)]
  /\ UNCHANGED <<rows, dialog, asked, raced, saved>>

(* The rows but the channel's, of which there is one at most. *)
Without(c) ==
  IF Known(c) THEN RemoveAt(stored, CHOOSE i \in DOMAIN stored : stored[i] = c) ELSE stored

Writes(q, c) == req[q].kind \in {"patch", "new"} /\ req[q].pc = "write" /\ req[q].ch = c

DeleteCommit(q) ==
  LET c == req[q].ch
  IN /\ Is(q, "delete", "commit")
     /\ stored' = Without(c)
     /\ loop' = IF req[q].ok THEN [loop EXCEPT !.route = Nothing] ELSE loop
     /\ raced' = IF \E p \in Reqs : Writes(p, c) THEN raced \cup {c} ELSE raced
     /\ \E ok \in {FALSE, Known(c)} : req' = Answer(q, ok)
     /\ UNCHANGED <<born, dialog, asked, saved>>

(* patchJob with a channelId, from a page that may have listed the channels long ago. *)
Patch(q, c) ==
  /\ loop.is = "stored" /\ c \in born \cup {Nothing}
  /\ Ask(q, Request("patch", IF c = Nothing THEN "write" ELSE "check", c))
  /\ UNCHANGED <<rows, dialog, raced, saved>>

PatchCheck(q) ==
  /\ Is(q, "patch", "check")
  /\ IF Known(req[q].ch) THEN GoTo(q, "write") ELSE Free(q)
  /\ UNCHANGED <<rows, dialog, asked, raced, saved>>

(* createLoop of the gateway: the newest channel of the team. *)
NewLoop(q) ==
  /\ loop.is = "unborn" /\ \A p \in Reqs : req[p].kind # "new"
  /\ Ask(q, Request("new", "write", IF stored = <<>> THEN Nothing ELSE Head(stored)))
  /\ UNCHANGED <<rows, dialog, raced, saved>>

(* The row is locked by a deletion that found it. *)
Locked == \E p \in Reqs : Is(p, "delete", "commit") /\ req[p].ok

Route(q) ==
  LET c == req[q].ch
  IN /\ req[q].kind \in {"patch", "new"} /\ At(q, "write")
     /\ req[q].kind = "patch" => ~Locked
     /\ loop' = [is |-> "stored", route |-> c]
     /\ raced' = IF \E p \in Reqs : Is(p, "delete", "commit") /\ req[p].ch = c THEN raced \cup {c} ELSE raced
     /\ Free(q)
     /\ UNCHANGED <<stored, born, dialog, asked, saved>>

(***************************************************************************)
(* The sending.                                                            *)
(***************************************************************************)
(* A run of the loop has something to say; its handler read the row some awaits ago. *)
Say(q) ==
  /\ loop.is = "stored" /\ loop.route # Nothing
  /\ Ask(q, Request("say", "lookup", loop.route))
  /\ UNCHANGED <<rows, dialog, raced, saved>>

(* dispatchNotification, testChannel: a channel that is gone is nothing to the one, an error to the other. *)
Lookup(q) ==
  /\ req[q].kind \in {"say", "test"} /\ At(q, "lookup")
  /\ IF Known(req[q].ch) THEN GoTo(q, "post")
     ELSE IF req[q].kind = "say" THEN Free(q) ELSE req' = Answer(q, FALSE)
  /\ UNCHANGED <<rows, dialog, asked, raced, saved>>

(* safeWebhookFetch: each hop is checked and posted anew, up to so many. *)
Follows(q) == req[q].hops < MaxRedirects

Redirected(q) ==
  /\ At(q, "post") /\ Follows(q)
  /\ req' = [req EXCEPT ![q].hops = @ + 1]
  /\ UNCHANGED <<rows, dialog, asked, raced, saved>>

(* The service answers, refuses, is not reached, or redirects once more than is followed. *)
Posted(q) ==
  /\ At(q, "post")
  /\ IF req[q].kind = "say" THEN Free(q) ELSE \E ok \in BOOLEAN : req' = Answer(q, ok)
  /\ UNCHANGED <<rows, dialog, asked, raced, saved>>

Next ==
  \/ \E type \in {"slack", "other"} : StartAdd(type)
  \/ \E t \in Tokens \cup {Nothing} : EditToken(t)
  \/ Choose \/ CancelForm
  \/ \E q \in Reqs :
       \/ AskList(q) \/ Page(q) \/ ListAnswer(q) \/ Save(q) \/ SaveAnswer(q)
       \/ Open(q) \/ ReadList(q) \/ LoadAnswer(q) \/ RemoveAnswer(q) \/ TestAnswer(q)
       \/ DeleteCheck(q) \/ DeleteDetach(q) \/ DeleteCommit(q)
       \/ PatchCheck(q) \/ NewLoop(q) \/ Route(q)
       \/ Say(q) \/ Lookup(q) \/ Redirected(q) \/ Posted(q)
       \/ \E c \in Chans : RemoveChannel(q, c) \/ RunTest(q, c) \/ Create(q, c)
       \/ \E c \in Chans \cup {Nothing} : Patch(q, c)
  \/ \E c \in Chans : ClearTest(c)

Spec == Init /\ [][Next]_vars

------------------------------------------------------------------------------
(* Properties                                                              *)

(* SAFETY: the channel a loop is routed to exists (store.ts:841, "no dangling ref"), *)
(* unless the route was written while that channel was being deleted, from a look at *)
(* the channels before it.                                                           *)
RouteLeadsSomewhere ==
  loop.route # Nothing => Known(loop.route) \/ loop.route \in raced

(* SAFETY: a Slack channel that was picked from a list is one that the saved token *)
(* sees, unless the token was edited after the list came or a list came late: from *)
(* one form to the next nothing of the first is kept.                              *)
PickIsOfItsToken ==
  \A s \in saved : s.pick \in {Typed, s.token} \/ s.mixed
===============================================================================
