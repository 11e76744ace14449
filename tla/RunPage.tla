------------------------------- MODULE RunPage -------------------------------
(***************************************************************************)
(* The page of one run (packages/server/src/components/RunView.tsx), next  *)
(* to what the gateway writes of that run (gateway/index.ts).              *)
(*                                                                         *)
(* The page finds its run in the detail of the loop, or pages backwards    *)
(* through older runs, polls while the run is open, and reads changes and  *)
(* trace once.  It stays mounted from one run to the next, and its loads   *)
(* are not canceled.  The gateway writes a verdict, then a snapshot; a run *)
(* that ended itself with `finish`, or was reclaimed, is completed by a    *)
(* later report.  Each loop has one run with a page.                       *)
(***************************************************************************)
EXTENDS Naturals

CONSTANTS
  Loops,     \* loops; the run with a page is named by its loop
  Live,      \* bound: those among them whose run goes on; the others' is pending for good
  Nobody,
  Calls,     \* bound: requests in flight
  MaxPages,  \* MAX_OLDER_PAGES
  MaxDepth   \* bound: how many pages back a run may lie

VARIABLES
  row,       \* row[l]: the run
  page,      \* the run whose page is shown
  detail,    \* the detail on display: its loop, and the run in it if it is among the latest
  older,     \* the run as paging found it
  done,      \* searchDone
  search,    \* the paging at work
  err,       \* the error card is shown
  changes,   \* the diff of the run, as the page has it
  trace,     \* its transcript
  call,      \* call[i]: a request
  crossed,   \* history: a detail of another loop came to this page
  failed,    \* history: a page of this page's search could not be read
  unread     \* history: the diff could not be read, or was read while the snapshot was to come

gateway == row
history == <<crossed, failed, unread>>
view == <<page, detail, older, done, search, err, changes, trace>>
vars == <<row, view, call, history>>

Phases == {"pending", "running", "over"}
NoCopy == [phase |-> "none", trace |-> FALSE]
Copy == {[phase |-> p, trace |-> t] : p \in Phases, t \in BOOLEAN} \cup {NoCopy}
NoDetail == [of |-> Nobody, copy |-> NoCopy, back |-> 0]
NoSearch == [on |-> FALSE, left |-> 0, i |-> 0]
NoCall == [kind |-> "none", of |-> Nobody, at |-> "free", ok |-> TRUE, got |-> NoDetail]

TypeOK ==
  /\ \A l \in Loops : row[l].phase \in Phases /\ row[l].depth \in 0..MaxDepth
  /\ page \in Loops \cup {Nobody} /\ detail.of \in Loops \cup {Nobody}
  /\ detail.copy \in Copy /\ older \in Copy
  /\ {done, err, crossed, failed, unread} \subseteq BOOLEAN
  /\ search.left \in 0..(MaxDepth + 1) /\ search.i \in 0..MaxPages
  /\ changes \in {"off", "asked", "no", "yes"} /\ trace \in {"off", "asked", "error", "shown"}
  /\ \A i \in Calls : call[i].kind \in {"none", "load", "poll", "stop"}

Init ==
  /\ row = [l \in Loops |-> [there |-> TRUE, phase |-> "pending", trace |-> FALSE, snap |-> FALSE,
                             due |-> FALSE, owed |-> FALSE, late |-> FALSE, depth |-> 0]]
  /\ page = Nobody /\ detail = NoDetail /\ older = NoCopy /\ done = FALSE /\ search = NoSearch
  /\ err = FALSE /\ changes = "off" /\ trace = "off"
  /\ call = [i \in Calls |-> NoCall] /\ crossed = FALSE /\ failed = FALSE /\ unread = FALSE

(***************************************************************************)
(* The gateway.                                                            *)
(***************************************************************************)
Write(l, r) ==
  /\ l \in Live
  /\ row' = [row EXCEPT ![l] = r] /\ UNCHANGED <<view, call, history>>

Claim(l) == row[l].phase = "pending" /\ Write(l, [row[l] EXCEPT !.phase = "running"])

(* report: verdict, session and transcript in one write, the snapshot in a later one. *)
Report(l) ==
  /\ row[l].phase = "running"
  /\ Write(l, [row[l] EXCEPT !.phase = "over", !.trace = TRUE, !.due = TRUE])

(* finishLoop: the report that knows the session comes later. *)
Finish(l) ==
  /\ row[l].phase = "running"
  /\ Write(l, [row[l] EXCEPT !.phase = "over", !.due = TRUE, !.owed = TRUE])

(* reclaimRun: an error, which a report in the lease's grace corrects. *)
Reclaim(l) ==
  /\ row[l].phase = "running"
  /\ Write(l, [row[l] EXCEPT !.phase = "over", !.owed = TRUE])

(* The report of a run that is over already: it adds to a finished run, and takes a *)
(* new snapshot for a reclaimed one.                                                *)
LateReport(l) ==
  /\ row[l].owed
  /\ \E s \in BOOLEAN :
       Write(l, [row[l] EXCEPT !.owed = FALSE, !.trace = TRUE, !.late = TRUE, !.due = @ \/ s])

(* Best-effort. *)
Snapshot(l) ==
  /\ row[l].due
  /\ \E s \in {TRUE, row[l].snap} : Write(l, [row[l] EXCEPT !.due = FALSE, !.snap = s])

(* Newer runs push this one out of the latest, page after page. *)
NewerRuns(l) ==
  /\ row[l].phase = "over" /\ row[l].depth < MaxDepth
  /\ Write(l, [row[l] EXCEPT !.depth = @ + 1])

DeleteLoop(l) ==
  /\ row[l].there
  /\ Write(l, [row[l] EXCEPT !.there = FALSE, !.owed = FALSE, !.due = FALSE])

(* getJobDetail *)
DetailOf(l) ==
  [of |-> l, back |-> row[l].depth,
   copy |-> IF row[l].depth = 0 THEN [phase |-> row[l].phase, trace |-> row[l].trace] ELSE NoCopy]

(***************************************************************************)
(* What is rendered, and the effects that follow.                          *)
(***************************************************************************)
(* run *)
Found(p, d, o) == IF d.of = p /\ d.copy # NoCopy THEN d.copy ELSE o

Shown == Found(page, detail, older)
Open(c) == c.phase \in {"pending", "running"}

(* The body is on display: not the error card, not a loading page. *)
Body(d, e, c) == ~e /\ d # NoDetail /\ c # NoCopy

(* Mutant: the diff is asked for once, whatever the run's phase. *)
ChangesOnce(old, new) == IF new = NoCopy THEN "off" ELSE IF old = NoCopy THEN "asked" ELSE changes

(* Changes: asked for when the run is shown as over and was not before. *)
ChangesFor(old, new) ==
  IF new.phase # "over" THEN "off" ELSE IF old.phase # "over" THEN "asked" ELSE changes

(* Transcript: there as soon as the run has a session. *)
TraceFor(old, new) == IF ~new.trace THEN "off" ELSE IF ~old.trace THEN "asked" ELSE trace

(* Where the paging starts: behind the detail's last run.  A detail of another loop gives *)
(* a cursor from that loop's times.                                                      *)
Starts(d) == IF d.of = page THEN {d.back} ELSE 0..(row[page].depth + 1)

(* A new detail, error, or find: what is asked and searched for follows from it. *)
Render(d, o, dn, e, again) ==
  LET old == IF Body(detail, err, Shown) THEN Shown ELSE NoCopy
      now == Found(page, d, o)
      new == IF Body(d, e, now) THEN now ELSE NoCopy
  IN /\ detail' = d /\ older' = o /\ done' = dn /\ err' = e
     /\ changes' = ChangesFor(old, new) /\ trace' = TraceFor(old, new)
     /\ IF d = NoDetail \/ now # NoCopy \/ dn THEN search' = NoSearch
        ELSE IF again THEN \E n \in Starts(d) : search' = [on |-> TRUE, left |-> n, i |-> 0]
        ELSE UNCHANGED search

Unused == {i \in Calls : call[i] = NoCall}
Ask(kind, l) == [NoCall EXCEPT !.kind = kind, !.of = l, !.at = "sent"]
Send(kind, l) == \E i \in Unused : call' = [call EXCEPT ![i] = Ask(kind, l)]

(* The route shows a run, from elsewhere or from the page of another. *)
Go(l) ==
  /\ page # l
  /\ page' = l /\ detail' = NoDetail /\ older' = NoCopy /\ done' = FALSE /\ search' = NoSearch
  /\ err' = FALSE /\ changes' = "off" /\ trace' = "off"
  /\ Send("load", l)
  /\ crossed' = FALSE /\ failed' = FALSE /\ unread' = FALSE
  /\ UNCHANGED row

(* The page is left: answers to it are dropped. *)
Leave ==
  /\ page # Nobody
  /\ page' = Nobody /\ detail' = NoDetail /\ older' = NoCopy /\ done' = FALSE /\ search' = NoSearch
  /\ err' = FALSE /\ changes' = "off" /\ trace' = "off"
  /\ call' = [i \in Calls |-> NoCall]
  /\ crossed' = FALSE /\ failed' = FALSE /\ unread' = FALSE
  /\ UNCHANGED row

(***************************************************************************)
(* Requests.                                                               *)
(***************************************************************************)
ReadDetail(i) ==
  LET l == call[i].of
  IN /\ call[i].kind \in {"load", "poll"} /\ call[i].at = "sent"
     /\ \E ok \in {FALSE, row[l].there} :
          call' = [call EXCEPT ![i].at = "back", ![i].ok = ok, ![i].got = IF ok THEN DetailOf(l) ELSE NoDetail]
     /\ UNCHANGED <<row, view, history>>

(* load shows its error and clears it, poll does neither. *)
DetailAnswer(i) ==
  LET c == call[i]
  IN /\ c.kind \in {"load", "poll"} /\ c.at = "back"
     /\ call' = [call EXCEPT ![i] = NoCall]
     /\ IF c.ok THEN Render(c.got, older, done, err /\ c.kind = "poll", TRUE)
        ELSE IF c.kind = "load" THEN Render(detail, older, done, TRUE, FALSE)
        ELSE UNCHANGED <<detail, older, done, err, search, changes, trace>>
     /\ crossed' = (crossed \/ (c.ok /\ c.of # page))
     /\ UNCHANGED <<row, page, failed, unread>>

(* The interval, armed while the run is shown as open. *)
Poll ==
  /\ page # Nobody /\ Open(Shown)
  /\ Send("poll", page)
  /\ UNCHANGED <<row, view, history>>

Retry ==
  /\ err /\ Send("load", page)
  /\ UNCHANGED <<row, view, history>>

(* The next page starts at the oldest run of this one. *)
Turned(s) == [s EXCEPT !.i = @ + 1, !.left = @ - 1]

(* One older page: the run is on it, it is the last one, or the search goes on. *)
PageAnswer ==
  LET l == page
  IN /\ search.on
     /\ IF ~row[l].there \/ search.left = 0
        THEN Render(detail, older, TRUE, err, FALSE)
        ELSE IF search.left = 1
        THEN Render(detail, [phase |-> row[l].phase, trace |-> row[l].trace], TRUE, err, FALSE)
        ELSE IF search.i + 1 >= MaxPages
        THEN Render(detail, older, TRUE, err, FALSE)
        ELSE search' = Turned(search) /\ UNCHANGED <<detail, older, done, err, changes, trace>>
     /\ UNCHANGED <<row, page, call, history>>

(* A page that cannot be read ends the search as if the run were not there. *)
PageFails ==
  /\ search.on
  /\ Render(detail, older, TRUE, err, FALSE)
  /\ failed' = TRUE
  /\ UNCHANGED <<row, page, call, crossed, unread>>

(* getRunDiff; an error counts as a run without a snapshot. *)
ChangesAnswer ==
  /\ changes = "asked"
  /\ \/ /\ changes' = IF row[page].there /\ row[page].snap THEN "yes" ELSE "no"
        /\ unread' = (row[page].due \/ row[page].owed)
     \/ changes' = "no" /\ unread' = TRUE
  /\ UNCHANGED <<row, page, detail, older, done, search, err, trace, call, crossed, failed>>

(* getTranscript; an error stays on display, as nothing asks again. *)
TraceAnswer ==
  /\ trace = "asked"
  /\ trace' \in IF row[page].there THEN {"shown", "error"} ELSE {"error"}
  /\ UNCHANGED <<row, page, detail, older, done, search, err, changes, call, history>>

(* onStop *)
Stop ==
  /\ page # Nobody /\ Body(detail, err, Shown) /\ Open(Shown)
  /\ Send("stop", page)
  /\ UNCHANGED <<row, view, history>>

(* cancelRun: a run that is over is left alone; then the loop of the click is loaded, *)
(* on whichever page.                                                                 *)
CancelRun(i) ==
  LET l == call[i].of
  IN /\ call[i].kind = "stop"
     /\ IF l \in Live /\ row[l].there /\ Open(row[l])
        THEN row' = [row EXCEPT ![l].phase = "over"] /\ call' = [call EXCEPT ![i] = Ask("load", l)]
        ELSE UNCHANGED row /\ call' = [call EXCEPT ![i] = NoCall]
     /\ UNCHANGED <<view, history>>

Next ==
  \/ \E l \in Loops :
       \/ Go(l) \/ Claim(l) \/ Report(l) \/ Finish(l) \/ Reclaim(l) \/ LateReport(l)
       \/ Snapshot(l) \/ NewerRuns(l) \/ DeleteLoop(l)
  \/ \E i \in Calls : ReadDetail(i) \/ DetailAnswer(i) \/ CancelRun(i)
  \/ Leave \/ Poll \/ Retry \/ PageAnswer \/ PageFails \/ ChangesAnswer \/ TraceAnswer \/ Stop

Spec == Init /\ [][Next]_vars

------------------------------------------------------------------------------
(* Properties                                                              *)

Quiet == call = [i \in Calls |-> NoCall] /\ ~search.on /\ changes # "asked" /\ trace # "asked"

(* SAFETY: a page that says its run is no longer available (RunView.tsx:383) is right, *)
(* unless a page of the search failed, the run lies further back than is searched, or  *)
(* the detail of another loop came in between.                                         *)
GoneIsGone ==
  page # Nobody /\ Quiet /\ detail # NoDetail /\ ~err /\ Shown = NoCopy =>
    ~row[page].there \/ failed \/ crossed \/ row[page].depth > MaxPages

(* SAFETY: a page that has settled on a run that is over shows the diff of the run and *)
(* its transcript, although it does not look again (RunView.tsx:341): unless its diff  *)
(* was read before the snapshot was taken, or could not be read; or the run was shown  *)
(* before the report that brought its session.  Of a transcript that could not be read *)
(* the page says so (RunView.tsx:159).                                                 *)
SettledPageIsWhole ==
  page # Nobody /\ Quiet /\ Body(detail, err, Shown) /\ Shown.phase = "over" /\ row[page].there =>
    /\ row[page].snap => changes = "yes" \/ unread
    /\ row[page].trace => trace \in {"shown", "error"} \/ (row[page].late /\ ~Shown.trace)

(* Not so: the "transcript + diff settle once it finishes" (RunView.tsx:341).  The verdict *)
(* is written before the snapshot, and a finished or reclaimed run's session comes later.  *)
SettlesOnceFinished ==
  page # Nobody /\ Quiet /\ Body(detail, err, Shown) /\ Shown.phase = "over" /\ row[page].there =>
    /\ row[page].snap => changes = "yes"
    /\ row[page].trace => trace = "shown"
===============================================================================
