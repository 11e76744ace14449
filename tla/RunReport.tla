------------------------------ MODULE RunReport -------------------------------
(***************************************************************************)
(* What a run leaves behind: the daemon's pass over one delivery           *)
(* (runner.ts runDelivery: workflow gate, agent, resumes, report) and what *)
(* the server makes of the report (gateway/index.ts report, reclaimRun,    *)
(* notifyRunFailure): the workflow's cursor in loop.state, the run's row,  *)
(* the failure alerts and the circuit breaker.                             *)
(*                                                                         *)
(* One loop, whose notify is not "never" and whose workflow reads a feed:  *)
(* items 1, 2, ...; its cursor is the last item read.  Only one run of the *)
(* loop is open at a time (RunLifecycle), but one that the sweep reclaimed *)
(* works on, beside the next.  Rows are ordered by the stamp of their last *)
(* verdict.                                                                *)
(***************************************************************************)
EXTENDS Naturals, FiniteSets

CONSTANTS
    Runs,               \* numbers, in the order the runs are made
    Handlers,           \* report requests in the server
    None,
    TransientRetries,   \* LOOPANY_TRANSIENT_RETRIES, 2
    AutopauseStreak,    \* LOOPANY_FAILURE_AUTOPAUSE_STREAK, 10
    NotifyEvery,        \* FAILURE_NOTIFY_EVERY, 5
    MaxItems, MaxStamp, \* bounds: items of the feed, verdicts
    MaxToggles,         \* bound: times the owner enables the loop again
    MaxUpsets           \* bound: runs reclaimed, canceled or delivered during an alert, calls that fail

\* What the constants are.
ReportConstantsOK == /\ Runs \subseteq Nat /\ None \notin Nat
                     /\ {TransientRetries, MaxItems, MaxStamp, MaxToggles, MaxUpsets} \subseteq Nat
                     /\ {AutopauseStreak, NotifyEvery} \subseteq Nat \ {0}

VARIABLES
    feed,       \* items that have arrived
    state,      \* loop.state: the cursor the next run starts from
    enabled,    \* loop.enabled
    row,        \* the runs: phase, stamp of the verdict, items the row's output covers
    lease,      \* run_leases.state
    job,        \* runDelivery, per run
    handler,    \* the report requests
    alerting,   \* failed runs whose notifyRunFailure is under way
    alerted,    \* failed runs for which a failure alert or the pause note went out
    late,       \* runs whose failure was reported after the sweep had reclaimed them
    unheard,    \* history: runs that failed while the alert of another was under way, or whose own was cut off
    dropped,    \* history: items the cursor passed by a failed report, or by one whose row was never written
    stamp, toggles, upsets

vars == <<feed, state, enabled, row, lease, job, handler, alerting, alerted, late, unheard, dropped, stamp, toggles, upsets>>

Items    == 1..MaxItems
Cursors  == 0..MaxItems
Row      == [phase : {"none", "running", "done", "error", "canceled"}, ts : 0..MaxStamp, shown : SUBSET Items]
Job      == [pc : {"idle", "gate", "agent", "backoff", "report", "over"}, prev : Cursors,
             cursor : Cursors \cup {None}, ok : BOOLEAN, attempts : 0..TransientRetries + 1, again : BOOLEAN]
Handler  == [pc : {"idle", "read", "cursor", "row", "retire"}, run : Runs \cup {None}, grace : BOOLEAN,
             prev : Cursors, cursor : Cursors \cup {None}, ok : BOOLEAN]
NoJob    == [pc |-> "idle", prev |-> 0, cursor |-> None, ok |-> FALSE, attempts |-> 0, again |-> FALSE]
NoReport == [pc |-> "idle", run |-> None, grace |-> FALSE, prev |-> 0, cursor |-> None, ok |-> FALSE]

\* TYPE: the shapes of the loop, its runs, and the work on them.
TypeOK == /\ feed \in Cursors /\ state \in Cursors
          /\ enabled \in BOOLEAN
          /\ row \in [Runs -> Row]
          /\ lease \in [Runs -> {"none", "active", "grace", "retired"}]
          /\ job \in [Runs -> Job]
          /\ handler \in [Handlers -> Handler]
          /\ alerting \subseteq Runs /\ alerted \subseteq Runs /\ late \subseteq Runs /\ unheard \subseteq Runs
          /\ dropped \subseteq Items
          /\ stamp \in 0..MaxStamp /\ toggles \in 0..MaxToggles /\ upsets \in 0..MaxUpsets

Init == /\ feed = 0 /\ state = 0
        /\ enabled = TRUE
        /\ row = [r \in Runs |-> [phase |-> "none", ts |-> 0, shown |-> {}]]
        /\ lease = [r \in Runs |-> "none"]
        /\ job = [r \in Runs |-> NoJob]
        /\ handler = [h \in Handlers |-> NoReport]
        /\ alerting = {} /\ alerted = {} /\ late = {} /\ unheard = {} /\ dropped = {}
        /\ stamp = 0 /\ toggles = 0 /\ upsets = 0

loopVars == <<state, enabled, toggles>>
Upset    == upsets < MaxUpsets /\ upsets' = upsets + 1
alerts   == <<alerting, alerted, late, unheard>>

------------------------------------------------------------------------------
(* The daemon: runDelivery                                                 *)

\* A tick queues the run and a poll delivers it with the loop's cursor.
Deliver(r) ==
    /\ enabled /\ (IF alerting = {} THEN UNCHANGED upsets ELSE Upset)
    /\ row[r].phase = "none"
    /\ \A q \in Runs : row[q].phase # "running" /\ (q < r => row[q].phase # "none")
    /\ row' = [row EXCEPT ![r].phase = "running"]
    /\ lease' = [lease EXCEPT ![r] = "active"]
    /\ \E pc \in {"gate", "agent"} : job' = [job EXCEPT ![r] = [NoJob EXCEPT !.pc = pc, !.prev = state]]
    /\ UNCHANGED <<feed, loopVars, handler, alerts, dropped, stamp>>

Becomes(r, j) == /\ job' = [job EXCEPT ![r] = j]
                 /\ UNCHANGED <<loopVars, row, lease, handler, alerts, dropped, stamp, upsets>>

\* The gate reads the feed as it is by then: a pure workflow reports on its own, one that escalates hands its cursor
\* on with the agent's report, one that failed has none and falls back to the agent.
Gate(r) == /\ job[r].pc = "gate"
           /\ feed' \in feed..MaxItems
           /\ \/ Becomes(r, [job[r] EXCEPT !.pc = "report", !.ok = TRUE, !.cursor = feed'])
              \/ Becomes(r, [job[r] EXCEPT !.pc = "agent", !.cursor = feed'])
              \/ Becomes(r, [job[r] EXCEPT !.pc = "agent"])

\* One invocation.  Only a transient failure of a session that can be resumed is
\* tried again; a timeout, an abort, an auth, quota, poisoned or task failure is final.
Invoke(r) == /\ job[r].pc = "agent" /\ UNCHANGED feed
             /\ \/ \E ok \in BOOLEAN : Becomes(r, [job[r] EXCEPT !.pc = "report", !.ok = ok, !.attempts = 0])
                \/ /\ job[r].attempts < TransientRetries
                   /\ Becomes(r, [job[r] EXCEPT !.pc = "backoff", !.attempts = @ + 1])
Backoff(r) == /\ job[r].pc = "backoff" /\ UNCHANGED feed
              /\ \/ Becomes(r, [job[r] EXCEPT !.pc = "agent"])
                 \/ Becomes(r, [job[r] EXCEPT !.pc = "report", !.attempts = 0])    \* daemon shut down

\* report: sent again, once, if the call threw; the first may be at work in the server.
Send(r, h) == /\ job[r].pc = "report"
              /\ handler[h].pc = "idle"
              /\ \/ ~job[r].again /\ Upset /\ job' = [job EXCEPT ![r].again = TRUE]
                 \/ job' = [job EXCEPT ![r] = [NoJob EXCEPT !.pc = "over"]] /\ UNCHANGED upsets
              /\ handler' = IF lease[r] \notin {"active", "grace"} THEN handler     \* 401
                            ELSE [handler EXCEPT ![h] = [pc |-> "read", run |-> r, grace |-> lease[r] = "grace",
                                    prev |-> job[r].prev, cursor |-> job[r].cursor, ok |-> job[r].ok]]
              /\ UNCHANGED <<feed, loopVars, row, lease, alerts, dropped, stamp>>

------------------------------------------------------------------------------
(* The server: report                                                      *)

Goto(h, pc) == handler' = [handler EXCEPT ![h].pc = pc]

\* What the report does depends on the row it reads: a canceled run is left alone, a
\* finished one enriched, anything else gets the report's verdict.
Read(h) == /\ handler[h].pc = "read"
           /\ LET phase == row[handler[h].run].phase IN
                handler' = [handler EXCEPT ![h] = IF phase \in {"canceled", "done"}
                              THEN [NoReport EXCEPT !.pc = "retire", !.run = handler[h].run]
                              ELSE [@ EXCEPT !.pc = "cursor", !.grace = handler[h].grace /\ phase = "error"]]
           /\ UNCHANGED <<feed, loopVars, row, lease, job, alerts, dropped, stamp, upsets>>

Passed(j) == IF j.cursor = None THEN {} ELSE j.prev + 1..j.cursor
Output(j) == IF j.ok THEN Passed(j) ELSE {}

\* Mutant: a failure that comes in late carries its cursor, too.
CarriesCursor(h) == handler[h].cursor = None

\* A run reclaimed by the sweep carries its cursor only with a success; any other, whatever its verdict.
KeepsCursor(h) == handler[h].cursor = None \/ (handler[h].grace /\ ~handler[h].ok)
Cursor(h) == /\ handler[h].pc = "cursor"
             /\ state' = IF KeepsCursor(h) THEN state ELSE handler[h].cursor
             /\ dropped' = IF handler[h].ok \/ handler[h].grace THEN dropped ELSE dropped \cup Passed(handler[h])
             /\ Goto(h, "row")
             /\ UNCHANGED <<feed, enabled, toggles, row, lease, job, alerts, stamp, upsets>>

Verdict(r, phase, shown) ==
    /\ stamp < MaxStamp /\ stamp' = stamp + 1
    /\ row' = [row EXCEPT ![r] = [phase |-> phase, ts |-> stamp + 1, shown |-> @.shown \cup shown]]

\* The alert of a failure that was just written is to follow.
Failed(r) == /\ alerting' = alerting \cup {r}
             /\ unheard' = IF alerting \subseteq {r} THEN unheard ELSE unheard \cup {r}

\* The row; a late failure is recorded and does not alert a second time.
Record(h) ==
    /\ handler[h].pc = "row"
    /\ LET r == handler[h].run IN
         /\ Verdict(r, IF handler[h].ok THEN "done" ELSE "error", Output(handler[h]))
         /\ late' = IF ~handler[h].ok /\ handler[h].grace THEN late \cup {r} ELSE late
         /\ IF handler[h].ok \/ handler[h].grace THEN UNCHANGED <<alerting, unheard>> ELSE Failed(r)
    /\ handler' = [handler EXCEPT ![h] = [NoReport EXCEPT !.pc = "retire", !.run = handler[h].run]]
    /\ UNCHANGED <<feed, loopVars, lease, job, alerted, dropped, upsets>>

Retire(h) == /\ handler[h].pc = "retire"
             /\ lease' = [lease EXCEPT ![handler[h].run] = "retired"]
             /\ handler' = [handler EXCEPT ![h] = NoReport]
             /\ UNCHANGED <<feed, loopVars, row, job, alerts, dropped, stamp, upsets>>

\* A write of the report throws, or the server is restarted: the request ends here.
Fails(h) == /\ handler[h].pc # "idle" /\ Upset
            /\ dropped' = IF handler[h].pc = "row" THEN dropped \cup Output(handler[h]) ELSE dropped
            /\ handler' = [handler EXCEPT ![h] = NoReport]
            /\ UNCHANGED <<feed, loopVars, row, lease, job, alerts, stamp>>

------------------------------------------------------------------------------
(* The server: failures                                                    *)

\* execFailureStreak: the errors stamped after the newest success.
LastOk == {0} \cup {row[r].ts : r \in {q \in Runs : row[q].phase = "done"}}
Streak == {r \in Runs : row[r].phase = "error" /\ \A t \in LastOk : row[r].ts > t}

\* The sweep fails a run that has been silent, and gives its lease a grace.
Reclaim(r) == /\ row[r].phase = "running" /\ Upset
              /\ Verdict(r, "error", {})
              /\ lease' = [lease EXCEPT ![r] = IF @ = "active" THEN "grace" ELSE @]
              /\ Failed(r)
              /\ UNCHANGED <<feed, loopVars, job, handler, alerted, late, dropped>>
GraceEnds(r) == /\ lease[r] = "grace"
                /\ lease' = [lease EXCEPT ![r] = "retired"]
                /\ UNCHANGED <<feed, loopVars, row, job, handler, alerts, dropped, stamp, upsets>>

\* Mutants: the threshold is passed, not met; a streak's first failure is no reminder.
TripsBeyond(n) == n > AutopauseStreak /\ enabled
RemindsOnly(n) == n % NotifyEvery = 0

Trips(n) == n >= AutopauseStreak /\ enabled
Reminds(n) == n = 1 \/ (n > 0 /\ n % NotifyEvery = 0)

\* notifyRunFailure: the breaker's note takes the place of the alert.
Alert(r) ==
    /\ r \in alerting
    /\ alerting' = alerting \ {r}
    /\ LET n == Cardinality(Streak) IN
         /\ enabled' = (enabled /\ ~Trips(n))
         /\ alerted' = IF Trips(n) \/ Reminds(n) THEN alerted \cup {r} ELSE alerted
    /\ UNCHANGED <<feed, state, toggles, row, lease, job, handler, late, unheard, dropped, stamp, upsets>>

\* Or it throws, or the server is restarted before it.
AlertLost(r) ==
    /\ r \in alerting /\ Upset
    /\ alerting' = alerting \ {r} /\ unheard' = unheard \cup {r}
    /\ UNCHANGED <<feed, loopVars, row, lease, job, handler, alerted, late, dropped, stamp>>

------------------------------------------------------------------------------
(* The owner                                                               *)

Cancel(r) == /\ row[r].phase = "running" /\ Upset
             /\ row' = [row EXCEPT ![r].phase = "canceled"]
             /\ UNCHANGED <<feed, loopVars, lease, job, handler, alerts, dropped, stamp>>

Enable == /\ ~enabled /\ toggles < MaxToggles
          /\ enabled' = TRUE /\ toggles' = toggles + 1
          /\ UNCHANGED <<feed, state, row, lease, job, handler, alerts, dropped, stamp, upsets>>

Next == \/ Enable
        \/ \E r \in Runs : \/ Deliver(r) \/ Gate(r) \/ Invoke(r) \/ Backoff(r)
                           \/ Reclaim(r) \/ GraceEnds(r) \/ Alert(r) \/ AlertLost(r) \/ Cancel(r)
        \/ \E r \in Runs, h \in Handlers : Send(r, h)
        \/ \E h \in Handlers : Read(h) \/ Cursor(h) \/ Record(h) \/ Retire(h) \/ Fails(h)

Spec == Init /\ [][Next]_vars

------------------------------------------------------------------------------
(* Properties                                                              *)

Quiet == alerting = {} /\ \A h \in Handlers : handler[h].pc = "idle"

\* NOTHING SKIPPED: when no report is at work, every item that the cursor has passed
\* is covered by the output of some run's row, whichever runs were canceled, reclaimed,
\* or reported late or twice meanwhile; but for what a failed report carried the cursor
\* past, or one that ended between its cursor and its row (see the README).
NothingSkipped == Quiet => \A i \in 1..state : i \in dropped \/ \E r \in Runs : i \in row[r].shown

\* CIRCUIT BREAKER: a loop does not stay enabled on a streak of failures, unless the
\* owner has enabled it again; a failure that came in late counts with the next one.
BreakerHolds == Quiet /\ Cardinality(Streak \ late) >= AutopauseStreak /\ enabled => toggles > 0

\* ALERTS: of the failures since the last success one at least was surfaced, so that no
\* outage is silent, unless two were counted together, each as the second of a streak, or an alert was
\* cut off; failures that came in late are left out (see the README).
OutageSurfaced == Quiet /\ late = {} /\ Streak # {} => Streak \cap (alerted \cup unheard) # {}

------------------------------------------------------------------------------
(* A statement made in the source that the code does not keep               *)

\* gateway/index.ts:1382: "a failed run must never advance loop.state".
FailedRunKeepsCursor ==
    [][\A h \in Handlers : handler[h].pc = "cursor" /\ ~handler[h].ok => state' = state \/ handler'[h].pc = "cursor"]_vars
==============================================================================
