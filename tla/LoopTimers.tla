------------------------------ MODULE LoopTimers ------------------------------
(***************************************************************************)
(* The scheduler's timers against the loops table (scheduler/index.ts).    *)
(* For every enabled loop the process holds a cron job and, when the row   *)
(* has a nextRunAt, a one-shot timer.  Whoever writes the row afterwards   *)
(* brings the timers in line with what the write returned (addLoop,        *)
(* removeLoop, armNextRunAt): the write and the continuation after its     *)
(* await are two steps, called a job here.  Ticks consume a due one-shot   *)
(* and re-arm at their end; a boot reloads the enabled loops and makes up  *)
(* for a cron occurrence that fell into the outage.                        *)
(*                                                                         *)
(* A shot (a nextRunAt, a timer) is the time left to it: 2 later, 1 within *)
(* the 1.5 s that a tick counts as due, 0 due or past.                     *)
(*                                                                         *)
(* What a tick does with the runs is RunLifecycle; here a loop's queue is  *)
(* only busy[l].                                                           *)
(***************************************************************************)
EXTENDS Naturals, Sequences

CONSTANTS
    Loops, Exprs,       \* identities of loops; cron expressions (with their timezone)
    Jobs,               \* slots for the handlers that write a loop's row
    None,               \* no cron job, no shot, no loop
    MaxJobs,            \* bound: handlers that ever write a row
    MaxRestarts         \* bound: server crashes

ASSUME TimersConstantsOK == /\ None \notin Exprs /\ None \notin Loops /\ None \notin 0..2
                            /\ Loops # {} /\ Exprs # {}
                            /\ MaxJobs \in Nat /\ MaxRestarts \in Nat

VARIABLES
    row,        \* the loops table: enabled, cron and nextRunAt
    busy,       \* the open run of the loop, if any
    cron,       \* Scheduler.crons: the expression the cron job was made with
    timer,      \* Scheduler.nextTimers
    tick,       \* runLoop in flight, one per loop (Scheduler.running)
    job,        \* handlers in flight that write a row
    resumes,    \* per loop, the jobs whose write is done, in commit order
    boot,       \* the misfire sweep of start()
    missed,     \* an occurrence of the loop fell into the outage, unanswered
    shot,       \* history: what became of the last one-shot written
    jobs, restarts

vars == <<row, busy, cron, timer, tick, job, resumes, boot, missed, shot, jobs, restarts>>

Later == 2
Shots == 0..Later
Row   == [state : {"unborn", "on", "off", "gone"}, expr : Exprs, next : Shots \cup {None}]
Stored(r) == r.state \in {"on", "off"}

Ops     == {"create", "patch", "now", "flag", "clear", "stop", "delete"}
Tick    == [pc : {"idle", "load", "open", "consume", "add", "read", "arm"}, seen : Row]
Job     == [pc : {"idle", "read", "write", "apply"}, op : Ops, loop : Loops, seen : Row]
Fates   == {"none", "owed", "taken", "ran", "cleared", "replaced", "crashed"}
AnyExpr == CHOOSE e \in Exprs : TRUE      \* the one a loop is created with
AnyLoop == CHOOSE l \in Loops : TRUE
NoRow   == [state |-> "unborn", expr |-> AnyExpr, next |-> None]
NoTick  == [pc |-> "idle", seen |-> NoRow]
NoJob   == [pc |-> "idle", op |-> "patch", loop |-> AnyLoop, seen |-> NoRow]

TypeOK == /\ row \in [Loops -> Row]
          /\ busy \in [Loops -> {"none", "pending", "running"}]
          /\ cron \in [Loops -> Exprs \cup {None}]
          /\ timer \in [Loops -> Shots \cup {None}]
          /\ tick \in [Loops -> Tick]
          /\ job \in [Jobs -> Job]
          /\ resumes \in [Loops -> Seq(Jobs)]
          /\ boot \in [todo : SUBSET Loops, seen : [Loops -> Row], at : Loops \cup {None}]
          /\ missed \in [Loops -> BOOLEAN]
          /\ shot \in [Loops -> Fates]
          /\ jobs \in 0..MaxJobs
          /\ restarts \in 0..MaxRestarts

Init == /\ row = [l \in Loops |-> NoRow]
        /\ busy = [l \in Loops |-> "none"]
        /\ cron = [l \in Loops |-> None]
        /\ timer = [l \in Loops |-> None]
        /\ tick = [l \in Loops |-> NoTick]
        /\ job = [j \in Jobs |-> NoJob]
        /\ resumes = [l \in Loops |-> <<>>]
        /\ boot = [todo |-> {}, seen |-> row, at |-> None]
        /\ missed = [l \in Loops |-> FALSE]
        /\ shot = [l \in Loops |-> "none"]
        /\ jobs = 0
        /\ restarts = 0

------------------------------------------------------------------------------
(* The scheduler's calls, each synchronous                                 *)

\* runLoop: dropped while a tick of the loop is in flight.
Started(l) == IF tick[l].pc = "idle" THEN [tick EXCEPT ![l].pc = "load"] ELSE tick

\* armNextRunAt: a past shot runs at once, a future one replaces the timer.
Shot(r) == IF r.state = "on" /\ r.next \in 1..Later THEN r.next ELSE None
ArmNextRunAt(l, r) ==
    /\ timer' = [timer EXCEPT ![l] = Shot(r)]
    /\ tick' = IF r.state = "on" /\ r.next = 0 THEN Started(l) ELSE tick

Unschedule(l) == /\ cron' = [cron EXCEPT ![l] = None]
                 /\ timer' = [timer EXCEPT ![l] = None]

\* addLoop: unschedule, then schedule if the row says so.
AddLoop(l, r) ==
    /\ cron' = [cron EXCEPT ![l] = IF r.state = "on" THEN r.expr ELSE None]
    /\ ArmNextRunAt(l, r)

------------------------------------------------------------------------------
(* Handlers that write a row                                               *)

jobOnly == <<boot, restarts>>

Begin(j, l, op, pc) ==
    /\ job[j].pc = "idle" /\ jobs < MaxJobs
    /\ jobs' = jobs + 1
    /\ job' = [job EXCEPT ![j] = [pc |-> pc, op |-> op, loop |-> l, seen |-> NoRow]]

\* createLoop, runNow and requestEdit, and the edits of the owner, of the CLI and
\* of a run (reschedule, set-cron, pause, ...).
JobBegin(j, l) ==
    /\ \/ /\ row[l].state = "unborn"
          /\ \A i \in Jobs : job[i].loop = l => job[i].pc = "idle"
          /\ Begin(j, l, "create", "write")
       \/ Stored(row[l]) /\ \E op \in {"patch", "now"} : Begin(j, l, op, "write")
    /\ UNCHANGED <<row, busy, cron, timer, tick, resumes, missed, shot, jobOnly>>

\* A run's report: finishEdit or finishEvolution, maybeFlagEvolve, or the circuit
\* breaker of notifyRunFailure.
JobReport(j, l) ==
    /\ busy[l] = "running" /\ Stored(row[l])
    /\ busy' = [busy EXCEPT ![l] = "none"]
    /\ \/ Begin(j, l, "clear", "read")
       \/ Begin(j, l, "flag", "write")
       \/ Begin(j, l, "stop", "write")
    /\ missed' = [missed EXCEPT ![l] = FALSE]
    /\ UNCHANGED <<row, cron, timer, tick, resumes, shot, jobOnly>>

\* deleteJob: the timers are dropped before the row is.
JobDelete(j, l) ==
    /\ Stored(row[l])
    /\ Begin(j, l, "delete", "write")
    /\ Unschedule(l)
    /\ missed' = [missed EXCEPT ![l] = FALSE]
    /\ UNCHANGED <<row, busy, tick, resumes, shot, jobOnly>>

\* spentNextRunAt: the row is read again to see whether its shot has passed.
JobRead(j) ==
    /\ job[j].pc = "read"
    /\ job' = [job EXCEPT ![j] = [@ EXCEPT !.pc = "write", !.seen = row[job[j].loop]]]
    /\ UNCHANGED <<row, busy, cron, timer, tick, resumes, missed, shot, jobs, jobOnly>>

\* The rows a job may leave behind.  A patch may change several fields at once.
Written(op, r, seen) ==
    CASE op = "create" -> {[r EXCEPT !.state = "on"]}
      [] op = "patch"  -> {[state |-> s, expr |-> e, next |-> n] :
                              s \in {"on", "off"}, e \in Exprs, n \in {r.next, Later, None}}
      [] op = "now"    -> {[r EXCEPT !.next = 0]}
      [] op = "flag"   -> {[r EXCEPT !.next = Later]}
      [] op = "clear"  -> {[r EXCEPT !.next = IF seen.next \in 1..Later THEN @ ELSE None]}
      [] op = "stop"   -> {IF Stored(r) THEN [r EXCEPT !.state = "off"] ELSE r}
      [] op = "delete" -> {[NoRow EXCEPT !.state = "gone"]}

\* History: a write that sets a nextRunAt owes a run, the owner's edit may withdraw it,
\* and the clean-up of a finished edit or evolve run may take it away unserved.
ShotWritten(op, s, old, new) ==
    CASE op \in {"now", "flag"}                     -> "owed"
      [] op = "patch" /\ new.next # old.next        -> IF new.next = None THEN "none" ELSE "owed"
      [] op = "clear" /\ new.next = None /\ s = "owed" -> "cleared"
      [] op = "delete"                              -> "none"
      [] OTHER                                      -> s

\* Mutant: finishEdit re-registers the loop as it was read, not as it was written.
JobWriteStale(j) ==
    /\ job[j].pc = "write"
    /\ LET l == job[j].loop  op == job[j].op IN
         /\ Stored(row[l]) \/ op = "create"
         /\ \E r \in Written(op, row[l], job[j].seen) :
              /\ row' = [row EXCEPT ![l] = r]
              /\ shot' = [shot EXCEPT ![l] = ShotWritten(op, @, row[l], r)]
              /\ job' = IF op = "delete" THEN [job EXCEPT ![j] = NoJob]
                        ELSE [job EXCEPT ![j] = [@ EXCEPT !.pc = "apply",
                                !.seen = IF op = "clear" THEN @ ELSE r]]
         /\ resumes' = IF op = "delete" THEN resumes ELSE [resumes EXCEPT ![l] = Append(@, j)]
         /\ missed' = [missed EXCEPT ![l] = @ /\ op \notin {"patch", "stop"}]
         /\ busy' = [busy EXCEPT ![l] = IF op = "delete" THEN "none" ELSE @]
    /\ UNCHANGED <<cron, timer, tick, jobs, jobOnly>>

\* createLoop, updateLoop or deleteLoop; an update of a deleted row returns nothing
\* and ends the job (the circuit breaker unschedules the loop all the same).  A missed
\* occurrence lapses when the owner changes the schedule.
JobWrite(j) ==
    /\ job[j].pc = "write"
    /\ LET l == job[j].loop  op == job[j].op IN
         IF Stored(row[l]) \/ op \in {"create", "stop"}
           THEN /\ \E r \in Written(op, row[l], job[j].seen) :
                     /\ row' = [row EXCEPT ![l] = r]
                     /\ shot' = [shot EXCEPT ![l] = ShotWritten(op, @, row[l], r)]
                     /\ job' = IF op = "delete" THEN [job EXCEPT ![j] = NoJob]
                               ELSE [job EXCEPT ![j] = [@ EXCEPT !.pc = "apply", !.seen = r]]
                /\ resumes' = IF op = "delete" THEN resumes
                              ELSE [resumes EXCEPT ![l] = Append(@, j)]
                /\ missed' = [missed EXCEPT ![l] = @ /\ op \notin {"patch", "stop"}]
                /\ busy' = [busy EXCEPT ![l] = IF op = "delete" THEN "none" ELSE @]
           ELSE /\ job' = [job EXCEPT ![j] = NoJob]
                /\ UNCHANGED <<row, resumes, missed, busy, shot>>
    /\ UNCHANGED <<cron, timer, tick, jobs, jobOnly>>

\* The continuation: transactions on one row serialise on its lock, and each has
\* round trips of its own left once the one before it has committed, so their
\* continuations run in commit order.  A created loop goes on to runNow.
JobApply(j) ==
    /\ job[j].pc = "apply"
    /\ LET l == job[j].loop  op == job[j].op IN
         /\ j = Head(resumes[l])
         /\ resumes' = [resumes EXCEPT ![l] = Tail(@)]
         /\ IF op \in {"now", "flag"}
              THEN ArmNextRunAt(l, job[j].seen) /\ UNCHANGED cron
              ELSE AddLoop(l, job[j].seen)
         /\ job' = [job EXCEPT ![j] = IF op = "create" THEN [@ EXCEPT !.op = "now", !.pc = "write"]
                                                       ELSE NoJob]
    /\ UNCHANGED <<row, busy, missed, shot, jobs, jobOnly>>

------------------------------------------------------------------------------
(* Ticks                                                                   *)

tickOnly == <<job, resumes, boot, jobs, restarts>>

CronFire(l) ==
    /\ cron[l] # None /\ tick[l].pc = "idle"
    /\ tick' = Started(l)
    /\ UNCHANGED <<row, busy, cron, timer, missed, shot, tickOnly>>

TimerFire(l) ==
    /\ timer[l] = 0
    /\ timer' = [timer EXCEPT ![l] = None]
    /\ tick' = Started(l)
    /\ UNCHANGED <<row, busy, cron, missed, shot, tickOnly>>

TickTo(l, pc) == tick' = [tick EXCEPT ![l] = [NoTick EXCEPT !.pc = pc]]
TickEnd(l)    == tick' = [tick EXCEPT ![l] = NoTick]

\* getLoop: a deleted loop is unscheduled, a paused one left alone.
TickLoad(l) ==
    /\ tick[l].pc = "load"
    /\ \/ row[l].state = "on" /\ tick' = [tick EXCEPT ![l] = [pc |-> "open", seen |-> row[l]]]
                              /\ UNCHANGED <<cron, timer>>
       \/ row[l].state = "off" /\ TickEnd(l) /\ UNCHANGED <<cron, timer>>
       \/ ~Stored(row[l]) /\ TickEnd(l) /\ Unschedule(l)
    /\ UNCHANGED <<row, busy, missed, shot, tickOnly>>

\* Mutant: a due one-shot is not consumed.
TickOpenOnly(l) ==
    /\ tick[l].pc = "open"
    /\ \/ busy[l] # "none" /\ TickEnd(l) /\ missed' = [missed EXCEPT ![l] = FALSE]
       \/ busy[l] # "running" /\ TickTo(l, "add") /\ UNCHANGED missed
    /\ UNCHANGED <<row, busy, cron, timer, shot, tickOnly>>

\* openRunsForLoop: a running run ends the tick; a waiting one does, or is
\* superseded, depending on the roles.
TickOpen(l) ==
    /\ tick[l].pc = "open"
    /\ \/ busy[l] # "none" /\ TickEnd(l) /\ missed' = [missed EXCEPT ![l] = FALSE]
       \/ /\ busy[l] # "running"
          /\ TickTo(l, IF tick[l].seen.next \in {0, 1} THEN "consume" ELSE "add")
          /\ UNCHANGED missed
    /\ UNCHANGED <<row, busy, cron, timer, shot, tickOnly>>

\* The due one-shot is cleared, whatever the row holds by now.
TickConsume(l) ==
    /\ tick[l].pc = "consume"
    /\ row' = IF Stored(row[l]) THEN [row EXCEPT ![l].next = None] ELSE row
    /\ shot' = [shot EXCEPT ![l] = IF @ # "owed" THEN @
                                   ELSE IF row[l].next = Later THEN "replaced" ELSE "taken"]
    /\ TickTo(l, "add")
    /\ UNCHANGED <<busy, cron, timer, missed, tickOnly>>

TickAdd(l) ==
    /\ tick[l].pc = "add"
    /\ busy' = [busy EXCEPT ![l] = "pending"]
    /\ missed' = [missed EXCEPT ![l] = FALSE]
    /\ shot' = [shot EXCEPT ![l] = IF @ = "taken" THEN "ran" ELSE @]
    /\ TickTo(l, "read")
    /\ UNCHANGED <<row, cron, timer, tickOnly>>

TickRead(l) ==
    /\ tick[l].pc = "read"
    /\ tick' = IF Stored(row[l]) THEN [tick EXCEPT ![l] = [pc |-> "arm", seen |-> row[l]]]
                                 ELSE [tick EXCEPT ![l] = NoTick]
    /\ UNCHANGED <<row, busy, cron, timer, missed, shot, tickOnly>>

\* armNextRunAt while the tick is still in flight: a past shot is dropped.
TickArm(l) ==
    /\ tick[l].pc = "arm"
    /\ timer' = [timer EXCEPT ![l] = Shot(tick[l].seen)]
    /\ TickEnd(l)
    /\ UNCHANGED <<row, busy, cron, missed, shot, tickOnly>>

TickStep(l) == \/ TickLoad(l) \/ TickOpen(l) \/ TickConsume(l)
               \/ TickAdd(l) \/ TickRead(l) \/ TickArm(l)

------------------------------------------------------------------------------
(* The machine, the clock, crashes                                         *)

\* The claim and the end of a run stamp its ts, which covers a missed occurrence.
RunStarts(l) ==
    /\ busy[l] = "pending"
    /\ busy' = [busy EXCEPT ![l] = "running"]
    /\ missed' = [missed EXCEPT ![l] = FALSE]
    /\ UNCHANGED <<row, cron, timer, tick, job, resumes, boot, shot, jobs, restarts>>

RunEnds(l) ==
    /\ busy[l] # "none"
    /\ busy' = [busy EXCEPT ![l] = "none"]
    /\ missed' = [missed EXCEPT ![l] = FALSE]
    /\ UNCHANGED <<row, cron, timer, tick, job, resumes, boot, shot, jobs, restarts>>

Sooner(s) == IF s \in 1..Later THEN s - 1 ELSE s
Aged(r)   == [r EXCEPT !.next = Sooner(@)]

\* Time passes for every copy of a nextRunAt alike.
TimePasses ==
    /\ row' = [l \in Loops |-> Aged(row[l])]
    /\ timer' = [l \in Loops |-> Sooner(timer[l])]
    /\ tick' = [l \in Loops |-> [tick[l] EXCEPT !.seen = Aged(@)]]
    /\ job' = [j \in Jobs |-> [job[j] EXCEPT !.seen = Aged(@)]]
    /\ boot' = [boot EXCEPT !.seen = [l \in Loops |-> Aged(boot.seen[l])]]
    /\ <<row', timer', tick', job', boot'>> # <<row, timer, tick, job, boot>>
    /\ UNCHANGED <<busy, cron, resumes, missed, shot, jobs, restarts>>

\* The process dies and start() runs: the enabled loops are scheduled from their
\* rows, a past one-shot ticks at once, and any of them may have missed a fire.
Restart ==
    /\ restarts < MaxRestarts
    /\ restarts' = restarts + 1
    /\ LET on == {l \in Loops : row[l].state = "on"} IN
         /\ cron' = [l \in Loops |-> IF l \in on THEN row[l].expr ELSE None]
         /\ timer' = [l \in Loops |-> Shot(row[l])]
         /\ tick' = [l \in Loops |-> IF l \in on /\ row[l].next = 0 THEN [NoTick EXCEPT !.pc = "load"]
                                                                   ELSE NoTick]
         /\ boot' = [todo |-> on, seen |-> [l \in Loops |-> IF l \in on THEN row[l] ELSE NoRow],
                     at |-> None]
         /\ \E m \in SUBSET on : missed' = [l \in Loops |-> l \in m]
    /\ job' = [j \in Jobs |-> NoJob]
    /\ shot' = [l \in Loops |-> IF shot[l] = "taken" THEN "crashed" ELSE shot[l]]
    /\ resumes' = [l \in Loops |-> <<>>]
    /\ UNCHANGED <<row, busy, jobs>>

\* Mutant: the catch-up stands down for any one-shot, a future one included.
CatchUpTimid(l) ==
    /\ l \in boot.todo
    /\ boot.at # None => tick[boot.at].pc = "idle"
    /\ LET fires == boot.seen[l].next = None /\ missed[l] IN
         /\ tick' = IF fires THEN Started(l) ELSE tick
         /\ boot' = [boot EXCEPT !.todo = @ \ {l}, !.seen[l] = NoRow,
                                 !.at = IF fires THEN l ELSE None]
    /\ UNCHANGED <<row, busy, cron, timer, job, resumes, missed, shot, jobs, restarts>>

\* catchUpMissedFire: stand down for a past one-shot, else tick once and wait.
CatchUp(l) ==
    /\ l \in boot.todo
    /\ boot.at # None => tick[boot.at].pc = "idle"
    /\ LET fires == boot.seen[l].next # 0 /\ missed[l] IN
         /\ tick' = IF fires THEN Started(l) ELSE tick
         /\ boot' = [boot EXCEPT !.todo = @ \ {l}, !.seen[l] = NoRow,
                                 !.at = IF fires THEN l ELSE None]
    /\ UNCHANGED <<row, busy, cron, timer, job, resumes, missed, shot, jobs, restarts>>

Next == \/ \E j \in Jobs, l \in Loops : JobBegin(j, l) \/ JobReport(j, l) \/ JobDelete(j, l)
        \/ \E j \in Jobs : JobRead(j) \/ JobWrite(j) \/ JobApply(j)
        \/ \E l \in Loops : CronFire(l) \/ TimerFire(l) \/ TickStep(l) \/ CatchUp(l)
        \/ \E l \in Loops : RunStarts(l) \/ RunEnds(l)
        \/ TimePasses \/ Restart

\* Handlers in flight go on, timers fire, time passes and open runs close (the
\* sweep sees to that: OpenRunsClose of RunLifecycle).
Fairness ==
    /\ \A j \in Jobs : WF_vars(JobRead(j) \/ JobWrite(j) \/ JobApply(j))
    /\ \A l \in Loops : WF_vars(CronFire(l)) /\ WF_vars(TimerFire(l)) /\ WF_vars(TickStep(l))
                        /\ WF_vars(CatchUp(l)) /\ WF_vars(RunEnds(l))
    /\ WF_vars(TimePasses)

Spec == Init /\ [][Next]_vars /\ Fairness

------------------------------------------------------------------------------
(* Properties                                                              *)

Deleting(l) == \E j \in Jobs : job[j].op = "delete" /\ job[j].loop = l /\ job[j].pc # "idle"

\* Once the writers of a loop's row are through, the loop fires on the row's cron
\* expression if it is enabled, and not at all if it is paused: edits, the circuit
\* breaker, finished edit runs and a crash in any order leave no loop that silently
\* stopped and none on an old schedule.
CronMatchesRow ==
    \A l \in Loops : Stored(row[l]) /\ resumes[l] = <<>> /\ ~Deleting(l) =>
        cron[l] = IF row[l].state = "on" THEN row[l].expr ELSE None

\* A cron occurrence that fell into an outage is made up for: as long as nothing
\* answered it the boot sweep has the loop before it, a tick is under way, or a
\* one-shot is about to start one.
MissedIsCaughtUp ==
    \A l \in Loops : missed[l] => l \in boot.todo \/ tick[l].pc # "idle" \/ timer[l] = 0

\* A nextRunAt that is written is followed by a run made for it, though a run may be in
\* the way when it fires and its timer may be disarmed or its tick dropped, unless the
\* owner withdraws it or pauses the loop.  Three steps of the code take one away without
\* a run, and no other: finishEdit and finishEvolution clear one that has passed while
\* their run was open (or was written since they looked), a tick clears together with
\* the due one a later one written since it looked, and a crash falls between the
\* clearing and the run.
OneShotServed ==
    \A l \in Loops : shot[l] \in {"owed", "taken"}
                        ~> \/ shot[l] \in {"ran", "none"} \/ row[l].state # "on"
                           \/ shot[l] \in {"cleared", "replaced", "crashed"}

------------------------------------------------------------------------------
(* Statements made in the source that the code does not keep                *)

\* schema.ts:210, nextRunAt: "One-shot override: run once at this time, then resume
\* cron".  No one-shot is cleared unserved, and one that lies in the future is not
\* cleared behind the owner's or the run's back.
NoShotCleared == \A l \in Loops : shot[l] # "cleared"
FutureOneShotKept ==
    [][\A l \in Loops : row[l].next = Later /\ row'[l].state = "on" /\ row'[l].next = None
          => \E j \in Jobs : job[j].op = "patch" /\ job'[j].pc = "apply"]_vars
==============================================================================
