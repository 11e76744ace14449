----------------------------- MODULE RunLifecycle -----------------------------
(***************************************************************************)
(* The life of a run on the loopany server: the loop, run and lease rows   *)
(* of the database, and every handler that writes them.  The server is one *)
(* Node process: a handler runs alone up to its next await, so a handler   *)
(* with several awaits is several actions here, its local variables kept   *)
(* in a record per handler in flight.                                      *)
(*                                                                         *)
(*   tick     scheduler/index.ts   runLoop: create the next pending run    *)
(*   poll     gateway/index.ts     the daemon asks for work and claims it  *)
(*   sweep    gateway/index.ts     reclaims what went silent               *)
(*   report   gateway/index.ts     the daemon's answer, late ones included *)
(*   finish   gateway/index.ts     the agent declares the loop's goal met  *)
(*   cancel   server/loopApi.ts    the user stops a run                    *)
(*   deletion db/store.ts          the transaction that deletes a loop     *)
(*                                                                         *)
(* agent is the machine's side: the coding agent of a delivered run.       *)
(***************************************************************************)
EXTENDS Naturals

CONSTANTS
    Loops, Runs,          \* identities of loops; of run rows, each used once
    Fires,                \* slots for scheduler ticks in flight
    Polls, Sweeps,        \* slots for polls and sweeps in flight
    Reports, Finishes, Cancels,  \* slots for these requests in flight
    GoalLoops,            \* the loops that are created with a goal
    None,                 \* neither a loop nor a run
    DispatchMayThrow,     \* whether the Dispatcher may throw (MachineGateway's does not)
    OwnerOps,             \* which of the owner's operations are used
    MaxEdits,             \* bound: edit instructions the owner ever writes
    MaxRestarts           \* bound: server crashes

Operations == {"pause", "resume", "goal", "evolve", "delete"}

ASSUME ConstantsOK == /\ None \notin Loops /\ None \notin Runs
                      /\ GoalLoops \subseteq Loops
                      /\ DispatchMayThrow \in BOOLEAN
                      /\ OwnerOps \subseteq Operations
                      /\ MaxEdits \in Nat /\ MaxRestarts \in Nat

VARIABLES
    loop,      \* the loops table
    run,       \* the runs table
    lease,     \* the run_leases table
    online,    \* the machine's online flag
    inFlight,  \* Scheduler.running
    tick, poll, sweep, report, finish, cancel,   \* handlers in flight
    deletion,  \* the transaction that deletes a loop: the rows it has taken so far
    strays,    \* history: runs added, and seen by a poll, between a deletion and its commit
    agent,     \* the machine's side of each run
    edits,     \* edit instructions written so far
    restarts   \* server crashes so far

handlers == <<tick, poll, sweep, report, finish, cancel, inFlight>>
vars == <<loop, run, lease, online, handlers, deletion, strays, agent, edits, restarts>>

Roles  == {"exec", "evolve", "edit"}
Open   == {"pending", "running"}
Closed == {"done", "error", "canceled"}
Absent == {"unborn", "gone"}          \* no row: not yet, or deleted
Phases == Open \cup Closed \cup Absent

MaxReports == 2     \* the daemon sends a report at most twice

\* What a loop is: its row exists, cron fires it, it has a goal, it met the
\* goal (completedAt), an evolution is due (evolveDue).
Marks    == {"stored", "enabled", "goal", "completed", "evolve"}
\* edit is 0 or the number of the queued instruction.
LoopRow  == [is : SUBSET Marks, edit : 0..MaxEdits]
\* age: how long nothing was heard of an open run (0 once it is closed).  0: not long; 1: past
\* RUN_TIMEOUT_MS; 2 (a pending run only): past DEFERRED_MAX_MS.
\* edit: the instruction that was delivered with the run.
RunRow   == [phase : Phases, role : Roles, loop : Loops \cup {None},
             outcome : {"other", "skipped"}, age : 0..2, edit : 0..MaxEdits]
LeaseRow == [state : {"none", "active", "grace"}, caps : SUBSET {"finish"}]
Exits    == {"none", "ok", "failed"}
Agent    == [pc : {"none", "working", "ended", "quiet"}, exit : Exits,
             sent : 0..MaxReports]

Tick   == [pc : {"idle", "inspect", "retire", "dispatch", "rearm"},
           loop : Loops \cup {None}, role : Roles, todo : SUBSET Runs,
           run : Runs \cup {None}]
Poll   == [pc : {"idle", "next", "claim", "register"}, todo : SUBSET Runs,
           run : Runs \cup {None}, is : SUBSET {"goal"}, edit : 0..MaxEdits,
           got : SUBSET Runs]
Seen   == [run : Runs, phase : Open, age : 1..2]
Sweep  == [pc : {"idle", "next", "lease", "after"}, todo : SUBSET Seen,
           run : Runs \cup {None}]
Branch == {"unread", "ignored", "enrich", "reconcile", "final"}
Report == [pc : {"idle", "read", "write", "retire", "marker"},
           run : Runs \cup {None}, exit : Exits, via : {"none", "active", "grace"},
           branch : Branch]
Finish == [pc : {"idle", "check", "run", "loop"}, run : Runs \cup {None}]
Cancel == [pc : {"idle", "write"}, run : Runs \cup {None}]
Deletion == [pc : {"idle", "runs", "leases", "commit"}, runs : SUBSET Runs, leases : SUBSET Runs]

NoTick   == [pc |-> "idle", loop |-> None, role |-> "exec", todo |-> {}, run |-> None]
NoPoll   == [pc |-> "idle", todo |-> {}, run |-> None, is |-> {}, edit |-> 0, got |-> {}]
NoSweep  == [pc |-> "idle", todo |-> {}, run |-> None]
NoReport == [pc |-> "idle", run |-> None, exit |-> "none", via |-> "none", branch |-> "unread"]
NoFinish == [pc |-> "idle", run |-> None]
NoCancel == [pc |-> "idle", run |-> None]
NoDeletion == [pc |-> "idle", runs |-> {}, leases |-> {}]

TypeOK == /\ loop \in [Loops -> LoopRow]
          /\ run \in [Runs -> RunRow]
          /\ lease \in [Runs -> LeaseRow]
          /\ online \in BOOLEAN
          /\ inFlight \subseteq Loops
          /\ tick \in [Fires -> Tick]
          /\ poll \in [Polls -> Poll]
          /\ sweep \in [Sweeps -> Sweep]
          /\ report \in [Reports -> Report]
          /\ finish \in [Finishes -> Finish]
          /\ cancel \in [Cancels -> Cancel]
          /\ deletion \in [Loops -> Deletion] /\ strays \subseteq Runs
          /\ agent \in [Runs -> Agent]
          /\ edits \in 0..MaxEdits
          /\ restarts \in 0..MaxRestarts

Init == /\ loop = [l \in Loops |-> [edit |-> 0,
                      is |-> {m \in {"stored", "enabled", "goal"} : m = "goal" => l \in GoalLoops}]]
        /\ run = [r \in Runs |-> [phase |-> "unborn", role |-> "exec", loop |-> None,
                                  outcome |-> "other", age |-> 0, edit |-> 0]]
        /\ lease = [r \in Runs |-> [state |-> "none", caps |-> {}]]
        /\ online = FALSE
        /\ inFlight = {}
        /\ tick = [f \in Fires |-> NoTick]
        /\ poll = [p \in Polls |-> NoPoll]
        /\ sweep = [s \in Sweeps |-> NoSweep]
        /\ report = [x \in Reports |-> NoReport]
        /\ finish = [y \in Finishes |-> NoFinish]
        /\ cancel = [c \in Cancels |-> NoCancel]
        /\ deletion = [l \in Loops |-> NoDeletion] /\ strays = {}
        /\ agent = [r \in Runs |-> [pc |-> "none", exit |-> "none", sent |-> 0]]
        /\ edits = 0
        /\ restarts = 0

------------------------------------------------------------------------------
(* The store (db/store.ts, gateway/tokens.ts)                              *)

OpenRuns(l) == {r \in Runs : run[r].loop = l /\ run[r].phase \in Open}

\* updateRun: unconditional; it matches no row when the run does not exist.
WithPhase(r, ph) ==
    [run EXCEPT ![r] = IF @.phase \in Absent THEN @ ELSE [@ EXCEPT !.phase = ph, !.age = 0]]

\* supersedePendingRun: retires a run as skipped, only while it is pending.
Superseded(r) ==
    IF run[r].phase = "pending"
      THEN [run EXCEPT ![r] = [@ EXCEPT !.phase = "canceled", !.outcome = "skipped", !.age = 0]]
      ELSE run

Retired(r) == [lease EXCEPT ![r].state = "none"]

\* updateLoop: matches no row when the loop was deleted.
ClearMarker(l, role) ==
    CASE role = "edit"   -> [loop EXCEPT ![l].edit = 0]
      [] role = "evolve" -> [loop EXCEPT ![l].is = @ \ {"evolve"}]
      [] OTHER           -> loop

\* The failure streak may reach AUTOPAUSE_STREAK and pause the loop.
MayPause(l) ==
    loop' \in {loop, [loop EXCEPT ![l].is = @ \ {"enabled"}]}

\* maybeFlagEvolve: the cadence gates decide whether the marker is set.
MayFlagEvolve(l) ==
    loop' \in {loop, [loop EXCEPT ![l].is = @ \cup {"evolve"}]}

------------------------------------------------------------------------------
(* Scheduler.runLoop                                                       *)

tickOnly == <<lease, online, poll, sweep, report, finish, cancel, deletion, strays, agent, edits, restarts>>

\* Mutant: runLoop without the in-flight latch.
TickBeginTwice(f, l) ==
    /\ tick[f].pc = "idle"
    /\ {"stored", "enabled"} \subseteq loop[l].is
    /\ inFlight' = inFlight \cup {l}
    /\ tick' = [tick EXCEPT ![f] = [NoTick EXCEPT !.pc = "inspect", !.loop = l]]
    /\ UNCHANGED <<loop, run, tickOnly>>

\* A cron fire or a one-shot timer.  The loop row is read once, here.
TickBegin(f, l) ==
    /\ tick[f].pc = "idle"
    /\ l \notin inFlight
    /\ {"stored", "enabled"} \subseteq loop[l].is
    /\ inFlight' = inFlight \cup {l}
    /\ tick' = [tick EXCEPT ![f] = [NoTick EXCEPT !.pc = "inspect", !.loop = l,
                  !.role = IF loop[l].edit # 0 THEN "edit"
                           ELSE IF "evolve" \in loop[l].is THEN "evolve" ELSE "exec"]]
    /\ UNCHANGED <<loop, run, tickOnly>>

TickEnd(f) == /\ tick' = [tick EXCEPT ![f] = NoTick]
              /\ inFlight' = inFlight \ {tick[f].loop}

\* openRunsForLoop: whether this tick yields to a run that is already open.
TickYields(f) ==
    \E r \in OpenRuns(tick[f].loop) :
        \/ run[r].phase = "running"
        \/ tick[f].role # "exec"
        \/ run[r].role # "exec"

\* Mutant: the waiting runs are left in the queue.
TickInspectOnly(f) ==
    /\ tick[f].pc = "inspect"
    /\ IF TickYields(f) THEN TickEnd(f)
                        ELSE tick' = [tick EXCEPT ![f].pc = "retire"] /\ UNCHANGED inFlight
    /\ UNCHANGED <<loop, run, tickOnly>>

TickInspect(f) ==
    /\ tick[f].pc = "inspect"
    /\ IF TickYields(f)
         THEN TickEnd(f)
         ELSE /\ tick' = [tick EXCEPT ![f] = [@ EXCEPT !.pc = "retire", !.todo = OpenRuns(tick[f].loop)]]
              /\ UNCHANGED inFlight
    /\ UNCHANGED <<loop, run, tickOnly>>

\* One waiting run makes room; if it was claimed meanwhile the tick backs off.
TickRetire(f) ==
    /\ tick[f].pc = "retire"
    /\ \E r \in tick[f].todo :
         /\ run' = Superseded(r)
         /\ IF run[r].phase = "pending"
              THEN /\ tick' = [tick EXCEPT ![f].todo = @ \ {r}]
                   /\ UNCHANGED inFlight
              ELSE TickEnd(f)
    /\ UNCHANGED <<loop, tickOnly>>

\* addRun, for the loop as it was read: it may be gone or paused by now.
TickAdd(f) ==
    /\ tick[f].pc = "retire" /\ tick[f].todo = {}
    /\ \E r \in Runs :
         /\ run[r].phase = "unborn"
         /\ run' = [run EXCEPT ![r] = [@ EXCEPT !.phase = "pending", !.role = tick[f].role,
                                                     !.loop = tick[f].loop]]
         /\ tick' = [tick EXCEPT ![f] = [@ EXCEPT !.pc = "dispatch", !.run = r]]
    /\ UNCHANGED <<loop, inFlight, tickOnly>>

\* The dispatcher wakes the machine; a throw fails the run ...
TickDispatch(f) ==
    /\ tick[f].pc = "dispatch"
    /\ \/ TickEnd(f) /\ UNCHANGED run
       \/ /\ DispatchMayThrow
          /\ run' = WithPhase(tick[f].run, "error")
          /\ tick' = [tick EXCEPT ![f].pc = "rearm"]
          /\ UNCHANGED inFlight
    /\ UNCHANGED <<loop, tickOnly>>

\* ... and clears its marker.
TickUnmark(f) ==
    /\ tick[f].pc = "rearm"
    /\ loop' = ClearMarker(tick[f].loop, tick[f].role)
    /\ TickEnd(f)
    /\ UNCHANGED <<run, tickOnly>>

------------------------------------------------------------------------------
(* MachineGateway.poll                                                     *)

pollOnly == <<tick, inFlight, sweep, report, finish, cancel, deletion, edits, restarts>>

PollArrive(p) ==
    /\ poll[p].pc = "idle"
    /\ online' = TRUE
    /\ LET pending == {r \in Runs : run[r].phase = "pending"} IN
         poll' = IF pending = {} THEN poll
                 ELSE [poll EXCEPT ![p] = [NoPoll EXCEPT !.pc = "next", !.todo = pending]]
    /\ UNCHANGED <<loop, run, lease, agent, strays, pollOnly>>

\* A deletion under way has deleted the runs of the loop before this one was added.
Missed(l, r) == deletion[l].pc \in {"leases", "commit"} /\ r \notin deletion[l].runs

\* getLoop: a pending run whose loop is gone is failed, without a phase check.
PollLoad(p) ==
    /\ poll[p].pc = "next"
    /\ \E r \in poll[p].todo : LET l == run[r].loop IN
         IF "stored" \in loop[l].is
           THEN /\ poll' = [poll EXCEPT ![p] = [pc |-> "claim", todo |-> @.todo \ {r}, run |-> r,
                     is |-> loop[l].is \cap {"goal"}, edit |-> loop[l].edit, got |-> @.got]]
                /\ strays' = IF Missed(l, r) THEN strays \cup {r} ELSE strays
                /\ UNCHANGED run
           ELSE /\ poll' = [poll EXCEPT ![p].todo = @ \ {r}]
                /\ run' = WithPhase(r, "error")
                /\ UNCHANGED strays
    /\ UNCHANGED <<loop, lease, online, agent, pollOnly>>

\* On to the next pending run, with what was handed out so far.
NextOf(ps) == [NoPoll EXCEPT !.pc = "next", !.todo = ps.todo, !.got = ps.got]

\* Mutant: the claim also takes runs that are over.
PollClaimUnlessRunning(p) ==
    /\ poll[p].pc = "claim"
    /\ IF run[poll[p].run].phase # "running"
         THEN /\ run' = WithPhase(poll[p].run, "running")
              /\ poll' = [poll EXCEPT ![p].pc = "register"]
         ELSE poll' = [poll EXCEPT ![p] = NextOf(@)] /\ UNCHANGED run
    /\ UNCHANGED <<loop, lease, online, agent, strays, pollOnly>>

\* claimPendingRun: one conditional UPDATE; the loser skips the run.
PollClaim(p) ==
    /\ poll[p].pc = "claim"
    /\ LET r == poll[p].run IN
         IF run[r].phase = "pending"
           THEN /\ run' = [run EXCEPT ![r] = [@ EXCEPT !.phase = "running", !.age = 0]]
                /\ poll' = [poll EXCEPT ![p].pc = "register"]
           ELSE /\ poll' = [poll EXCEPT ![p] = NextOf(@)]
                /\ UNCHANGED run
    /\ UNCHANGED <<loop, lease, online, agent, strays, pollOnly>>

\* registerRunLease and buildDelivery, from the loop read before the claim.
PollRegister(p) ==
    /\ poll[p].pc = "register"
    /\ LET r == poll[p].run IN
         /\ lease' = [lease EXCEPT ![r] = [state |-> "active",
                        caps |-> IF run[r].role = "exec" /\ "goal" \in poll[p].is THEN {"finish"} ELSE {}]]
         /\ run' = [run EXCEPT ![r].edit =
                        IF run[r].role = "edit" THEN poll[p].edit ELSE 0]
         /\ poll' = [poll EXCEPT ![p] = NextOf([@ EXCEPT !.got = poll[p].got \cup {r}])]
    /\ UNCHANGED <<loop, online, agent, strays, pollOnly>>

\* The response reaches the daemon, which starts an agent per delivery ...
PollRespond(p) ==
    /\ poll[p].pc = "next" /\ poll[p].todo = {}
    /\ agent' = [r \in Runs |-> IF r \in poll[p].got
                                  THEN [pc |-> "working", exit |-> "none", sent |-> 0]
                                  ELSE agent[r]]
    /\ poll' = [poll EXCEPT ![p] = NoPoll]
    /\ UNCHANGED <<loop, run, lease, online, strays, pollOnly>>

\* ... or a failed query or a lost connection ends the poll with no answer.
PollAbort(p) ==
    /\ poll[p].pc # "idle"
    /\ poll' = [poll EXCEPT ![p] = NoPoll]
    /\ UNCHANGED <<loop, run, lease, online, agent, strays, pollOnly>>

\* A poll also carries progress for the runs in flight on the machine.
PollProgress(r) ==
    /\ agent[r].pc = "working"
    /\ online' = TRUE
    /\ run' = [run EXCEPT ![r].age = IF run[r].phase = "running" THEN 0 ELSE @]
    /\ UNCHANGED <<loop, lease, agent, poll, strays, pollOnly>>

------------------------------------------------------------------------------
(* MachineGateway.sweep                                                    *)

sweepOnly == <<tick, inFlight, poll, report, finish, cancel, deletion, strays, agent, edits, restarts>>

\* Time passes and nothing is heard of an open run.
Silence(r) ==
    /\ \/ run[r].phase = "pending" /\ run[r].age < 2
       \/ run[r].phase = "running" /\ run[r].age < 1
    /\ run' = [run EXCEPT ![r].age = @ + 1]
    /\ UNCHANGED <<loop, lease, online, handlers, deletion, strays, agent, edits, restarts>>

\* Mutant: openRuns returns the running ones only.
SweepBeginRunning(s) ==
    /\ sweep[s].pc = "idle"
    /\ online' \in {online, FALSE}
    /\ LET silent == {r \in Runs : run[r].phase = "running" /\ run[r].age > 0} IN
         sweep' = IF silent = {} THEN sweep
                  ELSE [sweep EXCEPT ![s] = [NoSweep EXCEPT !.pc = "next",
                          !.todo = {[run |-> r, phase |-> "running", age |-> 1] : r \in silent}]]
    /\ UNCHANGED <<loop, run, lease, sweepOnly>>

\* Marks the machine offline if its last poll is too old, and reads openRuns.
SweepBegin(s) ==
    /\ sweep[s].pc = "idle"
    /\ online' \in {online, FALSE}
    /\ LET silent == {r \in Runs : run[r].phase \in Open /\ run[r].age > 0} IN
         sweep' = IF silent = {} THEN sweep
                  ELSE [sweep EXCEPT ![s] = [NoSweep EXCEPT !.pc = "next",
                          !.todo = {[run |-> r, phase |-> run[r].phase, age |-> run[r].age] :
                                    r \in silent}]]
    /\ UNCHANGED <<loop, run, lease, sweepOnly>>

\* Mutant: reclaimRun gives the lease its grace without failing the run.
SweepReclaimLease(s) ==
    /\ sweep[s].pc = "next"
    /\ \E seen \in sweep[s].todo :
         /\ seen.phase = "running" \/ online
         /\ sweep' = [sweep EXCEPT ![s] = [pc |-> "lease", run |-> seen.run,
                                                 todo |-> @.todo \ {seen}]]
    /\ UNCHANGED <<loop, run, lease, online, sweepOnly>>

\* reclaimRun: fails the run the sweep READ as stuck, whatever it is by now.
SweepReclaim(s) ==
    /\ sweep[s].pc = "next"
    /\ \E seen \in sweep[s].todo :
         /\ seen.phase = "running" \/ online
         /\ run' = WithPhase(seen.run, "error")
         /\ sweep' = [sweep EXCEPT ![s] = [pc |-> "lease", run |-> seen.run,
                                                 todo |-> @.todo \ {seen}]]
    /\ UNCHANGED <<loop, lease, online, sweepOnly>>

\* terminalizeLease: only an active lease flips.
SweepTerminalize(s) ==
    /\ sweep[s].pc = "lease"
    /\ LET r == sweep[s].run IN
         lease' = [lease EXCEPT ![r].state = IF @ = "active" THEN "grace" ELSE @]
    /\ sweep' = [sweep EXCEPT ![s].pc = "after"]
    /\ UNCHANGED <<loop, run, online, sweepOnly>>

\* An evolve marker is cleared; a failed exec run counts towards the breaker.
SweepAfter(s) ==
    /\ sweep[s].pc = "after"
    /\ LET r == sweep[s].run IN
         \/ /\ run[r].role = "exec"
            /\ MayPause(run[r].loop)
         \/ /\ run[r].role # "exec"
            /\ loop' = IF run[r].role = "evolve"
                         THEN ClearMarker(run[r].loop, "evolve") ELSE loop
    /\ sweep' = [sweep EXCEPT ![s] = [@ EXCEPT !.pc = "next", !.run = None]]
    /\ UNCHANGED <<run, lease, online, sweepOnly>>

\* A pending run of an offline machine is held, until DEFERRED_MAX_MS.
SweepDefer(s) ==
    /\ sweep[s].pc = "next"
    /\ ~online
    /\ \E seen \in sweep[s].todo :
         /\ seen.phase = "pending"
         /\ run' = IF seen.age = 2 THEN Superseded(seen.run) ELSE run
         /\ sweep' = [sweep EXCEPT ![s].todo = @ \ {seen}]
    /\ UNCHANGED <<loop, lease, online, sweepOnly>>

SweepEnd(s) ==
    /\ sweep[s].pc = "next" /\ sweep[s].todo = {}
    /\ sweep' = [sweep EXCEPT ![s] = NoSweep]
    /\ UNCHANGED <<loop, run, lease, online, sweepOnly>>

\* TERMINAL_GRACE_MS passes: the lease no longer resolves.
GraceElapses(r) ==
    /\ lease[r].state = "grace"
    /\ lease' = Retired(r)
    /\ UNCHANGED <<loop, run, online, handlers, deletion, strays, agent, edits, restarts>>

------------------------------------------------------------------------------
(* The machine: the daemon's runDelivery and its agent                     *)

machineOnly == <<loop, run, lease, online, handlers, deletion, strays, edits, restarts>>

AgentEnds(r) ==
    /\ agent[r].pc = "working"
    /\ \E exit \in {"ok", "failed"} :
         agent' = [agent EXCEPT ![r] = [pc |-> "ended", exit |-> exit, sent |-> 0]]
    /\ UNCHANGED machineOnly

\* The daemon is killed, or gives up reporting.
AgentDies(r) ==
    /\ agent[r].pc \in {"working", "ended"}
    /\ agent' = [agent EXCEPT ![r] = [pc |-> "quiet", exit |-> "none", sent |-> 0]]
    /\ UNCHANGED machineOnly

------------------------------------------------------------------------------
(* MachineGateway.report                                                   *)

reportOnly == <<online, tick, inFlight, poll, sweep, finish, cancel, deletion, strays, edits, restarts>>

\* Mutant: a report is admitted on a retired lease.
ReportArriveUnchecked(x, r) ==
    /\ agent[r].pc = "ended" /\ agent[r].sent < MaxReports
    /\ report[x].pc = "idle"
    /\ agent' = [agent EXCEPT ![r].sent = @ + 1]
    /\ report' = [report EXCEPT ![x] = [pc |-> "read", run |-> r, exit |-> agent[r].exit,
                    via |-> lease[r].state, branch |-> "unread"]]
    /\ UNCHANGED <<loop, run, lease, reportOnly>>

\* The daemon sends its report, a second time if the first was not answered.
\* resolveLease: an unknown token is answered 401, which ends the matter.
ReportArrive(x, r) ==
    /\ agent[r].pc = "ended" /\ agent[r].sent < MaxReports
    /\ report[x].pc = "idle"
    /\ IF lease[r].state = "none"
         THEN /\ agent' = [agent EXCEPT ![r].pc = "quiet"]
              /\ UNCHANGED report
         ELSE /\ agent' = [agent EXCEPT ![r].sent = @ + 1]
              /\ report' = [report EXCEPT ![x] = [pc |-> "read", run |-> r,
                              exit |-> agent[r].exit, via |-> lease[r].state,
                              branch |-> "unread"]]
    /\ UNCHANGED <<loop, run, lease, reportOnly>>

\* The answer is received, or lost with the connection.
ReportAnswer(x) ==
    /\ report' = [report EXCEPT ![x] = NoReport]
    /\ \E pc \in {agent[report[x].run].pc, "quiet"} :
         agent' = [agent EXCEPT ![report[x].run].pc = pc]

ReportRead(x) ==
    /\ report[x].pc = "read"
    /\ LET ph == run[report[x].run].phase
           branch == IF ph = "canceled" THEN "ignored"
                     ELSE IF ph = "done" THEN "enrich"
                     ELSE IF ph = "error" /\ report[x].via = "grace" THEN "reconcile"
                     ELSE "final"
       IN report' = [report EXCEPT ![x] = [@ EXCEPT !.branch = branch,
                       !.pc = IF branch \in {"ignored", "enrich"} THEN "retire" ELSE "write"]]
    /\ UNCHANGED <<loop, run, lease, agent, reportOnly>>

ReportWrite(x) ==
    /\ report[x].pc = "write"
    /\ run' = WithPhase(report[x].run, IF report[x].exit = "ok" THEN "done" ELSE "error")
    /\ report' = [report EXCEPT ![x].pc = "retire"]
    /\ UNCHANGED <<loop, lease, agent, reportOnly>>

\* Enriching and reconciling reports end here.
ReportRetire(x) ==
    /\ report[x].pc = "retire"
    /\ lease' = Retired(report[x].run)
    /\ IF report[x].branch \in {"enrich", "reconcile"}
         THEN ReportAnswer(x)
         ELSE /\ report' = [report EXCEPT ![x].pc = "marker"]
              /\ UNCHANGED agent
    /\ UNCHANGED <<loop, run, reportOnly>>

ReportMarker(x) ==
    /\ report[x].pc = "marker"
    /\ LET r == report[x].run  l == run[r].loop IN
         \/ /\ run[r].role # "exec"
            /\ loop' = ClearMarker(l, run[r].role)
         \/ /\ run[r].role = "exec" /\ report[x].branch = "ignored"
            /\ UNCHANGED loop
         \/ /\ run[r].role = "exec" /\ report[x].branch = "final"
            /\ IF report[x].exit = "ok" THEN MayFlagEvolve(l) ELSE MayPause(l)
    /\ ReportAnswer(x)
    /\ UNCHANGED <<run, lease, reportOnly>>

------------------------------------------------------------------------------
(* MachineGateway.finishLoop, called by the agent through `loopany finish` *)

finishOnly == <<online, tick, inFlight, poll, sweep, report, cancel, deletion, strays, agent, lease, edits, restarts>>

\* A reclaimed run's lease is refused; canFinish was fixed when it was minted.
FinishArrive(y, r) ==
    /\ finish[y].pc = "idle"
    /\ agent[r].pc = "working"
    /\ lease[r].state = "active" /\ "finish" \in lease[r].caps
    /\ finish' = [finish EXCEPT ![y] = [pc |-> "check", run |-> r]]
    /\ UNCHANGED <<loop, run, finishOnly>>

\* Refused if the goal was cleared since, or the loop is already completed.
FinishCheck(y) ==
    /\ finish[y].pc = "check"
    /\ LET is == loop[run[finish[y].run].loop].is IN
         finish' = [finish EXCEPT ![y] = IF {"stored", "goal"} \subseteq is /\ "completed" \notin is
                                           THEN [@ EXCEPT !.pc = "run"] ELSE NoFinish]
    /\ UNCHANGED <<loop, run, finishOnly>>

FinishRun(y) ==
    /\ finish[y].pc = "run"
    /\ run' = WithPhase(finish[y].run, "done")
    /\ finish' = [finish EXCEPT ![y].pc = "loop"]
    /\ UNCHANGED <<loop, finishOnly>>

FinishLoop(y) ==
    /\ finish[y].pc = "loop"
    /\ loop' = [loop EXCEPT ![run[finish[y].run].loop].is = (@ \cup {"completed"}) \ {"enabled"}]
    /\ finish' = [finish EXCEPT ![y] = NoFinish]
    /\ UNCHANGED <<run, finishOnly>>

------------------------------------------------------------------------------
(* The user: server/loopApi.ts                                             *)

cancelOnly == <<loop, lease, online, tick, inFlight, poll, sweep, report, finish,
                deletion, strays, agent, edits, restarts>>

CancelRead(c, r) ==
    /\ cancel[c].pc = "idle"
    /\ run[r].phase \in Open
    /\ cancel' = [cancel EXCEPT ![c] = [pc |-> "write", run |-> r]]
    /\ UNCHANGED <<run, cancelOnly>>

CancelWrite(c) ==
    /\ cancel[c].pc = "write"
    /\ run' = WithPhase(cancel[c].run, "canceled")
    /\ cancel' = [cancel EXCEPT ![c] = NoCancel]
    /\ UNCHANGED cancelOnly

ownerOnly == <<online, handlers, strays, agent, restarts>>

\* A patch of the loop row; clearing the goal, or enabling a completed loop,
\* drops the completion stamps (updateLoop).
Pause(l) ==
    /\ "pause" \in OwnerOps /\ {"stored", "enabled"} \subseteq loop[l].is
    /\ loop' = [loop EXCEPT ![l].is = @ \ {"enabled"}]
    /\ UNCHANGED <<run, lease, deletion, edits, ownerOnly>>

Resume(l) ==
    /\ "resume" \in OwnerOps /\ "stored" \in loop[l].is /\ "enabled" \notin loop[l].is
    /\ loop' = [loop EXCEPT ![l].is = (@ \cup {"enabled"}) \ {"completed"}]
    /\ UNCHANGED <<run, lease, deletion, edits, ownerOnly>>

SetGoal(l) ==
    /\ "goal" \in OwnerOps /\ "stored" \in loop[l].is /\ "goal" \notin loop[l].is
    /\ loop' = [loop EXCEPT ![l].is = @ \cup {"goal"}]
    /\ UNCHANGED <<run, lease, deletion, edits, ownerOnly>>

ClearGoal(l) ==
    /\ "goal" \in OwnerOps /\ {"stored", "goal"} \subseteq loop[l].is
    /\ loop' = [loop EXCEPT ![l].is = @ \ {"goal", "completed"}]
    /\ UNCHANGED <<run, lease, deletion, edits, ownerOnly>>

EvolveNow(l) ==
    /\ "evolve" \in OwnerOps /\ "stored" \in loop[l].is /\ "evolve" \notin loop[l].is
    /\ loop' = [loop EXCEPT ![l].is = @ \cup {"evolve"}]
    /\ UNCHANGED <<run, lease, deletion, edits, ownerOnly>>

\* requestEdit overwrites an instruction that is still queued.
RequestEdit(l) ==
    /\ "stored" \in loop[l].is /\ edits < MaxEdits
    /\ edits' = edits + 1
    /\ loop' = [loop EXCEPT ![l].edit = edits + 1]
    /\ UNCHANGED <<run, lease, deletion, ownerOnly>>

\* deleteLoop: one READ COMMITTED transaction, a statement at a time.  The rows it has
\* deleted are locked, and there for everybody else, until it commits.
Taking(l, d) == /\ deletion' = [deletion EXCEPT ![l] = d]
                /\ UNCHANGED <<loop, run, lease, edits, ownerOnly>>

DeleteBegin(l) ==
    /\ "delete" \in OwnerOps /\ "stored" \in loop[l].is
    /\ deletion[l].pc = "idle"
    /\ Taking(l, [NoDeletion EXCEPT !.pc = "runs"])

\* Mutant: deleteLoop leaves the runs of the loop.
DeleteRunsNot(l) ==
    /\ deletion[l].pc = "runs"
    /\ Taking(l, [deletion[l] EXCEPT !.pc = "leases"])

DeleteRuns(l) ==
    /\ deletion[l].pc = "runs"
    /\ Taking(l, [deletion[l] EXCEPT !.pc = "leases",
                    !.runs = {r \in Runs : run[r].loop = l /\ run[r].phase \notin Absent}])

DeleteLeases(l) ==
    /\ deletion[l].pc = "leases"
    /\ Taking(l, [deletion[l] EXCEPT !.pc = "commit",
                    !.leases = {r \in Runs : run[r].loop = l /\ lease[r].state # "none"}])

DeleteCommit(l) ==
    /\ deletion[l].pc = "commit"
    /\ loop' = [loop EXCEPT ![l].is = @ \ {"stored"}]
    /\ run' = [r \in Runs |-> IF r \in deletion[l].runs THEN [run[r] EXCEPT !.phase = "gone", !.age = 0] ELSE run[r]]
    /\ lease' = [r \in Runs |-> IF r \in deletion[l].leases THEN [lease[r] EXCEPT !.state = "none"] ELSE lease[r]]
    /\ deletion' = [deletion EXCEPT ![l] = NoDeletion]
    /\ UNCHANGED <<edits, ownerOnly>>

\* Whoever else writes a row that a deletion has taken waits for the commit.
LocksKept ==
    \A l \in Loops : deletion[l].pc # "idle" =>
        /\ loop'[l] = loop[l]
        /\ \A r \in deletion[l].runs : run'[r].phase = run[r].phase
        /\ \A r \in deletion[l].leases : lease'[r] = lease[r]

\* A crash or a deploy: the rows survive, everything in flight is lost.
Restart ==
    /\ restarts < MaxRestarts
    /\ restarts' = restarts + 1
    /\ inFlight' = {}
    /\ tick' = [f \in Fires |-> NoTick]
    /\ poll' = [p \in Polls |-> NoPoll]
    /\ sweep' = [s \in Sweeps |-> NoSweep]
    /\ report' = [x \in Reports |-> NoReport]
    /\ finish' = [y \in Finishes |-> NoFinish]
    /\ cancel' = [c \in Cancels |-> NoCancel]
    /\ deletion' = [l \in Loops |-> NoDeletion]
    /\ UNCHANGED <<loop, run, lease, online, strays, agent, edits>>

------------------------------------------------------------------------------
TickStep(f) == \/ \E l \in Loops : TickBegin(f, l)
               \/ TickInspect(f) \/ TickRetire(f) \/ TickAdd(f)
               \/ TickDispatch(f) \/ TickUnmark(f)
PollStep(p) == \/ PollArrive(p) \/ PollLoad(p) \/ PollClaim(p)
               \/ PollRegister(p) \/ PollRespond(p) \/ PollAbort(p)
SweepStep(s) == \/ SweepBegin(s) \/ SweepReclaim(s) \/ SweepTerminalize(s)
                \/ SweepAfter(s) \/ SweepDefer(s) \/ SweepEnd(s)
ReportStep(x) == \/ \E r \in Runs : ReportArrive(x, r)
                 \/ ReportRead(x) \/ ReportWrite(x) \/ ReportRetire(x) \/ ReportMarker(x)
FinishStep(y) == \/ \E r \in Runs : FinishArrive(y, r)
                 \/ FinishCheck(y) \/ FinishRun(y) \/ FinishLoop(y)
CancelStep(c) == (\E r \in Runs : CancelRead(c, r)) \/ CancelWrite(c)
MachineStep(r) == PollProgress(r) \/ Silence(r) \/ GraceElapses(r) \/ AgentEnds(r) \/ AgentDies(r)
OwnerStep(l) == \/ Pause(l) \/ Resume(l) \/ SetGoal(l) \/ ClearGoal(l)
                \/ EvolveNow(l) \/ RequestEdit(l)
DeleteStep(l) == DeleteBegin(l) \/ DeleteRuns(l) \/ DeleteLeases(l) \/ DeleteCommit(l)

Step == \/ \E f \in Fires : TickStep(f)
        \/ \E p \in Polls : PollStep(p)
        \/ \E s \in Sweeps : SweepStep(s)
        \/ \E x \in Reports : ReportStep(x)
        \/ \E y \in Finishes : FinishStep(y)
        \/ \E c \in Cancels : CancelStep(c)
        \/ \E r \in Runs : MachineStep(r)
        \/ \E l \in Loops : OwnerStep(l)

Next == \/ Step /\ LocksKept
        \/ \E l \in Loops : DeleteStep(l)
        \/ Restart

Spec == Init /\ [][Next]_vars

\* The sweep is a timer, time passes, an agent ends or is killed, and a transaction that
\* has begun commits.  Nothing is assumed of the daemon's polls and reports, of the owner,
\* or of ticks.
Committing(l) == DeleteRuns(l) \/ DeleteLeases(l) \/ DeleteCommit(l)
Fairness == /\ \A l \in Loops : WF_vars(Committing(l))
            /\ \A s \in Sweeps : WF_vars(SweepStep(s))
            /\ \A r \in Runs : WF_vars(Silence(r)) /\ WF_vars(AgentEnds(r) \/ AgentDies(r))

FairSpec == Spec /\ Fairness

------------------------------------------------------------------------------
(* Safety                                                                  *)

\* The queue of a loop has depth one: however cron fires, one-shots, polls,
\* sweeps, restarts and deletions interleave, a loop never has two open runs.
OneOpenRun ==
    \A r, q \in Runs :
        /\ run[r].phase \in Open /\ run[q].phase \in Open
        /\ run[r].loop = run[q].loop
        => r = q

\* Runs a poll has claimed and not yet answered with.
Held(p) == poll[p].got \cup (IF poll[p].pc = "register" THEN {poll[p].run} ELSE {})

\* A run is handed out once: no two polls in flight carry the same run, and a
\* poll never carries a run that already has, or had, an agent.
ClaimedOnce ==
    \A p \in Polls : \A r \in Held(p) :
        /\ agent[r].pc = "none"
        /\ \A q \in Polls \ {p} : r \notin Held(q)

\* A run recorded as skipped really did not run: no poll carries it, it has no
\* lease and no agent ever worked on it.
SkippedNeverStarted ==
    \A r \in Runs : run[r].outcome = "skipped" =>
        /\ lease[r].state = "none"
        /\ agent[r].pc = "none"
        /\ \A p \in Polls : r \notin Held(p)

\* No machine works for a loop that is gone: deleting it takes its runs along, and a run
\* that a tick still in flight adds afterwards is never claimed.  The one way around it is
\* a run that is added and read by a poll, both between the deletion of the loop's runs
\* and its commit: runs have no foreign key, and the poll still sees the loop.
RunningHasLoop ==
    \A r \in Runs : run[r].phase = "running" /\ r \notin strays => "stored" \in loop[run[r].loop].is

\* A lease in its grace window belongs to a run that is over, so a late report
\* it admits can never race the run's own, still open, execution.
GraceIsOver == \A r \in Runs : lease[r].state = "grace" => run[r].phase \notin Open

\* A run that left the queue never comes back to it, and is never claimed again.
NeverReopened ==
    [][\A r \in Runs : run[r].phase \in Closed \cup {"gone"} => run'[r].phase \notin Open]_vars

\* Handlers in flight that may still write the row of run r.
Touching(r) ==
    \/ \E f \in Fires : tick[f].run = r
    \/ \E p \in Polls : r \in poll[p].todo \/ poll[p].run = r
    \/ \E s \in Sweeps : sweep[s].run = r \/ \E seen \in sweep[s].todo : seen.run = r
    \/ \E x \in Reports : report[x].run = r
    \/ \E y \in Finishes : finish[y].run = r
    \/ \E c \in Cancels : cancel[c].run = r

Settled(r) == run[r].phase \in Closed /\ lease[r].state = "none" /\ ~Touching(r)

\* The verdict on a run is settled once its lease is retired and the handlers
\* that were in flight at that moment are through: no repeated report, second
\* finish, stop button, poll or sweep takes the run up again later.
SettledIsFinal ==
    [][\A r \in Runs : Settled(r) =>
         \/ run'[r].phase = "gone"
         \/ run'[r].phase = run[r].phase /\ Settled(r)']_vars

\* The inbox of a loop is one slot (RunSlot).
StageOf(ph) == CASE ph = "unborn"  -> "unborn"
                 [] ph = "pending" -> "waiting"
                 [] ph = "running" -> "working"
                 [] OTHER          -> "over"

Slot == INSTANCE RunSlot WITH stage <- [r \in Runs |-> StageOf(run[r].phase)],
                              owner <- [r \in Runs |-> run[r].loop]

ImplementsSlot == Slot!Spec

------------------------------------------------------------------------------
(* The inductive invariant behind the safety properties                    *)

\* A run has a loop from its creation on.
RowsOK == \A r \in Runs : run[r].phase = "unborn" <=> run[r].loop = None

\* A tick in flight holds the in-flight mark of its loop alone, and once it has
\* decided to add a run, only runs it still has to retire can be open.
TicksOK ==
    /\ \A f \in Fires : tick[f].pc # "idle" => tick[f].loop \in inFlight
    /\ \A f, g \in Fires : tick[f].pc # "idle" /\ tick[g].pc # "idle"
                           /\ tick[f].loop = tick[g].loop => f = g
    /\ \A f \in Fires : tick[f].pc = "retire" => OpenRuns(tick[f].loop) \subseteq tick[f].todo
    /\ \A f \in Fires : tick[f].pc \in {"dispatch", "rearm"} =>
                           tick[f].run \in Runs /\ run[tick[f].run].phase # "unborn"

\* Nobody has touched a run that was not claimed.
UnclaimedOK ==
    \A r \in Runs : run[r].phase \in {"unborn", "pending"} =>
        /\ run[r].outcome = "other" /\ lease[r].state = "none" /\ agent[r].pc = "none"
        /\ \A p \in Polls : r \notin Held(p)

\* What a poll has read: existing runs; the one it claims next has a loop.
PollsOK ==
    \A p \in Polls :
        /\ \A r \in poll[p].todo : run[r].phase # "unborn"
        /\ poll[p].pc \in {"claim", "register"} =>
             poll[p].run \in Runs /\ run[poll[p].run].phase # "unborn"
        /\ poll[p].pc = "claim" /\ run[poll[p].run].phase = "pending" /\ poll[p].run \notin strays =>
             "stored" \in loop[run[poll[p].run].loop].is

\* A deletion past the runs has taken every run that a machine works on, or may soon.
DeletionsOK ==
    \A l \in Loops :
        /\ deletion[l].pc # "idle" => "stored" \in loop[l].is
        /\ \A r \in deletion[l].runs : run[r].loop = l
        /\ deletion[l].pc \in {"leases", "commit"} => \A r \in Runs \ (strays \cup deletion[l].runs) :
             run[r].loop = l /\ run[r].phase \in Open =>
               run[r].phase = "pending" /\ \A p \in Polls : poll[p].pc = "claim" => poll[p].run # r

\* What a sweep has read; a lease is terminalized for a run that is over.
SweepsOK ==
    \A s \in Sweeps :
        /\ \A seen \in sweep[s].todo : run[seen.run].phase # "unborn"
        /\ sweep[s].pc \in {"lease", "after"} =>
             sweep[s].run \in Runs /\ run[sweep[s].run].phase \notin Open \cup {"unborn"}

\* A handler that was admitted by a lease, or by a row, works on a run that exists.
RequestsOK ==
    /\ \A x \in Reports : report[x].pc # "idle" =>
         /\ report[x].run \in Runs /\ run[report[x].run].phase # "unborn"
         /\ agent[report[x].run].pc # "none"
    /\ \A y \in Finishes : finish[y].pc # "idle" =>
         finish[y].run \in Runs /\ run[finish[y].run].phase # "unborn"
    /\ \A c \in Cancels : cancel[c].pc # "idle" =>
         cancel[c].run \in Runs /\ run[cancel[c].run].phase # "unborn"

IInv == /\ TypeOK /\ RowsOK /\ TicksOK /\ UnclaimedOK /\ PollsOK /\ DeletionsOK /\ SweepsOK /\ RequestsOK
        /\ OneOpenRun /\ ClaimedOnce /\ SkippedNeverStarted /\ GraceIsOver /\ RunningHasLoop

------------------------------------------------------------------------------
(* Liveness, under FairSpec                                                *)

\* No run stays open for ever: a delivery that was lost, an agent that died, a
\* report that never came and a machine that never polls all end in the sweep.
OpenRunsClose ==
    \A r \in Runs : run[r].phase \in Open ~> run[r].phase \notin Open

------------------------------------------------------------------------------
(* Statements made in the source that the code does not keep               *)

\* cancelRun: a stopped run stays stopped.
CanceledSticks ==
    [][\A r \in Runs : run[r].phase = "canceled" => run'[r].phase \in {"canceled", "gone"}]_vars

\* sweep, reclaimRun: a run that reported success is not failed afterwards.
NeverFalselyFailed ==
    [][\A r \in Runs : run[r].phase = "done" => run'[r].phase # "error"]_vars

\* requestEdit: the instruction the owner queued reaches an agent, before a
\* report clears the marker.  (A failed dispatch drops it knowingly.)
EditDelivered ==
    [][\A l \in Loops : loop[l].edit # 0 /\ loop'[l].edit = 0 =>
         \/ \E r \in Runs : run[r].edit = loop[l].edit
         \/ \E f \in Fires : tick[f].pc = "rearm" /\ tick[f].loop = l]_vars
=============================================================================
