------------------------- MODULE RunLifecycleProofs --------------------------
(*****************************************************************************)
(* The inductive invariant of RunLifecycle, the safety properties it implies, *)
(* and the refinement of the one-slot inbox (RunSlot), for every number of   *)
(* loops, runs and handlers in flight.                                       *)
(*                                                                           *)
(* First, what a step can do to each table: that no step takes a row or a    *)
(* handler in flight out of its type, one lemma per group of actions; the    *)
(* lemmas about single rows come before, because the provers take an update  *)
(* of a record one field at a time.                                          *)
(*                                                                           *)
(* Then, almost every action is calm for almost every table: it closes runs, *)
(* ends leases, starts no agent, deletes no loop and takes up no run.  The   *)
(* lemmas name the one action that is not.  The invariance proofs that       *)
(* follow rest on these lemmas alone and seldom look into an action.         *)
(*****************************************************************************)
EXTENDS RunLifecycle, TLAPS

\* Setting the phase of a run and resetting its age (updateRun) gives a run row.
LEMMA RunClosed == ASSUME NEW x \in RunRow, NEW ph \in Phases
                   PROVE  [x EXCEPT !.phase = ph, !.age = 0] \in RunRow
  <1> DEFINE y == [x EXCEPT !.phase = ph]
  <1>1. y \in RunRow  BY DEF RunRow
  <1>2. [y EXCEPT !.age = 0] = [x EXCEPT !.phase = ph, !.age = 0]  BY Zenon
  <1> HIDE DEF y
  <1> QED  BY <1>1, <1>2 DEF RunRow

\* Retiring a run as skipped (supersedePendingRun) gives a run row.
LEMMA RunSkipped == ASSUME NEW x \in RunRow
                    PROVE  [x EXCEPT !.phase = "canceled", !.outcome = "skipped", !.age = 0] \in RunRow
  <1> DEFINE y == [x EXCEPT !.phase = "canceled"]
             z == [y EXCEPT !.outcome = "skipped"]
  <1>1. y \in RunRow  BY DEF RunRow, Phases, Closed
  <1>3. [z EXCEPT !.age = 0] = [x EXCEPT !.phase = "canceled", !.outcome = "skipped", !.age = 0]  BY Zenon
  <1> HIDE DEF y
  <1>2. z \in RunRow  BY <1>1 DEF RunRow
  <1> HIDE DEF z
  <1> QED  BY <1>2, <1>3 DEF RunRow

\* Creating a run (addRun) gives a run row.
LEMMA RunCreated == ASSUME NEW x \in RunRow, NEW ro \in Roles, NEW l \in Loops
                    PROVE  [x EXCEPT !.phase = "pending", !.role = ro, !.loop = l] \in RunRow
  <1> DEFINE y == [x EXCEPT !.phase = "pending"]
             z == [y EXCEPT !.role = ro]
  <1>1. y \in RunRow  BY DEF RunRow, Phases, Open
  <1>3. [z EXCEPT !.loop = l] = [x EXCEPT !.phase = "pending", !.role = ro, !.loop = l]  BY Zenon
  <1> HIDE DEF y
  <1>2. z \in RunRow  BY <1>1 DEF RunRow
  <1> HIDE DEF z
  <1> QED  BY <1>2, <1>3 DEF RunRow

\* A poll that has just read the pending runs is a poll in flight.
LEMMA PollStarted == ASSUME ConstantsOK, NEW S \in SUBSET Runs
                     PROVE  [NoPoll EXCEPT !.pc = "next", !.todo = S] \in Poll
  <1> DEFINE y == [NoPoll EXCEPT !.pc = "next"]
  <1>1. y \in Poll  BY DEF ConstantsOK, Poll, NoPoll
  <1>2. [y EXCEPT !.todo = S] = [NoPoll EXCEPT !.pc = "next", !.todo = S]  BY Zenon
  <1> HIDE DEF y
  <1> QED  BY <1>1, <1>2 DEF Poll

\* A poll that goes on to its next run is a poll in flight.
LEMMA NextOfType == ASSUME ConstantsOK, NEW ps \in Poll PROVE NextOf(ps) \in Poll
  <1> DEFINE y == [NoPoll EXCEPT !.pc = "next", !.todo = ps.todo]
  <1>1. y \in Poll /\ ps.got \in SUBSET Runs  BY PollStarted DEF Poll
  <1>2. [y EXCEPT !.got = ps.got] = NextOf(ps)  BY Zenon DEF NextOf
  <1> HIDE DEF y
  <1> QED  BY <1>1, <1>2 DEF Poll

\* A tick that has read the open runs of its loop is a tick in flight.
LEMMA TickRetiring == ASSUME NEW x \in Tick, NEW S \in SUBSET Runs
                      PROVE  [x EXCEPT !.pc = "retire", !.todo = S] \in Tick
  <1> DEFINE y == [x EXCEPT !.pc = "retire"]
  <1>1. y \in Tick  BY DEF Tick
  <1>2. [y EXCEPT !.todo = S] = [x EXCEPT !.pc = "retire", !.todo = S]  BY Zenon
  <1> HIDE DEF y
  <1> QED  BY <1>1, <1>2 DEF Tick

\* A tick that has added its run is a tick in flight.
LEMMA TickAdded == ASSUME NEW x \in Tick, NEW r \in Runs
                   PROVE  [x EXCEPT !.pc = "dispatch", !.run = r] \in Tick
  <1> DEFINE y == [x EXCEPT !.pc = "dispatch"]
  <1>1. y \in Tick  BY DEF Tick
  <1>2. [y EXCEPT !.run = r] = [x EXCEPT !.pc = "dispatch", !.run = r]  BY Zenon
  <1> HIDE DEF y
  <1> QED  BY <1>1, <1>2 DEF Tick

\* A sweep that goes on to its next run is a sweep in flight.
LEMMA SweepNext == ASSUME NEW x \in Sweep
                   PROVE  [x EXCEPT !.pc = "next", !.run = None] \in Sweep
  <1> DEFINE y == [x EXCEPT !.pc = "next"]
  <1>1. y \in Sweep  BY DEF Sweep
  <1>2. [y EXCEPT !.run = None] = [x EXCEPT !.pc = "next", !.run = None]  BY Zenon
  <1> HIDE DEF y
  <1> QED  BY <1>1, <1>2 DEF Sweep

\* A report that has read its run and chosen a branch is a report in flight.
LEMMA ReportBranched == ASSUME NEW x \in Report, NEW b \in Branch, NEW pc \in {"write", "retire"}
                        PROVE  [x EXCEPT !.branch = b, !.pc = pc] \in Report
  <1> DEFINE y == [x EXCEPT !.branch = b]
  <1>1. y \in Report  BY DEF Report
  <1>2. [y EXCEPT !.pc = pc] = [x EXCEPT !.branch = b, !.pc = pc]  BY Zenon
  <1> HIDE DEF y
  <1> QED  BY <1>1, <1>2 DEF Report

\* Clearing or setting one mark of a loop keeps the loops table well-formed.
LEMMA MarksType == ASSUME TypeOK, NEW l, NEW m \in Marks
                   PROVE  /\ [loop EXCEPT ![l].is = @ \ {m}] \in [Loops -> LoopRow]
                          /\ [loop EXCEPT ![l].is = @ \cup {m}] \in [Loops -> LoopRow]
  <1>1. loop \in [Loops -> LoopRow]  BY DEF TypeOK
  <1> QED  BY <1>1 DEF LoopRow

\* updateRun keeps the runs table well-formed.
LEMMA WithPhaseType == ASSUME TypeOK, NEW r \in Runs, NEW ph \in Phases
                       PROVE  WithPhase(r, ph) \in [Runs -> RunRow]
  <1>1. [run[r] EXCEPT !.phase = ph, !.age = 0] \in RunRow  BY RunClosed DEF TypeOK
  <1> QED  BY <1>1 DEF TypeOK, WithPhase

\* supersedePendingRun keeps the runs table well-formed.
LEMMA SupersededType == ASSUME TypeOK, NEW r \in Runs
                        PROVE  Superseded(r) \in [Runs -> RunRow]
  <1>1. [run[r] EXCEPT !.phase = "canceled", !.outcome = "skipped", !.age = 0] \in RunRow
    BY RunSkipped DEF TypeOK
  <1> QED  BY <1>1 DEF TypeOK, Superseded

\* retireLease keeps the leases table well-formed.
LEMMA RetiredType == ASSUME TypeOK, NEW r \in Runs PROVE Retired(r) \in [Runs -> LeaseRow]
  BY DEF TypeOK, Retired, LeaseRow

\* Clearing an edit or evolve marker keeps the loops table well-formed.
LEMMA ClearMarkerType == ASSUME ConstantsOK, TypeOK, NEW l \in Loops, NEW ro \in Roles
                         PROVE  ClearMarker(l, ro) \in [Loops -> LoopRow]
  BY DEF ConstantsOK, TypeOK, ClearMarker, LoopRow, Roles

\* The end of a tick, which drops its in-flight mark, keeps the scheduler well-formed.
LEMMA TickEndType == ASSUME TypeOK, NEW f \in Fires, TickEnd(f)
                     PROVE  tick' \in [Fires -> Tick] /\ inFlight' \subseteq Loops
  BY DEF TypeOK, TickEnd, NoTick, Tick, Roles

\* No step of runLoop breaks the types.
LEMMA TickType == ASSUME ConstantsOK, IInv, NEW f \in Fires, TickStep(f) PROVE TypeOK'
  <1> USE DEF ConstantsOK
  <1>0. TypeOK /\ TicksOK /\ RowsOK  BY DEF IInv
  <1>1. ASSUME NEW l \in Loops, TickBegin(f, l) PROVE TypeOK'
    <2> DEFINE role == IF loop[l].edit # 0 THEN "edit"
                       ELSE IF "evolve" \in loop[l].is THEN "evolve" ELSE "exec"
    <2>1. role \in Roles  BY DEF Roles
    <2>3. tick' = [tick EXCEPT ![f] = [NoTick EXCEPT !.pc = "inspect", !.loop = l, !.role = role]]
      BY <1>1, Zenon DEF TickBegin
    <2> HIDE DEF role
    <2>2. [NoTick EXCEPT !.pc = "inspect", !.loop = l, !.role = role] \in Tick  BY <2>1 DEF Tick, NoTick
    <2>4. tick' \in [Fires -> Tick] /\ inFlight' \subseteq Loops
      BY <1>0, <1>1, <2>2, <2>3 DEF TypeOK, TickBegin
    <2> QED  BY <1>0, <1>1, <2>4 DEF TypeOK, TickBegin, tickOnly
  <1>2. CASE TickInspect(f)
    <2>1. OpenRuns(tick[f].loop) \in SUBSET Runs  BY DEF OpenRuns
    <2>2. [tick[f] EXCEPT !.pc = "retire", !.todo = OpenRuns(tick[f].loop)] \in Tick
      BY <1>0, <2>1, TickRetiring DEF TypeOK
    <2>3. tick' \in [Fires -> Tick] /\ inFlight' \subseteq Loops
      BY <1>0, <1>2, <2>2, TickEndType DEF TypeOK, TickInspect
    <2> QED  BY <1>0, <1>2, <2>3 DEF TypeOK, TickInspect, tickOnly
  <1>3. CASE TickRetire(f)
    <2>1. PICK r \in tick[f].todo :
            /\ run' = Superseded(r)
            /\ \/ tick' = [tick EXCEPT ![f].todo = @ \ {r}] /\ UNCHANGED inFlight
               \/ TickEnd(f)
      BY <1>3 DEF TickRetire
    <2>2. r \in Runs  BY <1>0 DEF TypeOK, Tick
    <2>3. run' \in [Runs -> RunRow]  BY <1>0, <2>1, <2>2, SupersededType
    <2>6. tick \in [Fires -> Tick]  BY <1>0 DEF TypeOK
    <2>4. [tick EXCEPT ![f].todo = @ \ {r}] \in [Fires -> Tick]  BY <2>6 DEF Tick
    <2>5. tick' \in [Fires -> Tick] /\ inFlight' \subseteq Loops
      BY <1>0, <2>1, <2>4, TickEndType DEF TypeOK
    <2> QED  BY <1>0, <1>3, <2>3, <2>5 DEF TypeOK, TickRetire, tickOnly
  <1>4. CASE TickAdd(f)
    <2>1. PICK r \in Runs :
            /\ run' = [run EXCEPT ![r] = [@ EXCEPT !.phase = "pending", !.role = tick[f].role,
                                                  !.loop = tick[f].loop]]
            /\ tick' = [tick EXCEPT ![f] = [@ EXCEPT !.pc = "dispatch", !.run = r]]
      BY <1>4 DEF TickAdd
    <2>2. tick[f] \in Tick /\ tick[f].role \in Roles /\ tick[f].loop \in Loops /\ run[r] \in RunRow
      BY <1>0, <1>4 DEF TypeOK, TicksOK, Tick, TickAdd
    <2>3. [run[r] EXCEPT !.phase = "pending", !.role = tick[f].role, !.loop = tick[f].loop] \in RunRow
      BY <2>2, RunCreated
    <2>4. [tick[f] EXCEPT !.pc = "dispatch", !.run = r] \in Tick  BY <2>2, TickAdded
    <2>5. run' \in [Runs -> RunRow] /\ tick' \in [Fires -> Tick]
      BY <1>0, <2>1, <2>3, <2>4 DEF TypeOK
    <2> QED  BY <1>0, <1>4, <2>5 DEF TypeOK, TickAdd, tickOnly
  <1>5. CASE TickDispatch(f)
    <2>1. tick[f].run \in Runs /\ "error" \in Phases
      BY <1>0, <1>5 DEF TicksOK, TickDispatch, Phases, Closed
    <2>2. WithPhase(tick[f].run, "error") \in [Runs -> RunRow]  BY <1>0, <2>1, WithPhaseType
    <2>3. [tick EXCEPT ![f].pc = "rearm"] \in [Fires -> Tick]  BY <1>0 DEF TypeOK, Tick
    <2>4. run' \in [Runs -> RunRow] /\ tick' \in [Fires -> Tick] /\ inFlight' \subseteq Loops
      BY <1>0, <1>5, <2>2, <2>3, TickEndType DEF TypeOK, TickDispatch
    <2> QED  BY <1>0, <1>5, <2>4 DEF TypeOK, TickDispatch, tickOnly
  <1>6. CASE TickUnmark(f)
    <2>1. tick[f].loop \in Loops /\ tick[f].role \in Roles
      BY <1>0, <1>6 DEF TypeOK, TicksOK, TickUnmark, Tick
    <2>2. loop' \in [Loops -> LoopRow]  BY <1>0, <1>6, <2>1, ClearMarkerType DEF TickUnmark
    <2>3. tick' \in [Fires -> Tick] /\ inFlight' \subseteq Loops
      BY <1>0, <1>6, TickEndType DEF TickUnmark
    <2> QED  BY <1>0, <1>6, <2>2, <2>3 DEF TypeOK, TickUnmark, tickOnly
  <1> QED  BY <1>1, <1>2, <1>3, <1>4, <1>5, <1>6 DEF TickStep

\* No step of a poll breaks the types.
LEMMA PollType == ASSUME ConstantsOK, IInv, NEW p \in Polls, PollStep(p) PROVE TypeOK'
  <1> USE DEF ConstantsOK
  <1>0. TypeOK /\ PollsOK /\ RowsOK  BY DEF IInv
  <1>1. CASE PollArrive(p)
    <2> DEFINE pending == {r \in Runs : run[r].phase = "pending"}
    <2>1. pending \in SUBSET Runs  OBVIOUS
    <2>2. poll' \in {poll, [poll EXCEPT ![p] = [NoPoll EXCEPT !.pc = "next", !.todo = pending]]}
      BY <1>1 DEF PollArrive
    <2> HIDE DEF pending
    <2>4. [NoPoll EXCEPT !.pc = "next", !.todo = pending] \in Poll  BY <2>1, PollStarted
    <2>3. poll' \in [Polls -> Poll]  BY <1>0, <2>2, <2>4 DEF TypeOK
    <2> QED  BY <1>0, <1>1, <2>3 DEF TypeOK, PollArrive, pollOnly
  <1>2. CASE PollLoad(p)
    <2>1. PICK r \in poll[p].todo :
            /\ \/ /\ poll' = [poll EXCEPT ![p] = [pc |-> "claim", todo |-> @.todo \ {r}, run |-> r,
                        is |-> loop[run[r].loop].is \cap {"goal"}, edit |-> loop[run[r].loop].edit, got |-> @.got]]
                  /\ UNCHANGED run
               \/ /\ poll' = [poll EXCEPT ![p].todo = @ \ {r}]
                  /\ run' = WithPhase(r, "error")
            /\ strays' \in {strays, strays \cup {r}}
      BY <1>2 DEF PollLoad
    <2>2. r \in Runs /\ poll[p] \in Poll  BY <1>0 DEF TypeOK, Poll
    <2>3. run[r].loop \in Loops  BY <1>0, <2>2 DEF TypeOK, PollsOK, RowsOK, RunRow
    <2>4. loop[run[r].loop].edit \in 0..MaxEdits  BY <1>0, <2>3 DEF TypeOK, LoopRow
    <2>5. run' \in [Runs -> RunRow]  BY <1>0, <2>1, <2>2, WithPhaseType DEF TypeOK, Phases, Closed
    <2>6. [pc |-> "claim", todo |-> poll[p].todo \ {r}, run |-> r, is |-> loop[run[r].loop].is \cap {"goal"},
           edit |-> loop[run[r].loop].edit, got |-> poll[p].got] \in Poll
      BY <2>2, <2>4 DEF Poll
    <2>7. [poll EXCEPT ![p].todo = @ \ {r}] \in [Polls -> Poll]  BY <1>0 DEF TypeOK, Poll
    <2>8. poll' \in [Polls -> Poll]  BY <1>0, <2>1, <2>6, <2>7 DEF TypeOK
    <2>9. strays' \subseteq Runs  BY <1>0, <2>1, <2>2 DEF TypeOK
    <2> QED  BY <1>0, <1>2, <2>5, <2>8, <2>9 DEF TypeOK, PollLoad, pollOnly
  <1>3. CASE PollClaim(p)
    <2> DEFINE r == poll[p].run
    <2>1. r \in Runs  BY <1>0, <1>3 DEF PollsOK, PollClaim
    <2>2. [run[r] EXCEPT !.phase = "running", !.age = 0] \in RunRow
      BY <1>0, <2>1, RunClosed DEF TypeOK, Phases, Open
    <2>3. run' \in [Runs -> RunRow]  BY <1>0, <1>3, <2>2 DEF TypeOK, PollClaim
    <2>4. NextOf(poll[p]) \in Poll  BY <1>0, NextOfType DEF TypeOK
    <2>5. [poll EXCEPT ![p].pc = "register"] \in [Polls -> Poll]  BY <1>0 DEF TypeOK, Poll
    <2>6. poll' \in [Polls -> Poll]  BY <1>0, <1>3, <2>4, <2>5 DEF TypeOK, PollClaim
    <2> QED  BY <1>0, <1>3, <2>3, <2>6 DEF TypeOK, PollClaim, pollOnly
  <1>4. CASE PollRegister(p)
    <2> DEFINE r == poll[p].run
    <2>1. r \in Runs /\ poll[p] \in Poll  BY <1>0, <1>4 DEF TypeOK, PollsOK, PollRegister
    <2>2. lease' \in [Runs -> LeaseRow]  BY <1>0, <1>4 DEF TypeOK, PollRegister, LeaseRow
    <2>3. (IF run[r].role = "edit" THEN poll[p].edit ELSE 0) \in 0..MaxEdits  BY <2>1 DEF Poll
    <2> DEFINE edit == IF run[r].role = "edit" THEN poll[p].edit ELSE 0
               mine == [poll[p] EXCEPT !.got = poll[p].got \cup {r}]
    <2>4. run' = [run EXCEPT ![r].edit = edit]  BY <1>4 DEF PollRegister
    <2>5. mine \in Poll  BY <2>1 DEF Poll
    <2>6. poll' = [poll EXCEPT ![p] = NextOf(mine)]  BY <1>4 DEF PollRegister
    <2> HIDE DEF edit, mine
    <2>7. run' \in [Runs -> RunRow]
      <3>1. edit \in 0..MaxEdits  BY <2>3 DEF edit
      <3>3. run[r] \in RunRow  BY <1>0, <2>1 DEF TypeOK
      <3>2. [run[r] EXCEPT !.edit = edit] \in RunRow  BY <3>1, <3>3 DEF RunRow
      <3> QED  BY <1>0, <2>4, <3>2 DEF TypeOK
    <2>8. NextOf(mine) \in Poll  BY <2>5, NextOfType
    <2>9. poll' \in [Polls -> Poll]  BY <1>0, <2>6, <2>8 DEF TypeOK
    <2> QED  BY <1>0, <1>4, <2>2, <2>7, <2>9 DEF TypeOK, PollRegister, pollOnly
  <1>5. CASE PollRespond(p)
    <2>1. agent' \in [Runs -> Agent]  BY <1>0, <1>5 DEF TypeOK, PollRespond, Agent, Exits, MaxReports
    <2>2. poll' \in [Polls -> Poll]  BY <1>0, <1>5 DEF TypeOK, PollRespond, NoPoll, Poll
    <2> QED  BY <1>0, <1>5, <2>1, <2>2 DEF TypeOK, PollRespond, pollOnly
  <1>6. CASE PollAbort(p)
    <2>1. poll' \in [Polls -> Poll]  BY <1>0, <1>6 DEF TypeOK, PollAbort, NoPoll, Poll
    <2> QED  BY <1>0, <1>6, <2>1 DEF TypeOK, PollAbort, pollOnly
  <1> QED  BY <1>1, <1>2, <1>3, <1>4, <1>5, <1>6 DEF PollStep

\* No step of the sweep breaks the types.
LEMMA SweepType == ASSUME ConstantsOK, IInv, NEW s \in Sweeps, SweepStep(s) PROVE TypeOK'
  <1> USE DEF ConstantsOK
  <1>0. TypeOK /\ SweepsOK /\ RowsOK  BY DEF IInv
  <1>1. CASE SweepBegin(s)
    <2> DEFINE seen == {[run |-> r, phase |-> run[r].phase, age |-> run[r].age] :
                          r \in {q \in Runs : run[q].phase \in Open /\ run[q].age > 0}}
    <2>1. \A r \in Runs : run[r].age \in 0..2  BY <1>0 DEF TypeOK, RunRow
    <2>2. seen \subseteq Seen  BY <2>1 DEF Seen
    <2>3. sweep' \in {sweep, [sweep EXCEPT ![s] = [NoSweep EXCEPT !.pc = "next", !.todo = seen]]}
      BY <1>1 DEF SweepBegin
    <2> HIDE DEF seen
    <2>4. [NoSweep EXCEPT !.pc = "next", !.todo = seen] \in Sweep  BY <2>2 DEF Sweep, NoSweep
    <2>5. sweep' \in [Sweeps -> Sweep]  BY <1>0, <2>3, <2>4 DEF TypeOK
    <2> QED  BY <1>0, <1>1, <2>5 DEF TypeOK, SweepBegin, sweepOnly
  <1>2. CASE SweepReclaim(s)
    <2>1. PICK seen \in sweep[s].todo :
            /\ run' = WithPhase(seen.run, "error")
            /\ sweep' = [sweep EXCEPT ![s] = [pc |-> "lease", run |-> seen.run, todo |-> @.todo \ {seen}]]
      BY <1>2 DEF SweepReclaim
    <2>2. sweep[s] \in Sweep /\ seen.run \in Runs  BY <1>0 DEF TypeOK, Sweep, Seen
    <2>3. run' \in [Runs -> RunRow]  BY <1>0, <2>1, <2>2, WithPhaseType DEF Phases, Closed
    <2>4. [pc |-> "lease", run |-> seen.run, todo |-> sweep[s].todo \ {seen}] \in Sweep  BY <2>2 DEF Sweep
    <2>5. sweep' \in [Sweeps -> Sweep]  BY <1>0, <2>1, <2>4 DEF TypeOK
    <2> QED  BY <1>0, <1>2, <2>3, <2>5 DEF TypeOK, SweepReclaim, sweepOnly
  <1>3. CASE SweepTerminalize(s)
    <2> DEFINE state == IF lease[sweep[s].run].state = "active" THEN "grace"
                        ELSE lease[sweep[s].run].state
    <2>3. state \in {"none", "active", "grace"}  BY <1>0, <1>3 DEF TypeOK, SweepsOK, SweepTerminalize, LeaseRow
    <2>4. lease' = [lease EXCEPT ![sweep[s].run].state = state]  BY <1>3 DEF SweepTerminalize
    <2> HIDE DEF state
    <2>5. lease \in [Runs -> LeaseRow]  BY <1>0 DEF TypeOK
    <2>1. lease' \in [Runs -> LeaseRow]  BY <2>3, <2>4, <2>5 DEF LeaseRow
    <2>2. sweep' \in [Sweeps -> Sweep]  BY <1>0, <1>3 DEF TypeOK, SweepTerminalize, Sweep
    <2> QED  BY <1>0, <1>3, <2>1, <2>2 DEF TypeOK, SweepTerminalize, sweepOnly
  <1>4. CASE SweepAfter(s)
    <2> DEFINE l == run[sweep[s].run].loop
    <2>1. l \in Loops  BY <1>0, <1>4 DEF TypeOK, SweepsOK, RowsOK, SweepAfter, RunRow
    <2>2. [loop EXCEPT ![l].is = @ \ {"enabled"}] \in [Loops -> LoopRow]  BY <1>0, MarksType DEF Marks
    <2>3. ClearMarker(l, "evolve") \in [Loops -> LoopRow]  BY <1>0, <2>1, ClearMarkerType DEF Roles
    <2>4. loop' \in {loop, [loop EXCEPT ![l].is = @ \ {"enabled"}], ClearMarker(l, "evolve")}
      BY <1>4 DEF SweepAfter, MayPause
    <2>5. loop' \in [Loops -> LoopRow]  BY <1>0, <2>2, <2>3, <2>4 DEF TypeOK
    <2>6. [sweep[s] EXCEPT !.pc = "next", !.run = None] \in Sweep  BY <1>0, SweepNext DEF TypeOK
    <2>7. sweep' \in [Sweeps -> Sweep]  BY <1>0, <1>4, <2>6 DEF TypeOK, SweepAfter
    <2> QED  BY <1>0, <1>4, <2>5, <2>7 DEF TypeOK, SweepAfter, sweepOnly
  <1>5. CASE SweepDefer(s)
    <2>1. PICK seen \in sweep[s].todo :
            /\ run' \in {run, Superseded(seen.run)}
            /\ sweep' = [sweep EXCEPT ![s].todo = @ \ {seen}]
      BY <1>5 DEF SweepDefer
    <2>2. seen.run \in Runs  BY <1>0 DEF TypeOK, Sweep, Seen
    <2>3. run' \in [Runs -> RunRow]  BY <1>0, <2>1, <2>2, SupersededType DEF TypeOK
    <2>4. sweep' \in [Sweeps -> Sweep]  BY <1>0, <2>1 DEF TypeOK, Sweep
    <2> QED  BY <1>0, <1>5, <2>3, <2>4 DEF TypeOK, SweepDefer, sweepOnly
  <1>6. CASE SweepEnd(s)
    <2>1. sweep' \in [Sweeps -> Sweep]  BY <1>0, <1>6 DEF TypeOK, SweepEnd, NoSweep, Sweep
    <2> QED  BY <1>0, <1>6, <2>1 DEF TypeOK, SweepEnd, sweepOnly
  <1> QED  BY <1>1, <1>2, <1>3, <1>4, <1>5, <1>6 DEF SweepStep

\* Answering a report keeps the reports in flight and the agents well-formed.
LEMMA AnswerType == ASSUME ConstantsOK, TypeOK, RequestsOK, NEW x \in Reports, report[x].pc # "idle", ReportAnswer(x)
                    PROVE  report' \in [Reports -> Report] /\ agent' \in [Runs -> Agent]
  <1>1. NoReport \in Report  BY DEF NoReport, Report, Exits, Branch
  <1>2. report[x].run \in Runs  BY DEF RequestsOK
  <1>3. PICK pc \in {agent[report[x].run].pc, "quiet"} : agent' = [agent EXCEPT ![report[x].run].pc = pc]
    BY DEF ReportAnswer
  <1>4. pc \in {"none", "working", "ended", "quiet"}  BY <1>2 DEF TypeOK, Agent
  <1>5. agent' \in [Runs -> Agent]  BY <1>3, <1>4 DEF TypeOK, Agent
  <1> QED  BY <1>1, <1>5 DEF TypeOK, ReportAnswer

\* No step of a report breaks the types.
LEMMA ReportType == ASSUME ConstantsOK, IInv, NEW x \in Reports, ReportStep(x) PROVE TypeOK'
  <1> USE DEF ConstantsOK
  <1>0. TypeOK /\ RequestsOK /\ RowsOK  BY DEF IInv
  <1>1. ASSUME NEW r \in Runs, ReportArrive(x, r) PROVE TypeOK'
    <2> DEFINE new == [pc |-> "read", run |-> r, exit |-> agent[r].exit, via |-> lease[r].state,
                       branch |-> "unread"]
    <2>1. new \in Report  BY <1>0 DEF TypeOK, Report, Agent, LeaseRow, Branch
    <2>2. report' \in {report, [report EXCEPT ![x] = new]}  BY <1>1 DEF ReportArrive
    <2> HIDE DEF new
    <2>3. report' \in [Reports -> Report]  BY <1>0, <2>1, <2>2 DEF TypeOK
    <2>4. [agent EXCEPT ![r].pc = "quiet"] \in [Runs -> Agent]  BY <1>0 DEF TypeOK, Agent
    <2>5. ASSUME agent[r].sent < MaxReports PROVE [agent EXCEPT ![r].sent = @ + 1] \in [Runs -> Agent]
      <3>1. agent[r].sent + 1 \in 0..MaxReports  BY <1>0, <2>5 DEF TypeOK, Agent, MaxReports
      <3> QED  BY <1>0, <3>1 DEF TypeOK, Agent
    <2>6. agent' \in [Runs -> Agent]  BY <1>1, <2>4, <2>5 DEF ReportArrive
    <2> QED  BY <1>0, <1>1, <2>3, <2>6 DEF TypeOK, ReportArrive, reportOnly
  <1>2. CASE ReportRead(x)
    <2>1. PICK b \in Branch, pc \in {"write", "retire"} :
            report' = [report EXCEPT ![x] = [@ EXCEPT !.branch = b, !.pc = pc]]
      BY <1>2 DEF ReportRead, Branch
    <2>2. [report[x] EXCEPT !.branch = b, !.pc = pc] \in Report  BY <1>0, ReportBranched DEF TypeOK
    <2>3. report' \in [Reports -> Report]  BY <1>0, <2>1, <2>2 DEF TypeOK
    <2> QED  BY <1>0, <1>2, <2>3 DEF TypeOK, ReportRead, reportOnly
  <1>3. CASE ReportWrite(x)
    <2> DEFINE ph == IF report[x].exit = "ok" THEN "done" ELSE "error"
    <2>1. ph \in Phases /\ report[x].run \in Runs
      BY <1>0, <1>3 DEF Phases, Closed, RequestsOK, ReportWrite
    <2>2. run' = WithPhase(report[x].run, ph)  BY <1>3 DEF ReportWrite
    <2> HIDE DEF ph
    <2>3. run' \in [Runs -> RunRow]  BY <1>0, <2>1, <2>2, WithPhaseType
    <2>4. report' \in [Reports -> Report]  BY <1>0, <1>3 DEF TypeOK, ReportWrite, Report
    <2> QED  BY <1>0, <1>3, <2>3, <2>4 DEF TypeOK, ReportWrite, reportOnly
  <1>4. CASE ReportRetire(x)
    <2>1. lease' \in [Runs -> LeaseRow]
      BY <1>0, <1>4, RetiredType DEF RequestsOK, ReportRetire
    <2>2. [report EXCEPT ![x].pc = "marker"] \in [Reports -> Report]  BY <1>0 DEF TypeOK, Report
    <2>3. report' \in [Reports -> Report] /\ agent' \in [Runs -> Agent]
      BY <1>0, <1>4, <2>2, AnswerType DEF TypeOK, ReportRetire
    <2> QED  BY <1>0, <1>4, <2>1, <2>3 DEF TypeOK, ReportRetire, reportOnly
  <1>5. CASE ReportMarker(x)
    <2> DEFINE r == report[x].run
               l == run[r].loop
    <2>1. l \in Loops /\ run[r].role \in Roles
      BY <1>0, <1>5 DEF TypeOK, RequestsOK, RowsOK, ReportMarker, RunRow
    <2>2. [loop EXCEPT ![l].is = @ \ {"enabled"}] \in [Loops -> LoopRow]  BY <1>0, MarksType DEF Marks
    <2>3. [loop EXCEPT ![l].is = @ \cup {"evolve"}] \in [Loops -> LoopRow]  BY <1>0, MarksType DEF Marks
    <2>4. ClearMarker(l, run[r].role) \in [Loops -> LoopRow]  BY <1>0, <2>1, ClearMarkerType
    <2>5. loop' \in {loop, [loop EXCEPT ![l].is = @ \ {"enabled"}], [loop EXCEPT ![l].is = @ \cup {"evolve"}],
                     ClearMarker(l, run[r].role)}
      BY <1>5 DEF ReportMarker, MayPause, MayFlagEvolve
    <2> HIDE DEF r, l
    <2>6. loop' \in [Loops -> LoopRow]  BY <1>0, <2>2, <2>3, <2>4, <2>5 DEF TypeOK
    <2>7. report' \in [Reports -> Report] /\ agent' \in [Runs -> Agent]
      BY <1>0, <1>5, AnswerType DEF ReportMarker
    <2> QED  BY <1>0, <1>5, <2>6, <2>7 DEF TypeOK, ReportMarker, reportOnly
  <1> QED  BY <1>1, <1>2, <1>3, <1>4, <1>5 DEF ReportStep

\* No step of finishLoop breaks the types.
LEMMA FinishType == ASSUME ConstantsOK, IInv, NEW y \in Finishes, FinishStep(y) PROVE TypeOK'
  <1>0. TypeOK /\ RequestsOK /\ RowsOK  BY DEF IInv
  <1>1. ASSUME NEW r \in Runs, FinishArrive(y, r) PROVE TypeOK'
    <2>1. finish' \in [Finishes -> Finish]  BY <1>0, <1>1 DEF TypeOK, FinishArrive, Finish
    <2> QED  BY <1>0, <1>1, <2>1 DEF TypeOK, FinishArrive, finishOnly
  <1>2. CASE FinishCheck(y)
    <2>1. [finish[y] EXCEPT !.pc = "run"] \in Finish /\ NoFinish \in Finish
      BY <1>0 DEF TypeOK, Finish, NoFinish
    <2>2. finish' \in {[finish EXCEPT ![y] = [@ EXCEPT !.pc = "run"]], [finish EXCEPT ![y] = NoFinish]}
      BY <1>2 DEF FinishCheck
    <2>3. finish' \in [Finishes -> Finish]  BY <1>0, <2>1, <2>2 DEF TypeOK
    <2> QED  BY <1>0, <1>2, <2>3 DEF TypeOK, FinishCheck, finishOnly
  <1>3. CASE FinishRun(y)
    <2>1. run' \in [Runs -> RunRow]
      BY <1>0, <1>3, WithPhaseType DEF RequestsOK, FinishRun, Phases, Closed
    <2>2. finish' \in [Finishes -> Finish]  BY <1>0, <1>3 DEF TypeOK, FinishRun, Finish
    <2> QED  BY <1>0, <1>3, <2>1, <2>2 DEF TypeOK, FinishRun, finishOnly
  <1>4. CASE FinishLoop(y)
    <2> DEFINE l == run[finish[y].run].loop
    <2>1. loop' = [loop EXCEPT ![l].is = (@ \cup {"completed"}) \ {"enabled"}]  BY <1>4 DEF FinishLoop
    <2>2. l \in Loops  BY <1>0, <1>4 DEF TypeOK, RequestsOK, RowsOK, FinishLoop, RunRow
    <2> HIDE DEF l
    <2>3. loop' \in [Loops -> LoopRow]  BY <1>0, <2>1, <2>2 DEF TypeOK, LoopRow, Marks
    <2>4. finish' \in [Finishes -> Finish]  BY <1>0, <1>4 DEF TypeOK, FinishLoop, Finish, NoFinish
    <2> QED  BY <1>0, <1>4, <2>3, <2>4 DEF TypeOK, FinishLoop, finishOnly
  <1> QED  BY <1>1, <1>2, <1>3, <1>4 DEF FinishStep

\* No step of cancelRun breaks the types.
LEMMA CancelType == ASSUME ConstantsOK, IInv, NEW c \in Cancels, CancelStep(c) PROVE TypeOK'
  <1>0. TypeOK /\ RequestsOK  BY DEF IInv
  <1>1. ASSUME NEW r \in Runs, CancelRead(c, r) PROVE TypeOK'
    <2>1. cancel' \in [Cancels -> Cancel]  BY <1>0, <1>1 DEF TypeOK, CancelRead, Cancel
    <2> QED  BY <1>0, <1>1, <2>1 DEF TypeOK, CancelRead, cancelOnly
  <1>2. CASE CancelWrite(c)
    <2>1. run' \in [Runs -> RunRow]
      BY <1>0, <1>2, WithPhaseType DEF RequestsOK, CancelWrite, Phases, Closed
    <2>2. cancel' \in [Cancels -> Cancel]  BY <1>0, <1>2 DEF TypeOK, CancelWrite, Cancel, NoCancel
    <2> QED  BY <1>0, <1>2, <2>1, <2>2 DEF TypeOK, CancelWrite, cancelOnly
  <1> QED  BY <1>1, <1>2 DEF CancelStep

\* Neither time nor the machine breaks the types.
LEMMA MachineType == ASSUME ConstantsOK, IInv, NEW r \in Runs, MachineStep(r) PROVE TypeOK'
  <1>0. TypeOK  BY DEF IInv
  <1>1. CASE PollProgress(r)
    <2> DEFINE age == IF run[r].phase = "running" THEN 0 ELSE run[r].age
    <2>1. age \in 0..2  BY <1>0 DEF TypeOK, RunRow
    <2>2. run' = [run EXCEPT ![r].age = age]  BY <1>1 DEF PollProgress
    <2> HIDE DEF age
    <2>4. [run[r] EXCEPT !.age = age] \in RunRow  BY <1>0, <2>1 DEF TypeOK, RunRow
    <2>3. run' \in [Runs -> RunRow]  BY <1>0, <2>2, <2>4 DEF TypeOK
    <2> QED  BY <1>0, <1>1, <2>3 DEF TypeOK, PollProgress, pollOnly
  <1>2. CASE Silence(r)
    <2>1. run[r].age + 1 \in 0..2  BY <1>0, <1>2 DEF TypeOK, RunRow, Silence
    <2>3. run' = [run EXCEPT ![r] = [@ EXCEPT !.age = run[r].age + 1]]  BY <1>2 DEF Silence
    <2> DEFINE age == run[r].age + 1
    <2> HIDE DEF age
    <2>4. [run[r] EXCEPT !.age = age] \in RunRow  BY <1>0, <2>1 DEF age, TypeOK, RunRow
    <2>2. run' \in [Runs -> RunRow]  BY <1>0, <2>3, <2>4 DEF age, TypeOK
    <2> QED  BY <1>0, <1>2, <2>2 DEF TypeOK, Silence, handlers
  <1>3. CASE GraceElapses(r)
    <2>1. lease' \in [Runs -> LeaseRow]  BY <1>0, <1>3, RetiredType DEF GraceElapses
    <2> QED  BY <1>0, <1>3, <2>1 DEF TypeOK, GraceElapses, handlers
  <1>4. CASE AgentEnds(r) \/ AgentDies(r)
    <2>1. agent' \in [Runs -> Agent]
      BY <1>0, <1>4 DEF TypeOK, AgentEnds, AgentDies, Agent, Exits, MaxReports
    <2> QED  BY <1>0, <1>4, <2>1 DEF TypeOK, AgentEnds, AgentDies, machineOnly, handlers
  <1> QED  BY <1>1, <1>2, <1>3, <1>4 DEF MachineStep

\* No operation of the owner breaks the types.
LEMMA OwnerType == ASSUME ConstantsOK, IInv, NEW l \in Loops, OwnerStep(l) PROVE TypeOK'
  <1>0. TypeOK  BY DEF IInv
  <1>1. CASE RequestEdit(l)
    <2>1. edits + 1 \in 0..MaxEdits  BY <1>0, <1>1 DEF ConstantsOK, TypeOK, RequestEdit
    <2>2. loop' \in [Loops -> LoopRow]  BY <1>0, <1>1, <2>1 DEF TypeOK, RequestEdit, LoopRow
    <2> QED  BY <1>0, <1>1, <2>1, <2>2 DEF TypeOK, RequestEdit, ownerOnly, handlers
  <1>3. CASE Pause(l) \/ Resume(l) \/ SetGoal(l) \/ ClearGoal(l) \/ EvolveNow(l)
    <2>1. PICK S \in SUBSET Marks : loop' = [loop EXCEPT ![l].is = S]
      BY <1>0, <1>3 DEF TypeOK, LoopRow, Marks, Pause, Resume, SetGoal, ClearGoal, EvolveNow
    <2>2. loop' \in [Loops -> LoopRow]  BY <1>0, <2>1 DEF TypeOK, LoopRow
    <2> QED  BY <1>0, <1>3, <2>2
         DEF TypeOK, Pause, Resume, SetGoal, ClearGoal, EvolveNow, ownerOnly, handlers
  <1> QED  BY <1>1, <1>3 DEF OwnerStep

\* A statement of a deletion that takes rows keeps the types.
LEMMA TakingType == ASSUME TypeOK, NEW l, NEW d \in Deletion, Taking(l, d) PROVE TypeOK'
  <1>1. deletion' \in [Loops -> Deletion]  BY DEF TypeOK, Taking
  <1> QED  BY <1>1 DEF TypeOK, Taking, ownerOnly, handlers

\* No statement of a deletion breaks the types.
LEMMA DeleteType == ASSUME ConstantsOK, IInv, NEW l \in Loops, DeleteStep(l) PROVE TypeOK'
  <1>0. TypeOK /\ deletion[l] \in Deletion  BY DEF IInv, TypeOK
  <1>1. CASE DeleteBegin(l)
    <2>1. [NoDeletion EXCEPT !.pc = "runs"] \in Deletion  BY DEF NoDeletion, Deletion
    <2> QED  BY <1>0, <1>1, <2>1, TakingType DEF DeleteBegin
  <1>2. CASE DeleteRuns(l)
    <2> DEFINE S == {r \in Runs : run[r].loop = l /\ run[r].phase \notin Absent}
               d == [deletion[l] EXCEPT !.pc = "leases"]
    <2>1. [deletion[l] EXCEPT !.pc = "leases", !.runs = S] = [d EXCEPT !.runs = S]  BY Zenon
    <2>2. S \in SUBSET Runs  OBVIOUS
    <2>3. d \in Deletion  BY <1>0 DEF Deletion
    <2>4. Taking(l, [deletion[l] EXCEPT !.pc = "leases", !.runs = S])  BY <1>2 DEF DeleteRuns
    <2> HIDE DEF S, d
    <2>5. [d EXCEPT !.runs = S] \in Deletion  BY <2>2, <2>3 DEF Deletion
    <2> QED  BY <1>0, <2>1, <2>4, <2>5, TakingType
  <1>3. CASE DeleteLeases(l)
    <2> DEFINE S == {r \in Runs : run[r].loop = l /\ lease[r].state # "none"}
               d == [deletion[l] EXCEPT !.pc = "commit"]
    <2>1. [deletion[l] EXCEPT !.pc = "commit", !.leases = S] = [d EXCEPT !.leases = S]  BY Zenon
    <2>2. S \in SUBSET Runs  OBVIOUS
    <2>3. d \in Deletion  BY <1>0 DEF Deletion
    <2>4. Taking(l, [deletion[l] EXCEPT !.pc = "commit", !.leases = S])  BY <1>3 DEF DeleteLeases
    <2> HIDE DEF S, d
    <2>5. [d EXCEPT !.leases = S] \in Deletion  BY <2>2, <2>3 DEF Deletion
    <2> QED  BY <1>0, <2>1, <2>4, <2>5, TakingType
  <1>4. CASE DeleteCommit(l)
    <2>1. loop' \in [Loops -> LoopRow]  BY <1>0, <1>4, MarksType DEF DeleteCommit, Marks
    <2>2. \A r \in Runs : [run[r] EXCEPT !.phase = "gone", !.age = 0] \in RunRow
      BY <1>0, RunClosed DEF TypeOK, Phases, Absent
    <2>3. run' \in [Runs -> RunRow]  BY <1>0, <1>4, <2>2 DEF TypeOK, DeleteCommit
    <2>4. \A r \in Runs : [lease[r] EXCEPT !.state = "none"] \in LeaseRow  BY <1>0 DEF TypeOK, LeaseRow
    <2>5. lease' \in [Runs -> LeaseRow]  BY <1>0, <1>4, <2>4 DEF TypeOK, DeleteCommit
    <2>6. deletion' \in [Loops -> Deletion]  BY <1>0, <1>4 DEF TypeOK, DeleteCommit, NoDeletion, Deletion
    <2> QED  BY <1>0, <1>4, <2>1, <2>3, <2>5, <2>6 DEF TypeOK, DeleteCommit, ownerOnly, handlers
  <1> QED  BY <1>1, <1>2, <1>3, <1>4 DEF DeleteStep

\* A restart of the server keeps the types: what was in flight is idle.
LEMMA RestartType == ASSUME ConstantsOK, IInv, Restart PROVE TypeOK'
  <1>0. TypeOK  BY DEF IInv
  <1>1. NoTick \in Tick /\ NoPoll \in Poll /\ NoSweep \in Sweep /\ NoReport \in Report
        /\ NoFinish \in Finish /\ NoCancel \in Cancel /\ NoDeletion \in Deletion
    BY DEF ConstantsOK, NoTick, NoPoll, NoSweep, NoReport, NoFinish, NoCancel, NoDeletion, Tick, Poll, Sweep,
           Report, Finish, Cancel, Deletion, Roles, Exits, Branch
  <1>2. restarts + 1 \in 0..MaxRestarts  BY <1>0 DEF ConstantsOK, TypeOK, Restart
  <1> QED  BY <1>0, <1>1, <1>2 DEF TypeOK, Restart

\* Every step preserves the type invariant, given the rest of the inductive invariant
\* (which says that the run of a handler in flight exists).
LEMMA TypeStep == ASSUME ConstantsOK, IInv, [Next]_vars PROVE TypeOK'
  <1>1. CASE Next
    BY <1>1, TickType, PollType, SweepType, ReportType, FinishType, CancelType, MachineType, OwnerType,
       DeleteType, RestartType DEF Next, Step
  <1>2. CASE UNCHANGED vars  BY <1>2 DEF IInv, TypeOK, vars, handlers
  <1> QED  BY <1>1, <1>2

------------------------------------------------------------------------------
(* Calm steps                                                               *)

\* A step that is calm for the runs table adds and starts no run: it closes or
\* deletes runs, at most one open one, and labels only a closing run.
RunsCalm ==
    /\ \A r \in Runs :
        /\ run'[r].loop = run[r].loop
        /\ \/ run'[r].phase = run[r].phase
           \/ run[r].phase \notin Absent /\ run'[r].phase \in Closed \cup {"gone"}
        /\ \/ run'[r].outcome = run[r].outcome
           \/ run[r].phase = "pending" /\ run'[r].phase \in Closed
    /\ \A r, q \in Runs :
        /\ run[r].phase \in Open /\ run'[r].phase # run[r].phase
        /\ run[q].phase \in Open /\ run'[q].phase # run[q].phase
        => r = q

\* A step that is calm for the leases mints none: leases change only towards their
\* end, and one enters its grace window only once its run is over.
LeasesCalm ==
    \A r \in Runs : lease'[r].state # lease[r].state =>
        /\ lease[r].state # "none"
        /\ lease'[r].state = "grace" => run[r].phase \notin Open

\* A step that is calm for the machine starts and forgets no agent.
AgentsCalm == \A r \in Runs : agent'[r].pc = "none" <=> agent[r].pc = "none"

\* A step that is calm for the loops deletes none.
StoredCalm == \A l \in Loops : "stored" \in loop[l].is => "stored" \in loop'[l].is

\* A step that is calm for the polls takes up no run.
HeldCalm == \A p \in Polls : Held(p)' \subseteq Held(p)

\* updateRun with a closing phase is calm.
LEMMA WithPhaseCalm == ASSUME TypeOK, NEW r \in Runs, NEW ph \in Closed, run' = WithPhase(r, ph)
                       PROVE  RunsCalm
  BY DEF TypeOK, RunRow, WithPhase, RunsCalm

\* supersedePendingRun is calm.
LEMMA SupersededCalm == ASSUME TypeOK, NEW r \in Runs, run' = Superseded(r) PROVE RunsCalm
  BY DEF TypeOK, RunRow, Superseded, RunsCalm, Closed, Absent

\* A step that leaves the runs alone is calm.
LEMMA SameCalm == ASSUME UNCHANGED run PROVE RunsCalm
  BY DEF RunsCalm

\* A calm step opens no run and unmakes none.
LEMMA CalmOpens == ASSUME RunsCalm
    PROVE  /\ \A l : OpenRuns(l)' \subseteq OpenRuns(l)
           /\ \A r \in Runs : run[r].phase # "unborn" => run'[r].phase # "unborn"
  BY DEF RunsCalm, OpenRuns, Open, Closed

\* Only a tick adds a run (addRun) and only a poll starts one (claimPendingRun).
LEMMA RunsStep == ASSUME ConstantsOK, IInv, [Next]_vars
                  PROVE  RunsCalm \/ (\E f \in Fires : TickAdd(f)) \/ (\E p \in Polls : PollClaim(p))
  <1>0. TypeOK /\ RowsOK /\ TicksOK /\ PollsOK /\ SweepsOK /\ RequestsOK  BY DEF IInv
  <1>1. ASSUME NEW f \in Fires, TickStep(f) PROVE RunsCalm \/ TickAdd(f)
    <2>1. CASE TickRetire(f)
      <3>1. PICK r \in tick[f].todo : run' = Superseded(r)  BY <2>1 DEF TickRetire
      <3>2. r \in Runs  BY <1>0 DEF TypeOK, Tick
      <3> QED  BY <1>0, <3>1, <3>2, SupersededCalm
    <2>2. CASE TickDispatch(f)
      <3>1. tick[f].run \in Runs  BY <1>0, <2>2 DEF TicksOK, TickDispatch
      <3> QED  BY <1>0, <2>2, <3>1, WithPhaseCalm, SameCalm DEF TickDispatch, Closed
    <2> QED  BY <1>1, <2>1, <2>2, SameCalm DEF TickStep, TickBegin, TickInspect, TickUnmark
  <1>2. ASSUME NEW p \in Polls, PollStep(p) PROVE RunsCalm \/ PollClaim(p)
    <2>1. CASE PollLoad(p)
      <3>1. PICK r \in poll[p].todo : run' = WithPhase(r, "error") \/ UNCHANGED run  BY <2>1 DEF PollLoad
      <3>2. r \in Runs  BY <1>0 DEF TypeOK, Poll
      <3> QED  BY <1>0, <3>1, <3>2, WithPhaseCalm, SameCalm DEF Closed
    <2>2. CASE PollRegister(p)
      <3> DEFINE edit == IF run[poll[p].run].role = "edit" THEN poll[p].edit ELSE 0
      <3>1. run' = [run EXCEPT ![poll[p].run].edit = edit]  BY <2>2 DEF PollRegister
      <3> HIDE DEF edit
      <3> QED  BY <1>0, <3>1 DEF TypeOK, RunRow, RunsCalm
    <2> QED  BY <1>2, <2>1, <2>2, SameCalm DEF PollStep, PollArrive, PollRespond, PollAbort
  <1>3. ASSUME NEW s \in Sweeps, SweepStep(s) PROVE RunsCalm
    <2>1. CASE SweepReclaim(s)
      <3>1. PICK seen \in sweep[s].todo : run' = WithPhase(seen.run, "error")  BY <2>1 DEF SweepReclaim
      <3>2. seen.run \in Runs  BY <1>0 DEF TypeOK, Sweep, Seen
      <3> QED  BY <1>0, <3>1, <3>2, WithPhaseCalm DEF Closed
    <2>2. CASE SweepDefer(s)
      <3>1. PICK seen \in sweep[s].todo : run' = Superseded(seen.run) \/ UNCHANGED run  BY <2>2 DEF SweepDefer
      <3>2. seen.run \in Runs  BY <1>0 DEF TypeOK, Sweep, Seen
      <3> QED  BY <1>0, <3>1, <3>2, SupersededCalm, SameCalm
    <2> QED  BY <1>3, <2>1, <2>2, SameCalm DEF SweepStep, SweepBegin, SweepTerminalize, SweepAfter, SweepEnd
  <1>4. ASSUME NEW x \in Reports, ReportStep(x) PROVE RunsCalm
    <2>1. CASE ReportWrite(x)
      <3> DEFINE ph == IF report[x].exit = "ok" THEN "done" ELSE "error"
      <3>1. ph \in Closed /\ report[x].run \in Runs  BY <1>0, <2>1 DEF Closed, RequestsOK, ReportWrite
      <3>2. run' = WithPhase(report[x].run, ph)  BY <2>1 DEF ReportWrite
      <3> HIDE DEF ph
      <3> QED  BY <1>0, <3>1, <3>2, WithPhaseCalm
    <2> QED  BY <1>4, <2>1, SameCalm DEF ReportStep, ReportArrive, ReportRead, ReportRetire, ReportMarker
  <1>5. ASSUME NEW y \in Finishes, FinishStep(y) PROVE RunsCalm
    <2>1. CASE FinishRun(y)
      <3>1. finish[y].run \in Runs  BY <1>0, <2>1 DEF RequestsOK, FinishRun
      <3> QED  BY <1>0, <2>1, <3>1, WithPhaseCalm DEF FinishRun, Closed
    <2> QED  BY <1>5, <2>1, SameCalm DEF FinishStep, FinishArrive, FinishCheck, FinishLoop
  <1>6. ASSUME NEW c \in Cancels, CancelStep(c) PROVE RunsCalm
    <2>1. CASE CancelWrite(c)
      <3>1. cancel[c].run \in Runs  BY <1>0, <2>1 DEF RequestsOK, CancelWrite
      <3> QED  BY <1>0, <2>1, <3>1, WithPhaseCalm DEF CancelWrite, Closed
    <2> QED  BY <1>6, <2>1, SameCalm DEF CancelStep, CancelRead
  <1>7. ASSUME NEW r \in Runs, MachineStep(r) PROVE RunsCalm
    <2>1. CASE PollProgress(r)
      <3> DEFINE age == IF run[r].phase = "running" THEN 0 ELSE run[r].age
      <3>1. run' = [run EXCEPT ![r].age = age]  BY <2>1 DEF PollProgress
      <3> HIDE DEF age
      <3> QED  BY <1>0, <3>1 DEF TypeOK, RunRow, RunsCalm
    <2>2. CASE Silence(r)  BY <1>0, <2>2 DEF TypeOK, RunRow, RunsCalm, Silence
    <2> QED  BY <1>7, <2>1, <2>2, SameCalm DEF MachineStep, GraceElapses, AgentEnds, AgentDies, machineOnly
  <1>8. ASSUME NEW l \in Loops, OwnerStep(l) PROVE RunsCalm
    BY <1>8, SameCalm DEF OwnerStep, Pause, Resume, SetGoal, ClearGoal, EvolveNow, RequestEdit
  <1>10. ASSUME NEW l \in Loops, DeleteStep(l) PROVE RunsCalm
    <2>1. CASE DeleteCommit(l)
      <3>0. OneOpenRun /\ DeletionsOK  BY DEF IInv
      <3>1. ASSUME NEW r \in Runs, r \notin deletion[l].runs PROVE run'[r] = run[r]
        BY <2>1, <3>1 DEF DeleteCommit
      <3>2. ASSUME NEW r \in Runs, r \in deletion[l].runs
            PROVE  /\ run'[r] = [run[r] EXCEPT !.phase = "gone", !.age = 0]
                   /\ run[r].loop = l /\ run[r].phase # "unborn"
        <4>1. run'[r] = [run[r] EXCEPT !.phase = "gone", !.age = 0]  BY <2>1, <3>2 DEF DeleteCommit
        <4>2. run[r].loop = l  BY <3>0, <3>2 DEF DeletionsOK
        <4> QED  BY <1>0, <4>1, <4>2 DEF RowsOK, ConstantsOK
      <3>3. ASSUME NEW r \in Runs, r \in deletion[l].runs
            PROVE  run'[r].phase = "gone" /\ run'[r].loop = l /\ run'[r].outcome = run[r].outcome
        <4>1. run[r] \in RunRow  BY <1>0 DEF TypeOK
        <4> QED  BY <3>2, <3>3, <4>1 DEF RunRow
      <3> QED  BY <3>0, <3>1, <3>2, <3>3 DEF RunsCalm, OneOpenRun, Absent, Open
    <2> QED  BY <1>10, <2>1, SameCalm DEF DeleteStep, DeleteBegin, DeleteRuns, DeleteLeases, Taking
  <1>9. ASSUME Restart \/ UNCHANGED vars PROVE RunsCalm  BY <1>9, SameCalm DEF Restart, vars
  <1> QED  BY <1>1, <1>2, <1>3, <1>4, <1>5, <1>6, <1>7, <1>8, <1>9, <1>10 DEF Next, Step

\* Only a poll mints a lease (registerRunLease).
LEMMA LeasesStep == ASSUME ConstantsOK, IInv, [Next]_vars
                    PROVE  LeasesCalm \/ \E p \in Polls : PollRegister(p)
  <1>0. TypeOK /\ RequestsOK /\ SweepsOK  BY DEF IInv
  <1>1. ASSUME UNCHANGED lease PROVE LeasesCalm  BY <1>1 DEF LeasesCalm
  <1>2. ASSUME NEW r \in Runs, lease' = Retired(r) PROVE LeasesCalm
    BY <1>0, <1>2 DEF TypeOK, LeaseRow, LeasesCalm, Retired
  <1>3. ASSUME NEW s \in Sweeps, SweepTerminalize(s) PROVE LeasesCalm
    BY <1>0, <1>3 DEF TypeOK, SweepsOK, LeaseRow, LeasesCalm, SweepTerminalize
  <1>4. ASSUME NEW x \in Reports, ReportRetire(x) PROVE LeasesCalm
    BY <1>0, <1>2, <1>4 DEF RequestsOK, ReportRetire
  <1>5. ASSUME NEW l \in Loops, DeleteCommit(l) PROVE LeasesCalm
    <2>1. SUFFICES ASSUME NEW r \in Runs, lease'[r].state # lease[r].state
                   PROVE  lease[r].state # "none" /\ lease'[r].state # "grace"
      BY DEF LeasesCalm
    <2>2. lease'[r] = IF r \in deletion[l].leases THEN [lease[r] EXCEPT !.state = "none"] ELSE lease[r]
      BY <1>5 DEF DeleteCommit
    <2>3. lease'[r] = [lease[r] EXCEPT !.state = "none"]
      BY <2>1, <2>2
    <2>4. lease[r] \in LeaseRow
      BY <1>0 DEF TypeOK
    <2>5. lease'[r].state = "none"
      BY <2>3, <2>4 DEF LeaseRow
    <2> QED  BY <2>1, <2>5
  <1>6. ASSUME NEW f \in Fires, TickStep(f) PROVE UNCHANGED lease
    BY <1>6 DEF TickStep, TickBegin, TickInspect, TickRetire, TickAdd, TickDispatch, TickUnmark, tickOnly
  <1>7. ASSUME NEW p \in Polls, PollStep(p) PROVE UNCHANGED lease \/ PollRegister(p)
    BY <1>7 DEF PollStep, PollArrive, PollLoad, PollClaim, PollRespond, PollAbort
  <1>8. ASSUME NEW s \in Sweeps, SweepStep(s) PROVE UNCHANGED lease \/ SweepTerminalize(s)
    BY <1>8 DEF SweepStep, SweepBegin, SweepReclaim, SweepAfter, SweepDefer, SweepEnd
  <1>9. ASSUME NEW x \in Reports, ReportStep(x) PROVE UNCHANGED lease \/ ReportRetire(x)
    BY <1>9 DEF ReportStep, ReportArrive, ReportRead, ReportWrite, ReportMarker
  <1>10. ASSUME NEW y \in Finishes, FinishStep(y) PROVE UNCHANGED lease
    BY <1>10 DEF FinishStep, FinishArrive, FinishCheck, FinishRun, FinishLoop, finishOnly
  <1>11. ASSUME NEW c \in Cancels, CancelStep(c) PROVE UNCHANGED lease
    BY <1>11 DEF CancelStep, CancelRead, CancelWrite, cancelOnly
  <1>12. ASSUME NEW r \in Runs, MachineStep(r) PROVE LeasesCalm
    BY <1>1, <1>2, <1>12 DEF MachineStep, PollProgress, Silence, GraceElapses, AgentEnds, AgentDies, machineOnly
  <1>13. ASSUME NEW l \in Loops, OwnerStep(l) PROVE UNCHANGED lease
    BY <1>13 DEF OwnerStep, Pause, Resume, SetGoal, ClearGoal, EvolveNow, RequestEdit
  <1>15. ASSUME NEW l \in Loops, DeleteStep(l) PROVE UNCHANGED lease \/ DeleteCommit(l)
    BY <1>15 DEF DeleteStep, DeleteBegin, DeleteRuns, DeleteLeases, Taking
  <1>14. ASSUME Restart \/ UNCHANGED vars PROVE UNCHANGED lease  BY <1>14 DEF Restart, vars
  <1> QED
    BY <1>1, <1>3, <1>4, <1>5, <1>6, <1>7, <1>8, <1>9, <1>10, <1>11, <1>12, <1>13, <1>14, <1>15 DEF Next, Step

\* Only the answer to a poll starts agents.
LEMMA AgentsStep == ASSUME ConstantsOK, IInv, [Next]_vars
                    PROVE  AgentsCalm \/ \E p \in Polls : PollRespond(p)
  <1>0. TypeOK /\ RequestsOK  BY DEF IInv
  <1>1. ASSUME UNCHANGED agent PROVE AgentsCalm  BY <1>1 DEF AgentsCalm
  <1>2. ASSUME NEW x \in Reports, report[x].pc # "idle", ReportAnswer(x) PROVE AgentsCalm
    <2>1. PICK pc \in {agent[report[x].run].pc, "quiet"} : agent' = [agent EXCEPT ![report[x].run].pc = pc]
      BY <1>2 DEF ReportAnswer
    <2> QED  BY <1>0, <1>2, <2>1 DEF TypeOK, RequestsOK, Agent, AgentsCalm
  <1>3. ASSUME NEW x \in Reports, NEW r \in Runs, ReportArrive(x, r) PROVE AgentsCalm
    BY <1>0, <1>3 DEF TypeOK, Agent, AgentsCalm, ReportArrive
  <1>4. ASSUME NEW r \in Runs, AgentEnds(r) \/ AgentDies(r) PROVE AgentsCalm
    BY <1>0, <1>4 DEF TypeOK, Agent, AgentsCalm, AgentEnds, AgentDies
  <1>6. ASSUME NEW f \in Fires, TickStep(f) PROVE UNCHANGED agent
    BY <1>6 DEF TickStep, TickBegin, TickInspect, TickRetire, TickAdd, TickDispatch, TickUnmark, tickOnly
  <1>7. ASSUME NEW p \in Polls, PollStep(p) PROVE UNCHANGED agent \/ PollRespond(p)
    BY <1>7 DEF PollStep, PollArrive, PollLoad, PollClaim, PollRegister, PollAbort
  <1>8. ASSUME NEW s \in Sweeps, SweepStep(s) PROVE UNCHANGED agent
    BY <1>8 DEF SweepStep, SweepBegin, SweepReclaim, SweepTerminalize, SweepAfter, SweepDefer, SweepEnd, sweepOnly
  <1>9. ASSUME NEW x \in Reports, ReportStep(x) PROVE AgentsCalm
    BY <1>1, <1>2, <1>3, <1>9 DEF ReportStep, ReportRead, ReportWrite, ReportRetire, ReportMarker
  <1>10. ASSUME NEW y \in Finishes, FinishStep(y) PROVE UNCHANGED agent
    BY <1>10 DEF FinishStep, FinishArrive, FinishCheck, FinishRun, FinishLoop, finishOnly
  <1>11. ASSUME NEW c \in Cancels, CancelStep(c) PROVE UNCHANGED agent
    BY <1>11 DEF CancelStep, CancelRead, CancelWrite, cancelOnly
  <1>12. ASSUME NEW r \in Runs, MachineStep(r) PROVE AgentsCalm
    BY <1>1, <1>4, <1>12 DEF MachineStep, PollProgress, Silence, GraceElapses
  <1>13. ASSUME NEW l \in Loops, OwnerStep(l) PROVE UNCHANGED agent
    BY <1>13 DEF OwnerStep, Pause, Resume, SetGoal, ClearGoal, EvolveNow, RequestEdit, ownerOnly
  <1>15. ASSUME NEW l \in Loops, DeleteStep(l) PROVE UNCHANGED agent
    BY <1>15 DEF DeleteStep, DeleteBegin, DeleteRuns, DeleteLeases, DeleteCommit, Taking, ownerOnly
  <1>14. ASSUME Restart \/ UNCHANGED vars PROVE UNCHANGED agent  BY <1>14 DEF Restart, vars
  <1> QED
    BY <1>1, <1>6, <1>7, <1>8, <1>9, <1>10, <1>11, <1>12, <1>13, <1>14, <1>15 DEF Next, Step

\* Only the commit of deleteLoop deletes a loop.
LEMMA StoredStep == ASSUME ConstantsOK, IInv, [Next]_vars
                    PROVE  StoredCalm \/ \E l \in Loops : DeleteCommit(l)
  <1>0. TypeOK  BY DEF IInv
  <1>1. ASSUME UNCHANGED loop PROVE StoredCalm  BY <1>1 DEF StoredCalm
  <1>2. ASSUME NEW l, NEW role, loop' = ClearMarker(l, role) PROVE StoredCalm
    BY <1>0, <1>2 DEF TypeOK, LoopRow, ClearMarker, StoredCalm
  <1>3. ASSUME NEW l, MayPause(l) \/ MayFlagEvolve(l) PROVE StoredCalm
    BY <1>0, <1>3 DEF TypeOK, LoopRow, MayPause, MayFlagEvolve, StoredCalm
  <1>4. ASSUME NEW y \in Finishes, FinishLoop(y) PROVE StoredCalm
    BY <1>0, <1>4 DEF TypeOK, LoopRow, FinishLoop, StoredCalm
  <1>13. ASSUME NEW l \in Loops, DeleteStep(l) PROVE StoredCalm \/ DeleteCommit(l)
    BY <1>1, <1>13 DEF DeleteStep, DeleteBegin, DeleteRuns, DeleteLeases, Taking
  <1>5. ASSUME NEW l \in Loops, OwnerStep(l) PROVE StoredCalm
    BY <1>0, <1>5 DEF TypeOK, LoopRow, StoredCalm, OwnerStep, Pause, Resume, SetGoal, ClearGoal, EvolveNow,
       RequestEdit
  <1>6. ASSUME NEW f \in Fires, TickStep(f) PROVE StoredCalm
    BY <1>1, <1>2, <1>6 DEF TickStep, TickBegin, TickInspect, TickRetire, TickAdd, TickDispatch, TickUnmark
  <1>7. ASSUME NEW p \in Polls, PollStep(p) PROVE UNCHANGED loop
    BY <1>7 DEF PollStep, PollArrive, PollLoad, PollClaim, PollRegister, PollRespond, PollAbort
  <1>8. ASSUME NEW s \in Sweeps, SweepStep(s) PROVE StoredCalm
    <2>1. CASE SweepAfter(s)  BY <1>1, <1>2, <1>3, <2>1 DEF SweepAfter
    <2> QED
      BY <1>1, <1>8, <2>1 DEF SweepStep, SweepBegin, SweepReclaim, SweepTerminalize, SweepDefer, SweepEnd
  <1>9. ASSUME NEW x \in Reports, ReportStep(x) PROVE StoredCalm
    <2>1. CASE ReportMarker(x)  BY <1>1, <1>2, <1>3, <2>1 DEF ReportMarker
    <2> QED  BY <1>1, <1>9, <2>1 DEF ReportStep, ReportArrive, ReportRead, ReportWrite, ReportRetire
  <1>10. ASSUME NEW y \in Finishes, FinishStep(y) PROVE StoredCalm
    BY <1>1, <1>4, <1>10 DEF FinishStep, FinishArrive, FinishCheck, FinishRun
  <1>11. ASSUME NEW c \in Cancels, CancelStep(c) PROVE UNCHANGED loop
    BY <1>11 DEF CancelStep, CancelRead, CancelWrite, cancelOnly
  <1>12. ASSUME NEW r \in Runs, MachineStep(r) PROVE UNCHANGED loop
    BY <1>12 DEF MachineStep, PollProgress, Silence, GraceElapses, AgentEnds, AgentDies, machineOnly
  <1>14. ASSUME Restart \/ UNCHANGED vars PROVE UNCHANGED loop  BY <1>14 DEF Restart, vars
  <1> QED
    BY <1>1, <1>5, <1>6, <1>7, <1>8, <1>9, <1>10, <1>11, <1>12, <1>13, <1>14 DEF Next, Step

\* A handler in flight is stepped by its own actions alone, and a restart forgets it.
LEMMA HandlersStep == ASSUME [Next]_vars
    PROVE  /\ UNCHANGED <<tick, inFlight>> \/ Restart \/ \E f \in Fires : TickStep(f)
           /\ UNCHANGED poll \/ Restart \/ \E p \in Polls : PollStep(p)
           /\ UNCHANGED sweep \/ Restart \/ \E s \in Sweeps : SweepStep(s)
           /\ UNCHANGED report \/ Restart \/ \E x \in Reports : ReportStep(x)
           /\ UNCHANGED finish \/ Restart \/ \E y \in Finishes : FinishStep(y)
           /\ UNCHANGED cancel \/ Restart \/ \E c \in Cancels : CancelStep(c)
  <1>1. ASSUME NEW f \in Fires, TickStep(f) PROVE UNCHANGED <<poll, sweep, report, finish, cancel>>
    BY <1>1 DEF TickStep, TickBegin, TickInspect, TickRetire, TickAdd, TickDispatch, TickUnmark, tickOnly
  <1>2. ASSUME NEW p \in Polls, PollStep(p) PROVE UNCHANGED <<tick, inFlight, sweep, report, finish, cancel>>
    BY <1>2 DEF PollStep, PollArrive, PollLoad, PollClaim, PollRegister, PollRespond, PollAbort, pollOnly
  <1>3. ASSUME NEW s \in Sweeps, SweepStep(s) PROVE UNCHANGED <<tick, inFlight, poll, report, finish, cancel>>
    BY <1>3 DEF SweepStep, SweepBegin, SweepReclaim, SweepTerminalize, SweepAfter, SweepDefer, SweepEnd, sweepOnly
  <1>4. ASSUME NEW x \in Reports, ReportStep(x) PROVE UNCHANGED <<tick, inFlight, poll, sweep, finish, cancel>>
    BY <1>4 DEF ReportStep, ReportArrive, ReportRead, ReportWrite, ReportRetire, ReportMarker, reportOnly
  <1>5. ASSUME NEW y \in Finishes, FinishStep(y) PROVE UNCHANGED <<tick, inFlight, poll, sweep, report, cancel>>
    BY <1>5 DEF FinishStep, FinishArrive, FinishCheck, FinishRun, FinishLoop, finishOnly
  <1>6. ASSUME NEW c \in Cancels, CancelStep(c) PROVE UNCHANGED <<tick, inFlight, poll, sweep, report, finish>>
    BY <1>6 DEF CancelStep, CancelRead, CancelWrite, cancelOnly
  <1>7. ASSUME NEW r \in Runs, MachineStep(r)
        PROVE UNCHANGED <<tick, inFlight, poll, sweep, report, finish, cancel>>
    BY <1>7 DEF MachineStep, PollProgress, Silence, GraceElapses, AgentEnds, AgentDies, machineOnly, handlers, pollOnly
  <1>8. ASSUME NEW l \in Loops, OwnerStep(l)
        PROVE UNCHANGED <<tick, inFlight, poll, sweep, report, finish, cancel>>
    BY <1>8 DEF OwnerStep, Pause, Resume, SetGoal, ClearGoal, EvolveNow, RequestEdit, ownerOnly, handlers
  <1>10. ASSUME NEW l \in Loops, DeleteStep(l)
         PROVE UNCHANGED <<tick, inFlight, poll, sweep, report, finish, cancel>>
    BY <1>10 DEF DeleteStep, DeleteBegin, DeleteRuns, DeleteLeases, DeleteCommit, Taking, ownerOnly, handlers
  <1>9. UNCHANGED vars => UNCHANGED <<tick, inFlight, poll, sweep, report, finish, cancel>>  BY DEF vars, handlers
  <1> QED  BY <1>1, <1>2, <1>3, <1>4, <1>5, <1>6, <1>7, <1>8, <1>9, <1>10 DEF Next, Step

\* A deletion is stepped by its own statements alone, and a restart rolls it back.
LEMMA DeletionStep == ASSUME [Next]_vars
    PROVE  \/ UNCHANGED deletion /\ (LocksKept \/ UNCHANGED <<loop, run, poll>>)
           \/ Restart
           \/ \E l \in Loops : DeleteStep(l)
  <1>1. CASE Step /\ LocksKept
    <2>1. ASSUME NEW f \in Fires, TickStep(f) PROVE UNCHANGED deletion
      BY <2>1 DEF TickStep, TickBegin, TickInspect, TickRetire, TickAdd, TickDispatch, TickUnmark, tickOnly
    <2>2. ASSUME NEW p \in Polls, PollStep(p) PROVE UNCHANGED deletion
      BY <2>2 DEF PollStep, PollArrive, PollLoad, PollClaim, PollRegister, PollRespond, PollAbort, pollOnly
    <2>3. ASSUME NEW s \in Sweeps, SweepStep(s) PROVE UNCHANGED deletion
      BY <2>3 DEF SweepStep, SweepBegin, SweepReclaim, SweepTerminalize, SweepAfter, SweepDefer, SweepEnd,
                  sweepOnly
    <2>4. ASSUME NEW x \in Reports, ReportStep(x) PROVE UNCHANGED deletion
      BY <2>4 DEF ReportStep, ReportArrive, ReportRead, ReportWrite, ReportRetire, ReportMarker, reportOnly
    <2>5. ASSUME NEW y \in Finishes, FinishStep(y) PROVE UNCHANGED deletion
      BY <2>5 DEF FinishStep, FinishArrive, FinishCheck, FinishRun, FinishLoop, finishOnly
    <2>6. ASSUME NEW c \in Cancels, CancelStep(c) PROVE UNCHANGED deletion
      BY <2>6 DEF CancelStep, CancelRead, CancelWrite, cancelOnly
    <2>7. ASSUME NEW r \in Runs, MachineStep(r) PROVE UNCHANGED deletion
      BY <2>7 DEF MachineStep, PollProgress, Silence, GraceElapses, AgentEnds, AgentDies, machineOnly, pollOnly
    <2>8. ASSUME NEW l \in Loops, OwnerStep(l) PROVE UNCHANGED deletion
      BY <2>8 DEF OwnerStep, Pause, Resume, SetGoal, ClearGoal, EvolveNow, RequestEdit
    <2> QED  BY <1>1, <2>1, <2>2, <2>3, <2>4, <2>5, <2>6, <2>7, <2>8 DEF Step
  <1>2. UNCHANGED vars => UNCHANGED <<deletion, loop, run, poll>>  BY DEF vars, handlers
  <1> QED  BY <1>1, <1>2 DEF Next

\* Once a run has strayed it is remembered.
LEMMA StraysStep == ASSUME [Next]_vars PROVE strays \subseteq strays'
  <1>1. ASSUME NEW f \in Fires, TickStep(f) PROVE UNCHANGED strays
    BY <1>1 DEF TickStep, TickBegin, TickInspect, TickRetire, TickAdd, TickDispatch, TickUnmark, tickOnly
  <1>2. ASSUME NEW p \in Polls, PollStep(p) PROVE strays \subseteq strays'
    <2>1. CASE PollLoad(p)
      <3>1. PICK r \in poll[p].todo : strays' \in {strays, strays \cup {r}}  BY <2>1 DEF PollLoad
      <3> QED  BY <3>1
    <2> QED  BY <1>2, <2>1 DEF PollStep, PollArrive, PollClaim, PollRegister, PollRespond, PollAbort
  <1>3. ASSUME NEW s \in Sweeps, SweepStep(s) PROVE UNCHANGED strays
    BY <1>3 DEF SweepStep, SweepBegin, SweepReclaim, SweepTerminalize, SweepAfter, SweepDefer, SweepEnd, sweepOnly
  <1>4. ASSUME NEW x \in Reports, ReportStep(x) PROVE UNCHANGED strays
    BY <1>4 DEF ReportStep, ReportArrive, ReportRead, ReportWrite, ReportRetire, ReportMarker, reportOnly
  <1>5. ASSUME NEW y \in Finishes, FinishStep(y) PROVE UNCHANGED strays
    BY <1>5 DEF FinishStep, FinishArrive, FinishCheck, FinishRun, FinishLoop, finishOnly
  <1>6. ASSUME NEW c \in Cancels, CancelStep(c) PROVE UNCHANGED strays
    BY <1>6 DEF CancelStep, CancelRead, CancelWrite, cancelOnly
  <1>7. ASSUME NEW r \in Runs, MachineStep(r) PROVE UNCHANGED strays
    BY <1>7 DEF MachineStep, PollProgress, Silence, GraceElapses, AgentEnds, AgentDies, machineOnly
  <1>8. ASSUME NEW l \in Loops, OwnerStep(l) \/ DeleteStep(l) PROVE UNCHANGED strays
    BY <1>8 DEF OwnerStep, Pause, Resume, SetGoal, ClearGoal, EvolveNow, RequestEdit, ownerOnly,
                DeleteStep, DeleteBegin, DeleteRuns, DeleteLeases, DeleteCommit, Taking
  <1>9. ASSUME Restart \/ UNCHANGED vars PROVE UNCHANGED strays  BY <1>9 DEF Restart, vars
  <1> QED  BY <1>1, <1>2, <1>3, <1>4, <1>5, <1>6, <1>7, <1>8, <1>9 DEF Next, Step

\* A poll is about to claim a run only if it was, or has just read the loop of it; if a
\* deletion had passed that run by, it strays.
LEMMA LoadStep == ASSUME ConstantsOK, IInv, [Next]_vars, NEW p \in Polls, poll'[p].pc = "claim"
    PROVE  \/ poll'[p] = poll[p]
           \/ /\ UNCHANGED run
              /\ Missed(run[poll'[p].run].loop, poll'[p].run) => poll'[p].run \in strays'
  <1>0. TypeOK /\ poll[p] \in Poll  BY DEF IInv, TypeOK
  <1>1. CASE PollLoad(p)
    <2>1. PICK r \in poll[p].todo :
            \/ /\ \E is, edit : poll' = [poll EXCEPT ![p] = [pc |-> "claim", todo |-> @.todo \ {r}, run |-> r,
                                       is |-> is, edit |-> edit, got |-> @.got]]
               /\ UNCHANGED run
               /\ strays' = IF Missed(run[r].loop, r) THEN strays \cup {r} ELSE strays
            \/ poll' = [poll EXCEPT ![p].todo = @ \ {r}]
      BY <1>1, Zenon DEF PollLoad
    <2>2. CASE poll' = [poll EXCEPT ![p].todo = @ \ {r}]
      <3>1. poll'[p].pc = "next"  BY <1>0, <1>1, <2>2 DEF TypeOK, Poll, PollLoad
      <3> QED  BY <3>1
    <2>3. CASE /\ \E is, edit : poll' = [poll EXCEPT ![p] = [pc |-> "claim", todo |-> @.todo \ {r}, run |-> r,
                                       is |-> is, edit |-> edit, got |-> @.got]]
               /\ UNCHANGED run
               /\ strays' = IF Missed(run[r].loop, r) THEN strays \cup {r} ELSE strays
      <3>1. poll'[p].run = r  BY <1>0, <2>3 DEF TypeOK
      <3> QED  BY <2>3, <3>1
    <2> QED  BY <2>1, <2>2, <2>3
  <1>2. CASE Restart  BY <1>2 DEF Restart, NoPoll
  <1>3. CASE PollArrive(p)
    <2>1. poll'[p] = poll[p] \/ \E S : poll'[p] = [NoPoll EXCEPT !.pc = "next", !.todo = S]
      BY <1>0, <1>3 DEF TypeOK, PollArrive
    <2> QED  BY <2>1 DEF NoPoll
  <1>4. CASE PollClaim(p)
    <2>1. poll' = [poll EXCEPT ![p].pc = "register"] \/ poll' = [poll EXCEPT ![p] = NextOf(poll[p])]
      BY <1>4 DEF PollClaim
    <2>3. poll \in [Polls -> Poll]  BY <1>0 DEF TypeOK
    <2>4. CASE poll' = [poll EXCEPT ![p].pc = "register"]
      <3>1. poll'[p].pc = "register"  BY <2>3, <2>4 DEF Poll
      <3> QED  BY <3>1
    <2>5. CASE poll' = [poll EXCEPT ![p] = NextOf(poll[p])]
      <3>1. poll'[p] = NextOf(poll[p])  BY <2>3, <2>5
      <3> QED  BY <3>1 DEF NextOf, NoPoll
    <2> QED  BY <2>1, <2>4, <2>5
  <1>5. CASE PollRegister(p)
    <2> DEFINE mine == [poll[p] EXCEPT !.got = poll[p].got \cup {poll[p].run}]
    <2>1. poll' = [poll EXCEPT ![p] = NextOf(mine)]  BY <1>5 DEF PollRegister
    <2> HIDE DEF mine
    <2>2. poll'[p].pc = "next"  BY <1>0, <2>1 DEF TypeOK, NextOf, NoPoll
    <2> QED  BY <2>2
  <1>6. CASE PollRespond(p) \/ PollAbort(p)
    <2>1. poll'[p] = NoPoll  BY <1>0, <1>6 DEF TypeOK, PollRespond, PollAbort
    <2> QED  BY <2>1 DEF NoPoll
  <1>7. ASSUME NEW q \in Polls, PollStep(q), q # p PROVE poll'[p] = poll[p]
    BY <1>0, <1>7
       DEF TypeOK, PollStep, PollArrive, PollLoad, PollClaim, PollRegister, PollRespond, PollAbort
  <1>8. CASE PollStep(p)  BY <1>1, <1>3, <1>4, <1>5, <1>6, <1>8 DEF PollStep
  <1> QED  BY <1>2, <1>7, <1>8, HandlersStep

\* A poll takes up a run only by claiming it while it is pending.
LEMMA HeldStep == ASSUME ConstantsOK, IInv, [Next]_vars
    PROVE  HeldCalm \/ \E p \in Polls : /\ PollClaim(p) /\ run[poll[p].run].phase = "pending"
                                         /\ Held(p)' \subseteq Held(p) \cup {poll[p].run}
                                         /\ \A q \in Polls \ {p} : Held(q)' = Held(q)
  <1>0. TypeOK /\ PollsOK  BY DEF IInv
  <1>1. CASE UNCHANGED poll  BY <1>1 DEF HeldCalm, Held
  <1>2. CASE Restart  BY <1>2 DEF Restart, HeldCalm, Held, NoPoll
  <1>3. ASSUME NEW p \in Polls, \A q \in Polls \ {p} : poll'[q] = poll[q]
        PROVE  \A q \in Polls \ {p} : Held(q)' = Held(q)
    BY <1>3 DEF Held
  <1>4. ASSUME NEW p \in Polls, PollStep(p) PROVE \A q \in Polls \ {p} : poll'[q] = poll[q]
    BY <1>0, <1>4 DEF TypeOK, PollStep, PollArrive, PollLoad, PollClaim, PollRegister, PollRespond, PollAbort
  <1>5. ASSUME NEW p \in Polls, Held(p)' \subseteq Held(p), PollStep(p) PROVE HeldCalm
    BY <1>3, <1>4, <1>5 DEF HeldCalm
  <1>6. ASSUME NEW p \in Polls, PollArrive(p) PROVE Held(p)' \subseteq Held(p)
    <2>1. poll[p].pc = "idle" BY <1>6 DEF PollArrive
    <2>2. poll'[p] = poll[p] \/ \E S : poll'[p] = [NoPoll EXCEPT !.pc = "next", !.todo = S]
      BY <1>0, <1>6 DEF TypeOK, PollArrive
    <2> QED  BY <2>2 DEF Held, NoPoll
  <1>7. ASSUME NEW p \in Polls, PollLoad(p) PROVE Held(p)' \subseteq Held(p)
    <2>1. poll[p] \in Poll /\ poll[p].pc = "next"  BY <1>0, <1>7 DEF TypeOK, PollLoad
    <2>2. poll'[p].got = poll[p].got /\ poll'[p].pc # "register"
      BY <1>0, <1>7, <2>1 DEF TypeOK, Poll, PollLoad
    <2> QED  BY <2>2 DEF Held
  <1>8. ASSUME NEW p \in Polls, PollRegister(p) PROVE Held(p)' \subseteq Held(p)
    <2> DEFINE mine == [poll[p] EXCEPT !.got = poll[p].got \cup {poll[p].run}]
    <2>1. poll' = [poll EXCEPT ![p] = NextOf(mine)] /\ poll[p].pc = "register"  BY <1>8 DEF PollRegister
    <2>2. mine.got = poll[p].got \cup {poll[p].run}  BY <1>0 DEF TypeOK, Poll
    <2> HIDE DEF mine
    <2>3. poll'[p].got = mine.got /\ poll'[p].pc = "next"  BY <1>0, <2>1 DEF TypeOK, NextOf, NoPoll
    <2> QED  BY <2>1, <2>2, <2>3 DEF Held
  <1>9. ASSUME NEW p \in Polls, PollRespond(p) \/ PollAbort(p) PROVE Held(p)' \subseteq Held(p)
    <2>1. poll'[p] = NoPoll  BY <1>0, <1>9 DEF TypeOK, PollRespond, PollAbort
    <2> QED  BY <2>1 DEF Held, NoPoll
  <1>10. ASSUME NEW p \in Polls, PollClaim(p)
         PROVE  \/ Held(p)' \subseteq Held(p)
                \/ run[poll[p].run].phase = "pending" /\ Held(p)' \subseteq Held(p) \cup {poll[p].run}
    <2>1. CASE run[poll[p].run].phase = "pending"
      <3>1. poll'[p].got = poll[p].got /\ poll'[p].run = poll[p].run
        BY <1>0, <1>10, <2>1 DEF TypeOK, Poll, PollClaim
      <3> QED  BY <2>1, <3>1 DEF Held
    <2>2. CASE run[poll[p].run].phase # "pending"
      <3>2. poll' = [poll EXCEPT ![p] = NextOf(@)]  BY <1>10, <2>2 DEF PollClaim
      <3>3. poll'[p] = NextOf(poll[p])  BY <1>0, <3>2 DEF TypeOK
      <3>1. poll'[p].got = poll[p].got /\ poll'[p].pc = "next"  BY <3>3 DEF NextOf, NoPoll
      <3> QED  BY <3>1 DEF Held
    <2> QED  BY <2>1, <2>2
  <1>11. ASSUME NEW p \in Polls, PollStep(p)
         PROVE  HeldCalm \/ /\ PollClaim(p) /\ run[poll[p].run].phase = "pending"
                            /\ Held(p)' \subseteq Held(p) \cup {poll[p].run}
                            /\ \A q \in Polls \ {p} : Held(q)' = Held(q)
    BY <1>3, <1>4, <1>5, <1>6, <1>7, <1>8, <1>9, <1>10, <1>11 DEF PollStep
  <1> QED  BY <1>1, <1>2, <1>11, HandlersStep

\* What addRun does: when a tick adds its run, the loop has no open run, one new run
\* becomes pending for that loop, and nothing else changes but the tick.
LEMMA AddStep == ASSUME ConstantsOK, IInv, NEW f \in Fires, TickAdd(f)
    PROVE  /\ tick[f].loop \in Loops /\ OpenRuns(tick[f].loop) = {}
           /\ UNCHANGED <<lease, agent, loop, poll, sweep, report, finish, cancel>>
           /\ \E r \in Runs :
                /\ run[r].phase = "unborn" /\ run'[r].phase = "pending"
                /\ run'[r].loop = tick[f].loop /\ run'[r].outcome = run[r].outcome
                /\ \A q \in Runs \ {r} : run'[q] = run[q]
                /\ tick' = [tick EXCEPT ![f] = [@ EXCEPT !.pc = "dispatch", !.run = r]]
  <1>0. TypeOK /\ TicksOK  BY DEF IInv
  <1>1. tick[f].loop \in Loops /\ OpenRuns(tick[f].loop) = {}
    BY <1>0 DEF TypeOK, TicksOK, Tick, TickAdd
  <1>2. UNCHANGED <<lease, agent, loop, poll, sweep, report, finish, cancel>>  BY DEF TickAdd, tickOnly
  <1>3. PICK r \in Runs :
          /\ run[r].phase = "unborn"
          /\ run' = [run EXCEPT ![r] = [@ EXCEPT !.phase = "pending", !.role = tick[f].role,
                                                !.loop = tick[f].loop]]
          /\ tick' = [tick EXCEPT ![f] = [@ EXCEPT !.pc = "dispatch", !.run = r]]
    BY DEF TickAdd
  <1>4. /\ run'[r].phase = "pending" /\ run'[r].loop = tick[f].loop
        /\ run'[r].outcome = run[r].outcome
        /\ \A q \in Runs \ {r} : run'[q] = run[q]
    BY <1>0, <1>3 DEF TypeOK, RunRow
  <1> QED  BY <1>1, <1>2, <1>3, <1>4

\* What claimPendingRun does: it starts the run the poll loaded if that is still
\* pending, and changes no run otherwise.
LEMMA ClaimStep == ASSUME ConstantsOK, IInv, NEW p \in Polls, PollClaim(p)
    PROVE  LET r == poll[p].run IN
           /\ r \in Runs /\ run[r].phase # "unborn"
           /\ UNCHANGED <<lease, agent, loop, tick, inFlight, sweep, report, finish, cancel>>
           /\ \A q \in Runs \ {r} : run'[q] = run[q]
           /\ run'[r].loop = run[r].loop /\ run'[r].outcome = run[r].outcome
           /\ \/ run[r].phase # "pending" /\ run'[r].phase = run[r].phase
              \/ run[r].phase = "pending" /\ run'[r].phase = "running"
  <1> DEFINE r == poll[p].run
  <1>0. TypeOK /\ PollsOK  BY DEF IInv
  <1>1. r \in Runs /\ run[r].phase # "unborn"  BY <1>0 DEF PollsOK, PollClaim
  <1>2. run' \in {run, [run EXCEPT ![r] = [@ EXCEPT !.phase = "running", !.age = 0]]}
        /\ (run[r].phase = "pending" => run' = [run EXCEPT ![r] = [@ EXCEPT !.phase = "running", !.age = 0]])
        /\ (run[r].phase # "pending" => UNCHANGED run)
    BY DEF PollClaim
  <1> HIDE DEF r
  <1>3. /\ \A q \in Runs \ {r} : run'[q] = run[q]
        /\ run'[r].loop = run[r].loop /\ run'[r].outcome = run[r].outcome
        /\ \/ run[r].phase # "pending" /\ run'[r].phase = run[r].phase
           \/ run[r].phase = "pending" /\ run'[r].phase = "running"
    <2>1. CASE run[r].phase # "pending"  BY <1>2, <2>1
    <2>2. CASE run[r].phase = "pending"
      <3>1. run' = [run EXCEPT ![r] = [@ EXCEPT !.phase = "running", !.age = 0]]  BY <1>2, <2>2
      <3>2. run[r] \in RunRow /\ run'[r] = [run[r] EXCEPT !.phase = "running", !.age = 0]
        BY <1>0, <1>1, <3>1 DEF TypeOK
      <3>3. run'[r].loop = run[r].loop /\ run'[r].outcome = run[r].outcome /\ run'[r].phase = "running"
        BY <3>2 DEF RunRow
      <3> QED  BY <1>0, <2>2, <3>1, <3>3 DEF TypeOK
    <2> QED  BY <2>1, <2>2
  <1>4. UNCHANGED <<lease, agent, loop, tick, inFlight, sweep, report, finish, cancel>>
    BY DEF PollClaim, pollOnly
  <1> QED  BY <1>1, <1>3, <1>4 DEF r

\* What registerRunLease does: it mints the lease of a run its poll holds, alone.
LEMMA RegisterStep == ASSUME ConstantsOK, IInv, NEW p \in Polls, PollRegister(p)
    PROVE  LET r == poll[p].run IN
           /\ r \in Runs /\ r \in Held(p) /\ UNCHANGED agent
           /\ lease'[r].state = "active"
           /\ \A q \in Runs \ {r} : lease'[q] = lease[q]
  <1>0. TypeOK /\ PollsOK  BY DEF IInv
  <1>1. poll[p].run \in Runs /\ poll[p].run \in Held(p)  BY <1>0 DEF PollsOK, PollRegister, Held
  <1> QED  BY <1>0, <1>1 DEF TypeOK, PollRegister

\* What the answer to a poll does: only runs that the poll holds get an agent.
LEMMA RespondStep == ASSUME ConstantsOK, IInv, NEW p \in Polls, PollRespond(p)
    PROVE  /\ UNCHANGED <<run, lease>> /\ Held(p)' = {}
           /\ \A r \in Runs : agent'[r] # agent[r] => r \in Held(p)
           /\ \A q \in Polls \ {p} : Held(q)' = Held(q)
  <1>0. TypeOK  BY DEF IInv
  <1>1. poll'[p] = NoPoll /\ \A q \in Polls \ {p} : poll'[q] = poll[q]  BY <1>0 DEF TypeOK, PollRespond
  <1> QED  BY <1>1 DEF PollRespond, Held, NoPoll

\* A run that exists stays, keeps its loop, and never goes back towards the queue.
LEMMA BornStep == ASSUME ConstantsOK, IInv, [Next]_vars, NEW r \in Runs, run[r].phase # "unborn"
                  PROVE  /\ run'[r].phase # "unborn" /\ run'[r].loop = run[r].loop
                         /\ run'[r].phase = "pending" => run[r].phase = "pending"
                         /\ run[r].phase \notin Open => run'[r].phase \notin Open
  <1>1. CASE RunsCalm  BY <1>1 DEF RunsCalm, Closed, Open
  <1>2. ASSUME NEW f \in Fires, TickAdd(f) PROVE run'[r] = run[r]
    <2>1. PICK q \in Runs : run[q].phase = "unborn" /\ \A z \in Runs \ {q} : run'[z] = run[z]
      BY <1>2, AddStep
    <2> QED  BY <2>1
  <1>3. ASSUME NEW p \in Polls, PollClaim(p)
        PROVE  /\ run'[r].phase # "unborn" /\ run'[r].loop = run[r].loop
               /\ run'[r].phase = "pending" => run[r].phase = "pending"
               /\ run[r].phase \notin Open => run'[r].phase \notin Open
    BY <1>3, ClaimStep DEF Open
  <1> QED  BY <1>1, <1>2, <1>3, RunsStep

(*****************************************************************************)
(* The conjuncts of the inductive invariant.                                 *)
(*****************************************************************************)

\* Every step keeps the rows of existing runs linked to a loop.
LEMMA RowsStep == ASSUME ConstantsOK, IInv, [Next]_vars PROVE RowsOK'
  <1>0. TypeOK /\ RowsOK  BY DEF IInv
  <1>1. CASE RunsCalm  BY <1>0, <1>1 DEF RowsOK, RunsCalm, Closed, Absent
  <1>2. ASSUME NEW f \in Fires, TickAdd(f) PROVE RowsOK'
    <2>1. PICK r \in Runs :
            /\ run[r].phase = "unborn" /\ run'[r].phase = "pending" /\ run'[r].loop = tick[f].loop
            /\ \A q \in Runs \ {r} : run'[q] = run[q]
      BY <1>2, AddStep
    <2>2. tick[f].loop \in Loops /\ OpenRuns(tick[f].loop) = {}  BY <1>2, AddStep
    <2> QED  BY <1>0, <2>1, <2>2 DEF RowsOK, ConstantsOK
  <1>3. ASSUME NEW p \in Polls, PollClaim(p) PROVE RowsOK'
    BY <1>0, <1>3, ClaimStep DEF RowsOK
  <1> QED  BY <1>1, <1>2, <1>3, RunsStep

\* No step gives a loop a second open run: runs are added only into an empty slot.
LEMMA OneOpenStep == ASSUME ConstantsOK, IInv, [Next]_vars PROVE OneOpenRun'
  <1>0. TypeOK /\ OneOpenRun  BY DEF IInv
  <1>1. CASE RunsCalm  BY <1>0, <1>1 DEF OneOpenRun, RunsCalm, Closed, Open
  <1>2. ASSUME NEW f \in Fires, TickAdd(f) PROVE OneOpenRun'
    <2>1. PICK r \in Runs :
            /\ run[r].phase = "unborn" /\ run'[r].phase = "pending" /\ run'[r].loop = tick[f].loop
            /\ \A q \in Runs \ {r} : run'[q] = run[q]
      BY <1>2, AddStep
    <2>2. tick[f].loop \in Loops /\ OpenRuns(tick[f].loop) = {}  BY <1>2, AddStep
    <2> QED  BY <1>0, <2>1, <2>2 DEF OneOpenRun, OpenRuns
  <1>3. ASSUME NEW p \in Polls, PollClaim(p) PROVE OneOpenRun'
    BY <1>0, <1>3, ClaimStep DEF OneOpenRun, Open
  <1> QED  BY <1>1, <1>2, <1>3, RunsStep

\* No step of anybody else opens a run behind the back of a tick: a tick keeps the
\* in-flight mark of its loop, so what it still has to retire covers what is open.
LEMMA TicksStep == ASSUME ConstantsOK, IInv, [Next]_vars PROVE TicksOK'
  <1>0. TypeOK /\ TicksOK  BY DEF IInv
  <1>1. CASE UNCHANGED <<tick, inFlight>>
    <2>1. CASE RunsCalm
      BY <1>0, <1>1, <2>1, CalmOpens DEF TicksOK
    <2>2. ASSUME NEW f \in Fires, TickAdd(f) PROVE FALSE
      BY <1>0, <1>1, <2>2 DEF TypeOK, Tick, TickAdd
    <2>3. ASSUME NEW p \in Polls, PollClaim(p) PROVE TicksOK'
      BY <1>0, <1>1, <2>3, ClaimStep DEF TicksOK, OpenRuns, Open
    <2> QED  BY <2>1, <2>2, <2>3, RunsStep
  <1>2. CASE Restart  BY <1>2 DEF Restart, TicksOK, NoTick
  <1>3. ASSUME NEW f \in Fires, TickStep(f) PROVE TicksOK'
    <2>1. ASSUME NEW l \in Loops, TickBegin(f, l) PROVE TicksOK'
      BY <1>0, <2>1 DEF TypeOK, TickBegin, TicksOK, NoTick, Tick, OpenRuns
    <2>2. ASSUME tick[f].pc # "idle", TickEnd(f), RunsCalm PROVE TicksOK'
      BY <1>0, <2>2, CalmOpens DEF TypeOK, TickEnd, TicksOK, NoTick, Tick
    <2>3. CASE TickInspect(f)
      <3>1. RunsCalm /\ tick[f].pc # "idle"  BY <2>3, SameCalm DEF TickInspect
      <3>2. CASE TickEnd(f)  BY <2>2, <3>1, <3>2
      <3>3. CASE /\ tick' = [tick EXCEPT ![f] = [@ EXCEPT !.pc = "retire", !.todo = OpenRuns(tick[f].loop)]]
                 /\ UNCHANGED inFlight
        <4>1. /\ tick'[f].pc = "retire" /\ tick'[f].todo = OpenRuns(tick[f].loop)
              /\ tick'[f].loop = tick[f].loop
              /\ \A g \in Fires \ {f} : tick'[g] = tick[g]
          BY <1>0, <3>3 DEF TypeOK, Tick
        <4>2. \A l : OpenRuns(l)' = OpenRuns(l)  BY <2>3 DEF TickInspect, OpenRuns
        <4> QED  BY <1>0, <2>3, <3>1, <3>3, <4>1, <4>2 DEF TicksOK, TickInspect
      <3> QED  BY <2>3, <3>2, <3>3 DEF TickInspect
    <2>4. CASE TickRetire(f)
      <3>1. PICK r \in tick[f].todo :
              /\ run' = Superseded(r)
              /\ \/ /\ run[r].phase = "pending"
                    /\ tick' = [tick EXCEPT ![f].todo = @ \ {r}] /\ UNCHANGED inFlight
                 \/ TickEnd(f)
        BY <2>4 DEF TickRetire
      <3>2. r \in Runs /\ RunsCalm  BY <1>0, <3>1, SupersededCalm DEF TypeOK, Tick
      <3>3. CASE TickEnd(f)  BY <2>2, <2>4, <3>2, <3>3 DEF TickRetire
      <3>4. CASE /\ run[r].phase = "pending"
                 /\ tick' = [tick EXCEPT ![f].todo = @ \ {r}] /\ UNCHANGED inFlight
        <4>1. run'[r].phase = "canceled"  BY <1>0, <3>1, <3>2, <3>4 DEF TypeOK, RunRow, Superseded
        <4>2. /\ tick'[f].pc = "retire" /\ tick'[f].todo = tick[f].todo \ {r}
              /\ tick'[f].loop = tick[f].loop
              /\ \A g \in Fires \ {f} : tick'[g] = tick[g]
          BY <1>0, <2>4, <3>4 DEF TypeOK, Tick, TickRetire
        <4>3. \A l : OpenRuns(l)' \subseteq OpenRuns(l) \ {r}
          BY <3>2, <4>1, CalmOpens DEF OpenRuns, Open
        <4> QED  BY <1>0, <2>4, <3>2, <3>4, <4>2, <4>3, CalmOpens DEF TicksOK, TickRetire
      <3> QED  BY <3>1, <3>3, <3>4
    <2>5. CASE TickAdd(f)
      <3>1. PICK r \in Runs :
                /\ run[r].phase = "unborn" /\ run'[r].phase = "pending"
                /\ run'[r].loop = tick[f].loop
                /\ \A q \in Runs \ {r} : run'[q] = run[q]
                /\ tick' = [tick EXCEPT ![f] = [@ EXCEPT !.pc = "dispatch", !.run = r]]
        BY <2>5, AddStep
      <3>2. UNCHANGED inFlight /\ tick[f].pc = "retire"  BY <2>5 DEF TickAdd
      <3>3. /\ tick'[f].pc = "dispatch" /\ tick'[f].run = r /\ tick'[f].loop = tick[f].loop
            /\ \A g \in Fires \ {f} : tick'[g] = tick[g]
        BY <1>0, <3>1 DEF TypeOK, Tick
      <3> QED  BY <1>0, <3>1, <3>2, <3>3 DEF TicksOK, OpenRuns
    <2>6. CASE TickDispatch(f)
      <3>1. RunsCalm
        <4>1. tick[f].run \in Runs  BY <1>0, <2>6 DEF TicksOK, TickDispatch
        <4> QED  BY <1>0, <2>6, <4>1, WithPhaseCalm, SameCalm DEF TickDispatch, Closed
      <3>2. CASE TickEnd(f)  BY <2>2, <2>6, <3>1, <3>2 DEF TickDispatch
      <3>3. CASE tick' = [tick EXCEPT ![f].pc = "rearm"] /\ UNCHANGED inFlight
        BY <1>0, <2>6, <3>1, <3>3, CalmOpens DEF TypeOK, Tick, TickDispatch, TicksOK
      <3> QED  BY <2>6, <3>2, <3>3 DEF TickDispatch
    <2>7. CASE TickUnmark(f)  BY <2>2, <2>7, SameCalm DEF TickUnmark
    <2> QED  BY <1>3, <2>1, <2>3, <2>4, <2>5, <2>6, <2>7 DEF TickStep
  <1> QED  BY <1>1, <1>2, <1>3, HandlersStep

\* No step touches the lease, the label or the agent of a run nobody has claimed.
LEMMA UnclaimedStep == ASSUME ConstantsOK, IInv, [Next]_vars PROVE UnclaimedOK'
  <1>0. TypeOK /\ UnclaimedOK /\ ClaimedOnce  BY DEF IInv
  <1> SUFFICES ASSUME NEW r \in Runs, run'[r].phase \in {"unborn", "pending"}
               PROVE  /\ run'[r].outcome = "other" /\ lease'[r].state = "none" /\ agent'[r].pc = "none"
                      /\ \A p \in Polls : r \notin Held(p)'
    BY DEF UnclaimedOK
  <1>1. run[r].phase \in {"unborn", "pending"} /\ run'[r].outcome = run[r].outcome
    <2>1. CASE RunsCalm  BY <2>1 DEF RunsCalm, Closed
    <2>2. ASSUME NEW f \in Fires, TickAdd(f) 
          PROVE  run[r].phase \in {"unborn", "pending"} /\ run'[r].outcome = run[r].outcome
     
      <3>1. PICK q \in Runs :
              /\ run[q].phase = "unborn" /\ run'[q].outcome = run[q].outcome
              /\ \A z \in Runs \ {q} : run'[z] = run[z]
        BY <2>2, AddStep
      <3> QED  BY <3>1
    <2>3. ASSUME NEW p \in Polls, PollClaim(p) 
          PROVE  run[r].phase \in {"unborn", "pending"} /\ run'[r].outcome = run[r].outcome
       BY <2>3, ClaimStep
    <2> QED  BY <2>1, <2>2, <2>3, RunsStep
  <1>2. run[r].outcome = "other" /\ lease[r].state = "none" /\ agent[r].pc = "none"
        /\ \A p \in Polls : r \notin Held(p)
    BY <1>0, <1>1 DEF UnclaimedOK
  <1>3. lease'[r].state = "none"
    <2>1. ASSUME NEW p \in Polls, PollRegister(p) PROVE lease'[r].state = "none"
      BY <1>2, <2>1, RegisterStep
    <2> QED  BY <1>2, <2>1, LeasesStep DEF LeasesCalm
  <1>4. agent'[r].pc = "none"
    <2>1. ASSUME NEW p \in Polls, PollRespond(p) PROVE agent'[r].pc = "none"
      BY <1>2, <2>1, RespondStep
    <2> QED  BY <1>2, <2>1, AgentsStep DEF AgentsCalm
  <1>5. \A p \in Polls : r \notin Held(p)'
    <2>1. ASSUME NEW p \in Polls, PollClaim(p), run[poll[p].run].phase = "pending",
                 Held(p)' \subseteq Held(p) \cup {poll[p].run},
                 \A q \in Polls \ {p} : Held(q)' = Held(q)
          PROVE  \A q \in Polls : r \notin Held(q)'
      <3>1. run'[poll[p].run].phase = "running"  BY <2>1, ClaimStep
      <3> QED  BY <1>2, <2>1, <3>1
    <2> QED  BY <1>2, <2>1, HeldStep DEF HeldCalm
  <1> QED  BY <1>1, <1>2, <1>3, <1>4, <1>5

\* No step hands a run out twice: a claimed run is not pending, so no other poll can
\* claim it.
LEMMA ClaimedStep == ASSUME ConstantsOK, IInv, [Next]_vars PROVE ClaimedOnce'
  <1>0. TypeOK /\ UnclaimedOK /\ ClaimedOnce  BY DEF IInv
  <1>1. CASE HeldCalm
    <2>1. \A p \in Polls : Held(p) \subseteq Runs  BY DEF IInv, TypeOK, Poll, Held, PollsOK
    <2>2. ASSUME NEW p \in Polls, PollRespond(p) PROVE ClaimedOnce'
      <3>1. ASSUME NEW q \in Polls, NEW r \in Held(q)'
            PROVE  agent'[r].pc = "none" /\ \A z \in Polls \ {q} : r \notin Held(z)'
        <4>1. q # p /\ r \in Held(q) /\ r \in Runs  BY <1>1, <2>1, <2>2, <3>1, RespondStep DEF HeldCalm
        <4>2. r \notin Held(p) /\ agent[r].pc = "none"  BY <1>0, <4>1 DEF ClaimedOnce
        <4>3. agent'[r] = agent[r]  BY <2>2, <4>1, <4>2, RespondStep
        <4> QED  BY <1>0, <1>1, <4>1, <4>2, <4>3 DEF ClaimedOnce, HeldCalm
      <3> QED  BY <3>1 DEF ClaimedOnce
    <2>3. CASE AgentsCalm  BY <1>0, <1>1, <2>1, <2>3 DEF ClaimedOnce, HeldCalm, AgentsCalm
    <2> QED  BY <2>2, <2>3, AgentsStep
  <1>2. ASSUME NEW p \in Polls, PollClaim(p), run[poll[p].run].phase = "pending",
               Held(p)' \subseteq Held(p) \cup {poll[p].run},
               \A q \in Polls \ {p} : Held(q)' = Held(q)
        PROVE  ClaimedOnce'
    <2>1. UNCHANGED agent /\ poll[p].run \in Runs  BY <1>2, ClaimStep
    <2>2. agent[poll[p].run].pc = "none" /\ \A q \in Polls : poll[p].run \notin Held(q)
      BY <1>0, <1>2, <2>1 DEF UnclaimedOK
    <2> QED  BY <1>0, <1>2, <2>1, <2>2 DEF ClaimedOnce
  <1> QED  BY <1>1, <1>2, HeldStep

\* No step starts a run that was recorded as skipped, or skips one that was started.
LEMMA SkippedStep == ASSUME ConstantsOK, IInv, [Next]_vars PROVE SkippedNeverStarted'
  <1>0. TypeOK /\ UnclaimedOK /\ SkippedNeverStarted  BY DEF IInv
  <1> SUFFICES ASSUME NEW r \in Runs, run'[r].outcome = "skipped"
               PROVE  /\ lease'[r].state = "none" /\ agent'[r].pc = "none"
                      /\ \A p \in Polls : r \notin Held(p)'
    BY DEF SkippedNeverStarted
  <1>1. run[r].outcome = "skipped" \/ run[r].phase = "pending"
    <2>1. CASE RunsCalm  BY <2>1 DEF RunsCalm
    <2>2. ASSUME NEW f \in Fires, TickAdd(f) PROVE run[r].outcome = "skipped"
      <3>1. PICK q \in Runs :
              /\ run'[q].outcome = run[q].outcome
              /\ \A z \in Runs \ {q} : run'[z] = run[z]
        BY <2>2, AddStep
      <3> QED  BY <3>1
    <2>3. ASSUME NEW p \in Polls, PollClaim(p) PROVE run[r].outcome = "skipped"  BY <2>3, ClaimStep
    <2> QED  BY <2>1, <2>2, <2>3, RunsStep
  <1>2. lease[r].state = "none" /\ agent[r].pc = "none" /\ \A p \in Polls : r \notin Held(p)
    BY <1>0, <1>1 DEF UnclaimedOK, SkippedNeverStarted
  <1>3. lease'[r].state = "none"
    <2>1. ASSUME NEW p \in Polls, PollRegister(p) PROVE lease'[r].state = "none"
      BY <1>2, <2>1, RegisterStep
    <2> QED  BY <1>2, <2>1, LeasesStep DEF LeasesCalm
  <1>4. agent'[r].pc = "none"
    <2>1. ASSUME NEW p \in Polls, PollRespond(p) PROVE agent'[r].pc = "none"
      BY <1>2, <2>1, RespondStep
    <2> QED  BY <1>2, <2>1, AgentsStep DEF AgentsCalm
  <1>5. \A p \in Polls : r \notin Held(p)'
    <2>1. ASSUME NEW p \in Polls, PollClaim(p), run[poll[p].run].phase = "pending",
                 Held(p)' \subseteq Held(p) \cup {poll[p].run},
                 \A q \in Polls \ {p} : Held(q)' = Held(q)
          PROVE  \A q \in Polls : r \notin Held(q)'
      <3>1. run'[poll[p].run].phase = "running" /\ run'[poll[p].run].outcome = run[poll[p].run].outcome
            /\ poll[p].run \in Runs
        BY <2>1, ClaimStep
      <3>2. run[poll[p].run].outcome = "other"  BY <1>0, <2>1, <3>1 DEF UnclaimedOK
      <3> QED  BY <1>2, <2>1, <3>1, <3>2
    <2> QED  BY <1>2, <2>1, HeldStep DEF HeldCalm
  <1> QED  BY <1>3, <1>4, <1>5

\* No step takes the loop away from a pending run that a poll is about to claim: deleteLoop
\* takes the run with it, unless it has strayed.
LEMMA PollsStep == ASSUME ConstantsOK, IInv, [Next]_vars PROVE PollsOK'
  <1>0. TypeOK /\ RowsOK /\ PollsOK /\ DeletionsOK  BY DEF IInv
  <1> SUFFICES ASSUME NEW p \in Polls
               PROVE  /\ \A r \in poll'[p].todo : run'[r].phase # "unborn"
                      /\ poll'[p].pc \in {"claim", "register"} =>
                           poll'[p].run \in Runs /\ run'[poll'[p].run].phase # "unborn"
                      /\ poll'[p].pc = "claim" /\ run'[poll'[p].run].phase = "pending"
                         /\ poll'[p].run \notin strays' =>
                           "stored" \in loop'[run'[poll'[p].run].loop].is
    BY DEF PollsOK
  <1>1. poll[p] \in Poll  BY <1>0 DEF TypeOK
  \* The loop of a run that is still pending is not deleted in this step.
  <1>2. ASSUME NEW r \in Runs, run[r].phase # "unborn", run'[r].phase = "pending", r \notin strays,
               poll[p].pc = "claim", poll[p].run = r, "stored" \in loop[run[r].loop].is
        PROVE  "stored" \in loop'[run'[r].loop].is
    <2>1. run'[r].loop = run[r].loop /\ run[r].loop \in Loops /\ run[r].phase = "pending"
      BY <1>0, <1>2, BornStep DEF TypeOK, RowsOK, RunRow
    <2>2. ASSUME NEW l \in Loops, DeleteCommit(l) PROVE run[r].loop # l
      <3>1. ASSUME r \in deletion[l].runs PROVE FALSE
        <4>1. run'[r] = [run[r] EXCEPT !.phase = "gone", !.age = 0]  BY <2>2, <3>1 DEF DeleteCommit
        <4>2. run'[r].phase = "gone"  BY <1>0, <4>1 DEF TypeOK, RunRow
        <4> QED  BY <1>2, <4>2
      <3>2. deletion[l].pc = "commit"  BY <2>2 DEF DeleteCommit
      <3> QED  BY <1>0, <1>2, <2>1, <3>1, <3>2 DEF DeletionsOK, Open
    <2>3. ASSUME NEW l \in Loops, DeleteCommit(l) PROVE "stored" \in loop'[run[r].loop].is
      BY <1>0, <1>2, <2>1, <2>2, <2>3 DEF TypeOK, LoopRow, DeleteCommit
    <2> QED  BY <1>2, <2>1, <2>3, StoredStep DEF StoredCalm
  <1>3. CASE poll'[p] = poll[p]
    <2>1. poll[p].todo \subseteq Runs  BY <1>1 DEF Poll
    <2>2. \A r \in poll[p].todo : run'[r].phase # "unborn"  BY <1>0, <2>1, BornStep DEF PollsOK
    <2>3. ASSUME poll[p].pc \in {"claim", "register"}
          PROVE  poll[p].run \in Runs /\ run[poll[p].run].phase # "unborn" /\ run'[poll[p].run].phase # "unborn"
      BY <1>0, <2>3, BornStep DEF PollsOK
    <2>4. ASSUME poll[p].pc = "claim", run'[poll[p].run].phase = "pending", poll[p].run \notin strays'
          PROVE  "stored" \in loop'[run'[poll[p].run].loop].is
      <3>1. run[poll[p].run].phase = "pending" /\ poll[p].run \notin strays
        BY <2>3, <2>4, BornStep, StraysStep
      <3>2. "stored" \in loop[run[poll[p].run].loop].is  BY <1>0, <2>4, <3>1 DEF PollsOK
      <3> QED  BY <1>2, <2>3, <2>4, <3>1, <3>2
    <2> QED  BY <1>3, <2>2, <2>3, <2>4
  <1>4. CASE poll'[p].todo \subseteq poll[p].todo /\ poll'[p].pc \in {"idle", "next"}
    <2>1. poll[p].todo \subseteq Runs  BY <1>1 DEF Poll
    <2> QED  BY <1>0, <1>4, <2>1, BornStep DEF PollsOK
  <1>5. CASE Restart
    <2>1. poll'[p].todo = {} /\ poll'[p].pc = "idle"  BY <1>5 DEF Restart, NoPoll
    <2> QED  BY <1>4, <2>1
  <1>6. CASE PollArrive(p)
    <2> DEFINE pending == {r \in Runs : run[r].phase = "pending"}
    <2>1. poll'[p] = poll[p] \/ (poll'[p].pc = "next" /\ poll'[p].todo = pending)
      BY <1>0, <1>6 DEF TypeOK, PollArrive, NoPoll
    <2>2. UNCHANGED run  BY <1>6 DEF PollArrive
    <2> QED  BY <1>3, <2>1, <2>2
  <1>7. CASE PollLoad(p)
    <2>1. PICK r \in poll[p].todo :
            \/ /\ "stored" \in loop[run[r].loop].is
               /\ poll' = [poll EXCEPT ![p] = [pc |-> "claim", todo |-> @.todo \ {r}, run |-> r,
                     is |-> loop[run[r].loop].is \cap {"goal"}, edit |-> loop[run[r].loop].edit, got |-> @.got]]
               /\ UNCHANGED run
            \/ poll' = [poll EXCEPT ![p].todo = @ \ {r}]
      BY <1>7 DEF PollLoad
    <2>2. CASE /\ "stored" \in loop[run[r].loop].is
               /\ poll' = [poll EXCEPT ![p] = [pc |-> "claim", todo |-> @.todo \ {r}, run |-> r,
                     is |-> loop[run[r].loop].is \cap {"goal"}, edit |-> loop[run[r].loop].edit, got |-> @.got]]
               /\ UNCHANGED run
      <3>1. poll'[p].todo \subseteq poll[p].todo /\ poll'[p].run = r  BY <1>0, <2>2 DEF TypeOK
      <3>2. r \in Runs /\ UNCHANGED loop  BY <1>1, <1>7 DEF Poll, PollLoad
      <3> QED  BY <1>0, <2>2, <3>1, <3>2 DEF PollsOK
    <2>3. CASE poll' = [poll EXCEPT ![p].todo = @ \ {r}]
      <3>1. poll'[p].todo \subseteq poll[p].todo /\ poll'[p].pc = "next"
        BY <1>0, <1>1, <1>7, <2>3 DEF TypeOK, Poll, PollLoad
      <3> QED  BY <1>4, <3>1
    <2> QED  BY <2>1, <2>2, <2>3
  <1>8. CASE PollClaim(p)
    <2>1. CASE run[poll[p].run].phase = "pending"
      <3>1. poll'[p].todo = poll[p].todo /\ poll'[p].run = poll[p].run /\ poll'[p].pc = "register"
        BY <1>0, <1>1, <1>8, <2>1 DEF TypeOK, Poll, PollClaim
      <3>2. poll[p].run \in Runs /\ run[poll[p].run].phase # "unborn" /\ poll[p].todo \subseteq Runs
        BY <1>0, <1>1, <1>8 DEF PollsOK, PollClaim, Poll
      <3> QED  BY <1>0, <3>1, <3>2, BornStep DEF PollsOK
    <2>2. CASE run[poll[p].run].phase # "pending"
      <3>1. poll'[p] = NextOf(poll[p])  BY <1>0, <1>8, <2>2 DEF TypeOK, PollClaim
      <3>2. poll'[p].todo = poll[p].todo /\ poll'[p].pc = "next"  BY <3>1 DEF NextOf, NoPoll
      <3> QED  BY <1>4, <3>2
    <2> QED  BY <2>1, <2>2
  <1>9. CASE PollRegister(p)
    <2> DEFINE mine == [poll[p] EXCEPT !.got = poll[p].got \cup {poll[p].run}]
    <2>1. poll' = [poll EXCEPT ![p] = NextOf(mine)]  BY <1>9 DEF PollRegister
    <2>2. mine.todo = poll[p].todo  BY <1>1 DEF Poll
    <2> HIDE DEF mine
    <2>3. poll'[p].todo = poll[p].todo /\ poll'[p].pc = "next"
      BY <1>0, <2>1, <2>2 DEF TypeOK, NextOf, NoPoll
    <2> QED  BY <1>4, <2>3
  <1>10. CASE PollRespond(p) \/ PollAbort(p)
    <2>1. poll'[p] = NoPoll  BY <1>0, <1>10 DEF TypeOK, PollRespond, PollAbort
    <2>2. poll'[p].todo = {} /\ poll'[p].pc = "idle"  BY <2>1 DEF NoPoll
    <2> QED  BY <1>4, <2>2
  <1>11. ASSUME NEW q \in Polls, PollStep(q), q # p PROVE poll'[p] = poll[p]
    BY <1>0, <1>11
       DEF TypeOK, PollStep, PollArrive, PollLoad, PollClaim, PollRegister, PollRespond, PollAbort
  <1>12. CASE PollStep(p)  BY <1>6, <1>7, <1>8, <1>9, <1>10, <1>12 DEF PollStep
  <1> QED  BY <1>3, <1>5, <1>11, <1>12, HandlersStep

\* No step opens, or takes up, a run behind the back of a deletion that has passed the runs:
\* a poll that reads the loop of one now is remembered as a stray.
LEMMA DeletionsStep == ASSUME ConstantsOK, IInv, [Next]_vars PROVE DeletionsOK'
  <1>0. TypeOK /\ RowsOK /\ PollsOK /\ DeletionsOK  BY DEF IInv
  <1> SUFFICES ASSUME NEW l \in Loops
               PROVE  /\ deletion'[l].pc # "idle" => "stored" \in loop'[l].is
                      /\ \A r \in deletion'[l].runs : run'[r].loop = l
                      /\ deletion'[l].pc \in {"leases", "commit"} =>
                           \A r \in Runs \ (strays' \cup deletion'[l].runs) :
                             run'[r].loop = l /\ run'[r].phase \in Open =>
                               run'[r].phase = "pending"
                               /\ \A p \in Polls : poll'[p].pc = "claim" => poll'[p].run # r
    BY DEF DeletionsOK
  <1>1. deletion[l] \in Deletion /\ loop[l] \in LoopRow  BY <1>0 DEF TypeOK
  <1>2. \A r \in deletion[l].runs : run'[r].loop = l
    <2>1. ASSUME NEW r \in deletion[l].runs PROVE run'[r].loop = l
      <3>1. r \in Runs /\ run[r].loop = l /\ run[r].phase # "unborn"
        BY <1>0, <1>1 DEF Deletion, DeletionsOK, RowsOK, ConstantsOK
      <3> QED  BY <3>1, BornStep
    <2> QED  BY <2>1
  \* What holds of the runs the deletion has passed by, while it goes on.
  <1>3. ASSUME deletion[l].pc \in {"leases", "commit"}, NEW r \in Runs, r \notin strays', r \notin deletion[l].runs,
               run'[r].loop = l, run'[r].phase \in Open
        PROVE  run'[r].phase = "pending" /\ \A p \in Polls : poll'[p].pc = "claim" => poll'[p].run # r
    <2>0. r \notin strays  BY <1>3, StraysStep
    <2>1. ASSUME run[r].phase \in Open, run[r].loop = l
          PROVE  run[r].phase = "pending" /\ \A p \in Polls : poll[p].pc = "claim" => poll[p].run # r
      BY <1>0, <1>3, <2>0, <2>1 DEF DeletionsOK
    \* A poll that takes the run up by now makes it a stray.
    <2>2. ASSUME NEW p \in Polls, poll'[p].pc = "claim", poll'[p].run = r,
                 poll[p].pc = "claim" => poll[p].run # r, run[r].loop = l \/ UNCHANGED run => run[r].loop = l
          PROVE  FALSE
      <3>1. poll'[p] # poll[p]  BY <2>2
      <3>2. UNCHANGED run /\ (Missed(run[r].loop, r) => r \in strays')  BY <2>2, <3>1, LoadStep
      <3>3. Missed(l, r)  BY <1>3 DEF Missed
      <3> QED  BY <1>3, <3>2, <3>3
    <2>3. CASE RunsCalm
      <3>1. run[r].phase = run'[r].phase /\ run[r].loop = l  BY <1>3, <2>3 DEF RunsCalm, Open, Closed
      <3>2. run[r].phase = "pending" /\ \A p \in Polls : poll[p].pc = "claim" => poll[p].run # r
        BY <1>3, <2>1, <3>1
      <3>3. ASSUME NEW p \in Polls, poll'[p].pc = "claim" PROVE poll'[p].run # r
        BY <2>2, <3>1, <3>2, <3>3
      <3> QED  BY <3>1, <3>2, <3>3
    <2>4. ASSUME NEW f \in Fires, TickAdd(f)
          PROVE  run'[r].phase = "pending" /\ \A p \in Polls : poll'[p].pc = "claim" => poll'[p].run # r
      <3>1. PICK q \in Runs :
              /\ run[q].phase = "unborn" /\ run'[q].phase = "pending"
              /\ \A z \in Runs \ {q} : run'[z] = run[z]
        BY <2>4, AddStep
      <3>2. UNCHANGED poll  BY <2>4, AddStep
      <3>3. CASE r = q  BY <1>0, <3>1, <3>2, <3>3 DEF PollsOK
      <3>4. CASE r # q
        <4>1. run'[r] = run[r]  BY <3>1, <3>4
        <4> QED  BY <1>3, <2>1, <3>2, <4>1
      <3> QED  BY <3>3, <3>4
    <2>5. ASSUME NEW p \in Polls, PollClaim(p)
          PROVE  run'[r].phase = "pending" /\ \A o \in Polls : poll'[o].pc = "claim" => poll'[o].run # r
      <3>1. poll[p].pc = "claim"  BY <2>5 DEF PollClaim
      <3>2. run'[r].loop = run[r].loop /\ run[r].phase \in Open
        <4>1. CASE r = poll[p].run  BY <1>3, <2>5, <4>1, ClaimStep DEF Open
        <4>2. CASE r # poll[p].run
          <5>1. run'[r] = run[r]  BY <2>5, <4>2, ClaimStep
          <5> QED  BY <1>3, <5>1
        <4> QED  BY <4>1, <4>2
      <3>3. run[r].phase = "pending" /\ \A o \in Polls : poll[o].pc = "claim" => poll[o].run # r
        BY <1>3, <2>1, <3>2
      <3>4. r # poll[p].run  BY <3>1, <3>3
      <3>5. run'[r] = run[r]  BY <2>5, <3>4, ClaimStep
      <3>6. ASSUME NEW o \in Polls, poll'[o].pc = "claim" PROVE poll'[o].run # r
        BY <1>3, <2>2, <3>2, <3>3, <3>6
      <3> QED  BY <3>3, <3>5, <3>6
    <2> QED  BY <2>3, <2>4, <2>5, RunsStep
  <1>4. CASE deletion'[l] = deletion[l] /\ (deletion[l].pc # "idle" => loop'[l] = loop[l])
    BY <1>0, <1>2, <1>3, <1>4 DEF DeletionsOK
  <1>5. CASE UNCHANGED deletion /\ (LocksKept \/ UNCHANGED <<loop, run, poll>>)
    BY <1>4, <1>5 DEF LocksKept
  <1>6. CASE deletion'[l] = NoDeletion  BY <1>6 DEF NoDeletion
  <1>7. CASE Restart  BY <1>6, <1>7 DEF Restart
  <1>8. ASSUME NEW k \in Loops, DeleteStep(k), k # l PROVE deletion'[l] = deletion[l] /\ loop'[l] = loop[l]
    BY <1>0, <1>8 DEF TypeOK, DeleteStep, DeleteBegin, DeleteRuns, DeleteLeases, DeleteCommit, Taking
  <1>9. CASE DeleteBegin(l)
    <2>1. deletion'[l].pc = "runs" /\ deletion'[l].runs = {} /\ UNCHANGED loop
      BY <1>0, <1>9 DEF TypeOK, DeleteBegin, Taking, NoDeletion
    <2> QED  BY <1>9, <2>1 DEF DeleteBegin
  <1>10. CASE DeleteRuns(l)
    <2> DEFINE S == {r \in Runs : run[r].loop = l /\ run[r].phase \notin Absent}
    <2>1. deletion' = [deletion EXCEPT ![l] = [deletion[l] EXCEPT !.pc = "leases", !.runs = S]]
      BY <1>10 DEF DeleteRuns, Taking
    <2>2. UNCHANGED <<loop, run>> /\ deletion[l].pc = "runs"  BY <1>10 DEF DeleteRuns, Taking
    <2>3. \A r \in S : run[r].loop = l  OBVIOUS
    <2>4. \A r \in Runs : run[r].loop = l /\ run[r].phase \in Open => r \in S  BY DEF Open, Absent
    <2> HIDE DEF S
    <2>5. deletion'[l].pc = "leases" /\ deletion'[l].runs = S  BY <1>0, <1>1, <2>1 DEF TypeOK, Deletion
    <2> QED  BY <1>0, <2>2, <2>3, <2>4, <2>5 DEF DeletionsOK
  <1>11. CASE DeleteLeases(l)
    <2> DEFINE S == {r \in Runs : run[r].loop = l /\ lease[r].state # "none"}
    <2>1. deletion' = [deletion EXCEPT ![l] = [deletion[l] EXCEPT !.pc = "commit", !.leases = S]]
      BY <1>11 DEF DeleteLeases, Taking
    <2>2. UNCHANGED <<loop, run>> /\ deletion[l].pc = "leases"  BY <1>11 DEF DeleteLeases, Taking
    <2> HIDE DEF S
    <2>3. deletion'[l].pc = "commit" /\ deletion'[l].runs = deletion[l].runs
      BY <1>0, <1>1, <2>1 DEF TypeOK, Deletion
    <2> QED  BY <1>0, <1>2, <1>3, <2>2, <2>3 DEF DeletionsOK
  <1>12. CASE DeleteCommit(l)
    <2>1. deletion'[l] = NoDeletion  BY <1>0, <1>12 DEF TypeOK, DeleteCommit
    <2> QED  BY <1>6, <2>1
  <1>13. CASE DeleteStep(l)  BY <1>9, <1>10, <1>11, <1>12, <1>13 DEF DeleteStep
  <1> QED  BY <1>4, <1>5, <1>7, <1>8, <1>13, DeletionStep

\* No step reopens the run a sweep has just failed, so its lease is terminalized
\* only when the run is over.
LEMMA SweepsStep == ASSUME ConstantsOK, IInv, [Next]_vars PROVE SweepsOK'
  <1>0. TypeOK /\ SweepsOK  BY DEF IInv
  <1> SUFFICES ASSUME NEW s \in Sweeps
               PROVE  /\ \A seen \in sweep'[s].todo : run'[seen.run].phase # "unborn"
                      /\ sweep'[s].pc \in {"lease", "after"} =>
                           /\ sweep'[s].run \in Runs
                           /\ run'[sweep'[s].run].phase \notin Open \cup {"unborn"}
    BY DEF SweepsOK
  <1>1. sweep[s] \in Sweep /\ \A seen \in sweep[s].todo : seen.run \in Runs
    BY <1>0 DEF TypeOK, Sweep, Seen
  <1>2. \A seen \in sweep[s].todo : run'[seen.run].phase # "unborn"
    BY <1>0, <1>1, BornStep DEF SweepsOK
  <1>3. ASSUME sweep[s].pc \in {"lease", "after"}
        PROVE  sweep[s].run \in Runs /\ run'[sweep[s].run].phase \notin Open \cup {"unborn"}
    BY <1>0, <1>3, BornStep DEF SweepsOK
  <1>4. CASE sweep'[s].todo \subseteq sweep[s].todo /\ sweep'[s].pc \in {"idle", "next"}
    BY <1>2, <1>4
  <1>5. CASE sweep'[s] = sweep[s]  BY <1>2, <1>3, <1>5
  <1>6. CASE Restart
    <2>1. sweep'[s].todo = {} /\ sweep'[s].pc = "idle"  BY <1>6 DEF Restart, NoSweep
    <2> QED  BY <1>4, <2>1
  <1>7. CASE SweepBegin(s)
    <2> DEFINE seen == {[run |-> r, phase |-> run[r].phase, age |-> run[r].age] :
                          r \in {q \in Runs : run[q].phase \in Open /\ run[q].age > 0}}
    <2>1. \A x \in seen : run[x.run].phase # "unborn"  BY DEF Open
    <2>2. sweep' \in {sweep, [sweep EXCEPT ![s] = [NoSweep EXCEPT !.pc = "next", !.todo = seen]]}
      BY <1>7 DEF SweepBegin
    <2>3. UNCHANGED run  BY <1>7 DEF SweepBegin
    <2> HIDE DEF seen
    <2>5. sweep \in [Sweeps -> Sweep]  BY <1>0 DEF TypeOK
    <2>4. sweep'[s] = sweep[s] \/ (sweep'[s].pc = "next" /\ sweep'[s].todo = seen)
      BY <2>2, <2>5 DEF NoSweep
    <2> QED  BY <1>5, <2>1, <2>3, <2>4
  <1>8. CASE SweepReclaim(s)
    <2>1. PICK seen \in sweep[s].todo :
            /\ run' = WithPhase(seen.run, "error")
            /\ sweep' = [sweep EXCEPT ![s] = [pc |-> "lease", run |-> seen.run, todo |-> @.todo \ {seen}]]
      BY <1>8 DEF SweepReclaim
    <2>2. seen.run \in Runs /\ run[seen.run].phase # "unborn"  BY <1>0, <1>1, <2>1 DEF SweepsOK
    <2>3. run'[seen.run].phase \notin Open \cup {"unborn"}
      BY <1>0, <2>1, <2>2 DEF TypeOK, RunRow, WithPhase, Open, Absent
    <2>4. sweep'[s].todo \subseteq sweep[s].todo /\ sweep'[s].run = seen.run  BY <1>0, <2>1 DEF TypeOK
    <2> QED  BY <1>2, <2>2, <2>3, <2>4
  <1>9. CASE SweepTerminalize(s)
    <2>1. sweep'[s].todo = sweep[s].todo /\ sweep'[s].run = sweep[s].run /\ sweep[s].pc = "lease"
      BY <1>0, <1>1, <1>9 DEF TypeOK, Sweep, SweepTerminalize
    <2> QED  BY <1>2, <1>3, <2>1
  <1>10. CASE SweepAfter(s)
    <2>1. sweep' = [sweep EXCEPT ![s] = [@ EXCEPT !.pc = "next", !.run = None]]  BY <1>10 DEF SweepAfter
    <2>2. sweep'[s].todo = sweep[s].todo /\ sweep'[s].pc = "next"  BY <1>0, <1>1, <2>1 DEF TypeOK, Sweep
    <2> QED  BY <1>4, <2>2
  <1>11. CASE SweepDefer(s)
    <2>1. PICK seen \in sweep[s].todo : sweep' = [sweep EXCEPT ![s].todo = @ \ {seen}]  BY <1>11 DEF SweepDefer
    <2>2. sweep'[s].todo \subseteq sweep[s].todo /\ sweep'[s].pc = "next"
      BY <1>0, <1>1, <1>11, <2>1 DEF TypeOK, Sweep, SweepDefer
    <2> QED  BY <1>4, <2>2
  <1>12. CASE SweepEnd(s)
    <2>1. sweep'[s].todo = {} /\ sweep'[s].pc = "idle"  BY <1>0, <1>12 DEF TypeOK, SweepEnd, NoSweep
    <2> QED  BY <1>4, <2>1
  <1>13. ASSUME NEW t \in Sweeps, SweepStep(t), t # s PROVE sweep'[s] = sweep[s]
    BY <1>0, <1>13 DEF TypeOK, SweepStep, SweepBegin, SweepReclaim, SweepTerminalize, SweepAfter, SweepDefer,
       SweepEnd
  <1>14. CASE SweepStep(s)  BY <1>7, <1>8, <1>9, <1>10, <1>11, <1>12, <1>14 DEF SweepStep
  <1> QED  BY <1>5, <1>6, <1>13, <1>14, HandlersStep

\* No step opens a run whose lease is in its grace window.
LEMMA GraceStep == ASSUME ConstantsOK, IInv, [Next]_vars PROVE GraceIsOver'
  <1>0. TypeOK /\ UnclaimedOK /\ GraceIsOver  BY DEF IInv
  <1> SUFFICES ASSUME NEW r \in Runs, lease'[r].state = "grace" PROVE run'[r].phase \notin Open
    BY DEF GraceIsOver
  <1>1. run[r].phase \notin Open /\ lease[r].state # "none"
    <2>1. CASE LeasesCalm  BY <1>0, <2>1 DEF LeasesCalm, GraceIsOver
    <2>2. ASSUME NEW p \in Polls, PollRegister(p)
          PROVE  run[r].phase \notin Open /\ lease[r].state # "none"
      BY <1>0, <2>2, RegisterStep DEF GraceIsOver
    <2> QED  BY <2>1, <2>2, LeasesStep
  <1>2. run[r].phase # "unborn"  BY <1>0, <1>1 DEF UnclaimedOK
  <1> QED  BY <1>1, <1>2, BornStep

\* No step starts a run of a loop that is gone, or deletes the loop of a started run
\* and leaves the run, unless the run has strayed.
LEMMA LoopedStep == ASSUME ConstantsOK, IInv, [Next]_vars PROVE RunningHasLoop'
  <1>0. TypeOK /\ RowsOK /\ PollsOK /\ DeletionsOK /\ RunningHasLoop  BY DEF IInv
  <1> SUFFICES ASSUME NEW r \in Runs, run'[r].phase = "running", r \notin strays'
               PROVE  "stored" \in loop'[run'[r].loop].is
    BY DEF RunningHasLoop
  <1>0a. r \notin strays  BY StraysStep
  <1>1. run[r].phase # "unborn" /\ run'[r].loop = run[r].loop /\ "stored" \in loop[run[r].loop].is
    <2>1. CASE RunsCalm  BY <1>0, <1>0a, <2>1 DEF RunsCalm, RunningHasLoop, Closed
    <2>2. ASSUME NEW f \in Fires, TickAdd(f)
          PROVE  run[r].phase # "unborn" /\ run'[r].loop = run[r].loop /\ "stored" \in loop[run[r].loop].is
      <3>1. PICK q \in Runs : run'[q].phase = "pending" /\ \A z \in Runs \ {q} : run'[z] = run[z]
        BY <2>2, AddStep
      <3>2. run'[r] = run[r]  BY <3>1
      <3> QED  BY <1>0, <1>0a, <3>2 DEF RunningHasLoop
    <2>3. ASSUME NEW p \in Polls, PollClaim(p)
          PROVE  run[r].phase # "unborn" /\ run'[r].loop = run[r].loop /\ "stored" \in loop[run[r].loop].is
      <3>1. CASE r # poll[p].run
        <4>1. run'[r] = run[r]  BY <2>3, <3>1, ClaimStep
        <4> QED  BY <1>0, <1>0a, <4>1 DEF RunningHasLoop
      <3>2. CASE r = poll[p].run
        <4>1. poll[p].pc = "claim"  BY <2>3 DEF PollClaim
        <4>2. /\ run[r].phase # "unborn" /\ run'[r].loop = run[r].loop
              /\ run[r].phase \in {"pending", "running"}
          BY <2>3, <3>2, ClaimStep
        <4> QED  BY <1>0, <1>0a, <3>2, <4>1, <4>2 DEF PollsOK, RunningHasLoop
      <3> QED  BY <3>1, <3>2
    <2> QED  BY <2>1, <2>2, <2>3, RunsStep
  <1>2. run[r].loop \in Loops  BY <1>0, <1>1 DEF TypeOK, RowsOK, RunRow
  <1>3. ASSUME NEW l \in Loops, DeleteCommit(l) PROVE "stored" \in loop'[run'[r].loop].is
    <2>1. run[r].loop # l
      <3>1. r \notin deletion[l].runs
        <4>1. SUFFICES ASSUME r \in deletion[l].runs PROVE FALSE  OBVIOUS
        <4>2. run'[r] = [run[r] EXCEPT !.phase = "gone", !.age = 0]  BY <1>3, <4>1 DEF DeleteCommit
        <4>3. run'[r].phase = "gone"  BY <1>0, <4>2 DEF TypeOK, RunRow
        <4> QED  BY <4>3
      <3>2. run[r].phase = "running" /\ deletion[l].pc = "commit"  BY <1>3, <3>1 DEF DeleteCommit
      <3> QED  BY <1>0, <1>0a, <3>1, <3>2 DEF DeletionsOK, Open
    <2> QED  BY <1>0, <1>1, <1>2, <1>3, <2>1 DEF TypeOK, LoopRow, DeleteCommit
  <1> QED  BY <1>1, <1>2, <1>3, StoredStep DEF StoredCalm

\* No step unmakes the run that a report, a finish or a stop request works on.
LEMMA RequestsStep == ASSUME ConstantsOK, IInv, [Next]_vars PROVE RequestsOK'
  <1>0. TypeOK /\ UnclaimedOK /\ ClaimedOnce /\ RequestsOK  BY DEF IInv
  <1>1. ASSUME NEW r \in Runs, agent[r].pc # "none" PROVE agent'[r].pc # "none"
    <2>1. ASSUME NEW p \in Polls, PollRespond(p) PROVE agent'[r].pc # "none"
      <3>1. r \notin Held(p)  BY <1>0, <1>1 DEF ClaimedOnce
      <3> QED  BY <1>1, <2>1, <3>1, RespondStep
    <2> QED  BY <1>1, <2>1, AgentsStep DEF AgentsCalm
  <1>2. ASSUME NEW x \in Reports, report'[x].pc # "idle"
        PROVE  /\ report'[x].run \in Runs /\ run'[report'[x].run].phase # "unborn"
               /\ agent'[report'[x].run].pc # "none"
    <2>1. CASE report'[x].run = report[x].run /\ report[x].pc # "idle"
      BY <1>0, <1>1, <2>1, BornStep DEF RequestsOK
    <2>2. ASSUME NEW r \in Runs, ReportArrive(x, r)
          PROVE  (report'[x].run = report[x].run /\ report[x].pc # "idle")
                 \/ (report'[x].run = r /\ agent[r].pc # "none" /\ run[r].phase # "unborn")
      BY <1>0, <1>2, <2>2 DEF TypeOK, UnclaimedOK, ReportArrive
    <2>3. ASSUME NEW r \in Runs, ReportArrive(x, r)
          PROVE  /\ report'[x].run \in Runs /\ run'[report'[x].run].phase # "unborn"
                 /\ agent'[report'[x].run].pc # "none"
      BY <1>1, <2>1, <2>2, <2>3, BornStep
    <2>4. CASE Restart  BY <1>2, <2>4 DEF Restart, NoReport
    <2>5. ASSUME NEW y \in Reports, ReportStep(y), y # x PROVE report'[x] = report[x]
      BY <1>0, <2>5 DEF TypeOK, ReportStep, ReportArrive, ReportRead, ReportWrite, ReportRetire, ReportMarker,
         ReportAnswer
    <2>6. CASE ReportRead(x)
      <3>1. PICK b, pc : report' = [report EXCEPT ![x] = [@ EXCEPT !.branch = b, !.pc = pc]]
        BY <2>6 DEF ReportRead
      <3>2. report'[x].run = report[x].run  BY <1>0, <3>1 DEF TypeOK, Report
      <3> QED  BY <2>1, <2>6, <3>2 DEF ReportRead
    <2>7. CASE ReportWrite(x) \/ ReportRetire(x)
      <3>1. report'[x].run = report[x].run
        BY <1>0, <1>2, <2>7 DEF TypeOK, Report, ReportWrite, ReportRetire, ReportAnswer, NoReport
      <3> QED  BY <2>1, <2>7, <3>1 DEF ReportWrite, ReportRetire
    <2>8. CASE ReportMarker(x)  BY <1>0, <1>2, <2>8 DEF TypeOK, ReportMarker, ReportAnswer, NoReport
    <2>9. CASE ReportStep(x)  BY <2>3, <2>6, <2>7, <2>8, <2>9 DEF ReportStep
    <2> QED  BY <1>2, <2>1, <2>4, <2>5, <2>9, HandlersStep
  <1>3. ASSUME NEW y \in Finishes, finish'[y].pc # "idle"
        PROVE  finish'[y].run \in Runs /\ run'[finish'[y].run].phase # "unborn"
    <2>1. CASE finish'[y].run = finish[y].run /\ finish[y].pc # "idle"
      BY <1>0, <2>1, BornStep DEF RequestsOK
    <2>2. ASSUME NEW r \in Runs, FinishArrive(y, r)
          PROVE  finish'[y].run \in Runs /\ run'[finish'[y].run].phase # "unborn"
      <3>1. finish'[y].run = r /\ run[r].phase # "unborn"
        BY <1>0, <2>2 DEF TypeOK, UnclaimedOK, FinishArrive
      <3> QED  BY <3>1, BornStep
    <2>3. CASE Restart  BY <1>3, <2>3 DEF Restart, NoFinish
    <2>4. CASE FinishCheck(y) \/ FinishRun(y) \/ FinishLoop(y)
      <3>1. finish'[y].run = finish[y].run /\ finish[y].pc # "idle"
        BY <1>0, <1>3, <2>4 DEF TypeOK, Finish, FinishCheck, FinishRun, FinishLoop, NoFinish
      <3> QED  BY <2>1, <3>1
    <2>5. ASSUME NEW z \in Finishes, FinishStep(z), z # y PROVE finish'[y] = finish[y]
      BY <1>0, <2>5 DEF TypeOK, FinishStep, FinishArrive, FinishCheck, FinishRun, FinishLoop
    <2> QED  BY <1>3, <2>1, <2>2, <2>3, <2>4, <2>5, HandlersStep DEF FinishStep
  <1>4. ASSUME NEW c \in Cancels, cancel'[c].pc # "idle"
        PROVE  cancel'[c].run \in Runs /\ run'[cancel'[c].run].phase # "unborn"
    <2>1. CASE cancel'[c] = cancel[c]  BY <1>0, <1>4, <2>1, BornStep DEF RequestsOK
    <2>2. ASSUME NEW r \in Runs, CancelRead(c, r)
          PROVE  cancel'[c].run \in Runs /\ run'[cancel'[c].run].phase # "unborn"
      <3>1. cancel'[c].run = r /\ run[r].phase # "unborn"
        BY <1>0, <2>2 DEF TypeOK, CancelRead, Open
      <3> QED  BY <3>1, BornStep
    <2>3. CASE Restart  BY <1>4, <2>3 DEF Restart, NoCancel
    <2>4. CASE CancelWrite(c)  BY <1>0, <1>4, <2>4 DEF TypeOK, CancelWrite, NoCancel
    <2>5. ASSUME NEW z \in Cancels, CancelStep(z), z # c PROVE cancel'[c] = cancel[c]
      BY <1>0, <2>5 DEF TypeOK, CancelStep, CancelRead, CancelWrite
    <2> QED  BY <2>1, <2>2, <2>3, <2>4, <2>5, HandlersStep DEF CancelStep
  <1> QED  BY <1>2, <1>3, <1>4 DEF RequestsOK

\* The inductive invariant holds of an empty database.
LEMMA InitInv == ASSUME ConstantsOK, Init PROVE IInv
  <1> USE DEF ConstantsOK
  <1>1. TypeOK
    <2>1. loop \in [Loops -> LoopRow]  BY DEF Init, LoopRow, Marks
    <2>2. run \in [Runs -> RunRow]  BY DEF Init, RunRow, Phases, Absent, Roles
    <2>3. lease \in [Runs -> LeaseRow] /\ agent \in [Runs -> Agent]
      BY DEF Init, LeaseRow, Agent, Exits, MaxReports
    <2>4. /\ tick \in [Fires -> Tick] /\ poll \in [Polls -> Poll] /\ sweep \in [Sweeps -> Sweep]
          /\ report \in [Reports -> Report] /\ finish \in [Finishes -> Finish]
          /\ cancel \in [Cancels -> Cancel]
      BY DEF Init, NoTick, NoPoll, NoSweep, NoReport, NoFinish, NoCancel, Tick, Poll, Sweep, Report,
         Finish, Cancel, Roles, Exits, Branch
    <2>7. deletion \in [Loops -> Deletion] /\ strays \subseteq Runs  BY DEF Init, NoDeletion, Deletion
    <2>5. online \in BOOLEAN  BY DEF Init
    <2>6. inFlight \subseteq Loops /\ edits \in 0..MaxEdits /\ restarts \in 0..MaxRestarts  BY DEF Init
    <2> QED  BY <2>1, <2>2, <2>3, <2>4, <2>5, <2>6, <2>7 DEF TypeOK
  <1>2. RowsOK /\ OneOpenRun /\ RunningHasLoop  BY DEF Init, RowsOK, OneOpenRun, RunningHasLoop, Open
  <1>3. TicksOK  BY DEF Init, TicksOK, NoTick
  <1>4. \A p \in Polls : Held(p) = {}  BY DEF Init, Held, NoPoll
  <1>5. UnclaimedOK /\ ClaimedOnce /\ SkippedNeverStarted
    BY <1>4 DEF Init, UnclaimedOK, ClaimedOnce, SkippedNeverStarted
  <1>6. PollsOK /\ SweepsOK /\ DeletionsOK
    BY DEF Init, PollsOK, SweepsOK, DeletionsOK, NoPoll, NoSweep, NoDeletion
  <1>7. RequestsOK /\ GraceIsOver  BY DEF Init, RequestsOK, GraceIsOver, NoReport, NoFinish, NoCancel
  <1> QED  BY <1>1, <1>2, <1>3, <1>5, <1>6, <1>7 DEF IInv

\* The inductive invariant is inductive.
LEMMA InvStep == ASSUME ConstantsOK, IInv, [Next]_vars PROVE IInv'
  BY TypeStep, RowsStep, TicksStep, UnclaimedStep, PollsStep, DeletionsStep, SweepsStep, RequestsStep,
     OneOpenStep, ClaimedStep, SkippedStep, GraceStep, LoopedStep DEF IInv

\* The inductive invariant holds for any number of loops, runs and handlers in flight.
THEOREM Invariance == Spec => []IInv
  BY ConstantsOK, InitInv, InvStep, PTL DEF Spec

\* The rows and the handlers in flight are always well-formed.
THEOREM TypeCorrect == Spec => []TypeOK
  <1>1. IInv => TypeOK  BY DEF IInv
  <1> QED  BY <1>1, Invariance, PTL

\* However ticks, polls, sweeps, reports, stop requests, deletions and restarts of the
\* server interleave, a loop never has two open runs (runLoop, hasOpenRun).
THEOREM OneOpenRunHolds == Spec => []OneOpenRun
  <1>1. IInv => OneOpenRun  BY DEF IInv
  <1> QED  BY <1>1, Invariance, PTL

\* A run is handed out once, by one poll, and gets one agent (claimPendingRun).
THEOREM ClaimedOnceHolds == Spec => []ClaimedOnce
  <1>1. IInv => ClaimedOnce  BY DEF IInv
  <1> QED  BY <1>1, Invariance, PTL

\* A run recorded as skipped never started (supersedePendingRun).
THEOREM SkippedNeverStartedHolds == Spec => []SkippedNeverStarted
  <1>1. IInv => SkippedNeverStarted  BY DEF IInv
  <1> QED  BY <1>1, Invariance, PTL

\* A lease in its grace window never admits a report on an open run (reclaimRun).
THEOREM GraceIsOverHolds == Spec => []GraceIsOver
  <1>1. IInv => GraceIsOver  BY DEF IInv
  <1> QED  BY <1>1, Invariance, PTL

\* No run of a deleted loop is running, but for one that was added and read by a poll while
\* the deletion was under way (deleteLoop, poll).
THEOREM RunningHasLoopHolds == Spec => []RunningHasLoop
  <1>1. IInv => RunningHasLoop  BY DEF IInv
  <1> QED  BY <1>1, Invariance, PTL

\* A run that is over is never open again: updateRun only closes, and
\* claimPendingRun and supersedePendingRun take pending runs only.
THEOREM NeverReopenedHolds == Spec => NeverReopened
  <1> DEFINE NoReopening == \A r \in Runs : run[r].phase \in Closed \cup {"gone"} => run'[r].phase \notin Open
  <1>1. ASSUME ConstantsOK, IInv, [Next]_vars PROVE NoReopening
    <2>1. ASSUME NEW r \in Runs, run[r].phase \in Closed \cup {"gone"} PROVE run'[r].phase \notin Open
      BY <1>1, <2>1, BornStep DEF Closed, Open
    <2> QED  BY <2>1
  <1> QED  BY <1>1, Invariance, ConstantsOK, PTL DEF Spec, NeverReopened

(***************************************************************************)
(* A settled run.                                                          *)
(***************************************************************************)

\* No handler in flight has it, so nobody writes its phase but a deletion.
LEMMA FinalRow == ASSUME ConstantsOK, IInv, [Next]_vars, NEW r \in Runs, Settled(r)
                  PROVE  run'[r].phase \in {run[r].phase, "gone"}
  <1>0. /\ TypeOK /\ run \in [Runs -> RunRow] /\ run[r] \in RunRow
        /\ run[r].phase \in Closed /\ run[r].phase \notin Open /\ run[r].phase # "unborn"
    BY DEF IInv, TypeOK, Settled, Closed, Open
  <1>1. ASSUME NEW q, NEW ph, q # r, run' = WithPhase(q, ph) PROVE run'[r] = run[r]
    BY <1>0, <1>1 DEF WithPhase
  <1>2. ASSUME NEW q, run' = Superseded(q) PROVE run'[r] = run[r]
    BY <1>0, <1>2 DEF Superseded, Open
  <1>3. ASSUME NEW f \in Fires, TickStep(f) PROVE run'[r] = run[r]
    <2>1. ASSUME TickAdd(f) PROVE run'[r] = run[r]
      <3>1. PICK q \in Runs :
              /\ run[q].phase = "unborn" /\ run'[q].phase = "pending"
              /\ run'[q].loop = tick[f].loop /\ run'[q].outcome = run[q].outcome
              /\ \A z \in Runs \ {q} : run'[z] = run[z]
              /\ tick' = [tick EXCEPT ![f] = [@ EXCEPT !.pc = "dispatch", !.run = q]]
        BY <2>1, AddStep, Zenon
      <3> QED  BY <1>0, <3>1
    <2>2. CASE TickDispatch(f)
      <3>1. tick[f].run # r  BY DEF Settled, Touching
      <3> QED  BY <1>1, <2>2, <3>1 DEF TickDispatch
    <2>3. CASE TickRetire(f)
      <3>1. PICK q \in tick[f].todo : run' = Superseded(q)  BY <2>3 DEF TickRetire
      <3> QED  BY <1>2, <3>1
    <2>4. CASE (\E l \in Loops : TickBegin(f, l)) \/ TickInspect(f) \/ TickUnmark(f)
      <3>1. run' = run  BY <2>4, Zenon DEF TickBegin, TickInspect, TickUnmark
      <3> QED  BY <3>1
    <2> QED  BY <1>3, <2>1, <2>2, <2>3, <2>4 DEF TickStep
  <1>4. ASSUME NEW p \in Polls, PollStep(p) PROVE run'[r].phase = run[r].phase
    <2>1. r \notin poll[p].todo /\ poll[p].run # r  BY DEF Settled, Touching
    <2>2. CASE PollLoad(p)  BY <1>1, <2>1, <2>2 DEF PollLoad
    <2>3. CASE PollClaim(p)  BY <2>1, <2>3, ClaimStep
    <2>4. CASE PollRegister(p)  BY <1>0, <2>1, <2>4 DEF PollRegister
    <2> QED  BY <1>4, <2>2, <2>3, <2>4 DEF PollStep, PollArrive, PollRespond, PollAbort
  <1>5. ASSUME NEW s \in Sweeps, SweepStep(s) PROVE run'[r] = run[r]
    <2>1. \A seen \in sweep[s].todo : seen.run # r  BY DEF Settled, Touching
    <2> QED  BY <1>1, <1>2, <1>5, <2>1 DEF SweepStep, SweepBegin, SweepReclaim, SweepTerminalize, SweepAfter, SweepDefer, SweepEnd
  <1>6. ASSUME NEW x \in Reports, ReportStep(x) PROVE run'[r] = run[r]
    <2>1. report[x].run # r  BY DEF Settled, Touching
    <2> QED  BY <1>1, <1>6, <2>1 DEF ReportStep, ReportArrive, ReportRead, ReportWrite, ReportRetire, ReportMarker
  <1>7. ASSUME NEW y \in Finishes, FinishStep(y) PROVE run'[r] = run[r]
    <2>1. finish[y].run # r  BY DEF Settled, Touching
    <2> QED  BY <1>1, <1>7, <2>1 DEF FinishStep, FinishArrive, FinishCheck, FinishRun, FinishLoop
  <1>8. ASSUME NEW c \in Cancels, CancelStep(c) PROVE run'[r] = run[r]
    <2>1. cancel[c].run # r  BY DEF Settled, Touching
    <2> QED  BY <1>1, <1>8, <2>1 DEF CancelStep, CancelRead, CancelWrite
  <1>9. ASSUME NEW q \in Runs, MachineStep(q) PROVE run'[r].phase = run[r].phase
    BY <1>0, <1>9 DEF RunRow, MachineStep, PollProgress, Silence, GraceElapses, AgentEnds, AgentDies, machineOnly
  <1>10. ASSUME NEW l \in Loops, OwnerStep(l) PROVE run' = run
    BY <1>10 DEF OwnerStep, Pause, Resume, SetGoal, ClearGoal, EvolveNow, RequestEdit
  <1>12. ASSUME NEW l \in Loops, DeleteStep(l) PROVE run'[r].phase \in {run[r].phase, "gone"}
    <2>1. CASE DeleteCommit(l)
      <3>1. run' = [q \in Runs |-> IF q \in deletion[l].runs THEN [run[q] EXCEPT !.phase = "gone", !.age = 0]
                                                             ELSE run[q]]
        BY <2>1, Zenon DEF DeleteCommit
      <3>2. CASE r \in deletion[l].runs
        <4>1. run'[r] = [run[r] EXCEPT !.phase = "gone", !.age = 0]  BY <3>1, <3>2, Zenon
        <4> QED  BY <1>0, <4>1 DEF RunRow
      <3>3. CASE r \notin deletion[l].runs
        <4>1. run'[r] = run[r]  BY <3>1, <3>3, Zenon
        <4> QED  BY <4>1
      <3> QED  BY <3>2, <3>3
    <2> QED  BY <1>12, <2>1 DEF DeleteStep, DeleteBegin, DeleteRuns, DeleteLeases, Taking
  <1>11. ASSUME Restart \/ UNCHANGED vars PROVE run' = run  BY <1>11 DEF Restart, vars
  <1> QED  BY <1>3, <1>4, <1>5, <1>6, <1>7, <1>8, <1>9, <1>10, <1>11, <1>12 DEF Next, Step

\* Its lease stays retired: one is minted only by the poll that claimed the run.
LEMMA FinalLease == ASSUME ConstantsOK, IInv, [Next]_vars, NEW r \in Runs, Settled(r)
                    PROVE  lease'[r].state = "none"
  <1>1. lease[r].state = "none" /\ \A p \in Polls : poll[p].run # r  BY DEF Settled, Touching
  <1>2. CASE LeasesCalm  BY <1>1, <1>2 DEF LeasesCalm
  <1>3. ASSUME NEW p \in Polls, PollRegister(p) PROVE lease'[r] = lease[r]  BY <1>1, <1>3, RegisterStep
  <1> QED  BY <1>1, <1>2, <1>3, LeasesStep

\* And no handler takes it up: a poll, a sweep and a cancel start from an open run, a
\* tick adds a run of its own, a report and a finish need a lease.
LEMMA FinalTicks == ASSUME ConstantsOK, IInv, [Next]_vars, NEW r \in Runs, Settled(r), NEW g \in Fires
                    PROVE  tick'[g].run # r
  <1>0. tick \in [Fires -> Tick] /\ tick[g].run # r /\ run[r].phase # "unborn" /\ None # r
    BY DEF IInv, TypeOK, Settled, Touching, Closed, ConstantsOK
  <1>1. NoTick.run # r  BY <1>0 DEF NoTick
  <1>2. ASSUME NEW f \in Fires, TickStep(f) PROVE tick'[g].run # r
    <2>1. ASSUME TickAdd(f) PROVE tick'[g].run # r
      <3>1. PICK q \in Runs :
              /\ run[q].phase = "unborn" /\ run'[q].phase = "pending"
              /\ run'[q].loop = tick[f].loop /\ run'[q].outcome = run[q].outcome
              /\ \A z \in Runs \ {q} : run'[z] = run[z]
              /\ tick' = [tick EXCEPT ![f] = [@ EXCEPT !.pc = "dispatch", !.run = q]]
        BY <2>1, AddStep, Zenon
      <3>2. q # r  BY <1>0, <3>1
      <3> QED  BY <1>0, <3>1, <3>2 DEF Tick
    <2>2. CASE \E l \in Loops : TickBegin(f, l)
      <3>1. PICK l \in Loops : TickBegin(f, l)  BY <2>2
      <3> DEFINE ro == IF loop[l].edit # 0 THEN "edit" ELSE IF "evolve" \in loop[l].is THEN "evolve" ELSE "exec"
      <3>2. tick' = [tick EXCEPT ![f] = [NoTick EXCEPT !.pc = "inspect", !.loop = l, !.role = ro]]
        BY <3>1 DEF TickBegin
      <3> HIDE DEF ro
      <3>3. [NoTick EXCEPT !.pc = "inspect", !.loop = l, !.role = ro].run = None  BY DEF NoTick
      <3> QED  BY <1>0, <3>2, <3>3
    <2>3. CASE TickInspect(f)
      <3>1. CASE tick' = [tick EXCEPT ![f] = NoTick]  BY <1>0, <1>1, <3>1
      <3>2. CASE tick' = [tick EXCEPT ![f] = [@ EXCEPT !.pc = "retire", !.todo = OpenRuns(tick[f].loop)]]
        <4>1. [tick[f] EXCEPT !.pc = "retire", !.todo = OpenRuns(tick[f].loop)].run = tick[f].run
          BY <1>0 DEF Tick
        <4> QED  BY <1>0, <3>2, <4>1
      <3> QED  BY <2>3, <3>1, <3>2 DEF TickInspect, TickEnd
    <2>4. CASE TickRetire(f)
      <3>1. tick' = [tick EXCEPT ![f] = NoTick] \/ \E q : tick' = [tick EXCEPT ![f].todo = @ \ {q}]
        BY <2>4 DEF TickRetire, TickEnd
      <3> QED  BY <1>0, <1>1, <3>1 DEF Tick
    <2>5. CASE TickDispatch(f) \/ TickUnmark(f)
      <3>1. tick' = [tick EXCEPT ![f] = NoTick] \/ tick' = [tick EXCEPT ![f].pc = "rearm"]
        BY <2>5 DEF TickDispatch, TickUnmark, TickEnd
      <3> QED  BY <1>0, <1>1, <3>1 DEF Tick
    <2> QED  BY <1>2, <2>1, <2>2, <2>3, <2>4, <2>5 DEF TickStep
  <1>3. CASE Restart  BY <1>1, <1>3 DEF Restart
  <1> QED  BY <1>0, <1>2, <1>3, HandlersStep

LEMMA FinalPolls == ASSUME ConstantsOK, IInv, [Next]_vars, NEW r \in Runs, Settled(r), NEW o \in Polls
                    PROVE  r \notin poll'[o].todo /\ poll'[o].run # r
  <1>0. /\ poll \in [Polls -> Poll] /\ r \notin poll[o].todo /\ poll[o].run # r
        /\ \A p \in Polls : r \notin poll[p].todo
        /\ run[r].phase # "pending" /\ None # r
    BY DEF IInv, TypeOK, Settled, Touching, Closed, ConstantsOK
  <1>1. r \notin NoPoll.todo /\ NoPoll.run # r  BY <1>0 DEF NoPoll
  <1>2. ASSUME NEW ps \in Poll, r \notin ps.todo PROVE r \notin NextOf(ps).todo /\ NextOf(ps).run # r
    BY <1>0, <1>2 DEF NextOf, NoPoll
  <1>3. ASSUME NEW p \in Polls, PollStep(p) PROVE r \notin poll'[o].todo /\ poll'[o].run # r
    <2>1. CASE PollArrive(p)
      <3> DEFINE S == {q \in Runs : run[q].phase = "pending"}
                 ps == [NoPoll EXCEPT !.pc = "next", !.todo = S]
      <3>1. poll' = poll \/ poll' = [poll EXCEPT ![p] = ps]  BY <2>1 DEF PollArrive
      <3>2. r \notin S  BY <1>0
      <3> HIDE DEF S
      <3>3. r \notin ps.todo /\ ps.run = None  BY <3>2 DEF NoPoll
      <3> HIDE DEF ps
      <3> QED  BY <1>0, <3>1, <3>3
    <2>2. CASE PollLoad(p)
      <3>1. PICK q \in poll[p].todo :
              \/ poll' = [poll EXCEPT ![p].todo = @ \ {q}]
              \/ \E is, edit, got : poll' = [poll EXCEPT ![p] = [pc |-> "claim", todo |-> @.todo \ {q}, run |-> q,
                                                                 is |-> is, edit |-> edit, got |-> got]]
        BY <2>2 DEF PollLoad
      <3>2. q # r  BY <1>0
      <3> QED  BY <1>0, <3>1, <3>2 DEF Poll
    <2>3. CASE PollClaim(p)
      <3>1. poll' = [poll EXCEPT ![p].pc = "register"] \/ poll' = [poll EXCEPT ![p] = NextOf(poll[p])]
        BY <2>3 DEF PollClaim
      <3>2. r \notin NextOf(poll[p]).todo /\ NextOf(poll[p]).run # r  BY <1>0, <1>2
      <3> QED  BY <1>0, <3>1, <3>2 DEF Poll
    <2>4. CASE PollRegister(p)
      <3> DEFINE ps == [poll[p] EXCEPT !.got = poll[p].got \cup {poll[p].run}]
      <3>1. poll' = [poll EXCEPT ![p] = NextOf(ps)]  BY <2>4 DEF PollRegister
      <3>2. r \notin ps.todo  BY <1>0 DEF Poll
      <3> HIDE DEF ps
      <3>3. r \notin NextOf(ps).todo /\ NextOf(ps).run # r  BY <1>0, <3>2 DEF NextOf, NoPoll
      <3> QED  BY <1>0, <3>1, <3>3
    <2>5. CASE PollRespond(p) \/ PollAbort(p)
      <3>1. poll' = [poll EXCEPT ![p] = NoPoll]  BY <2>5 DEF PollRespond, PollAbort
      <3> QED  BY <1>0, <1>1, <3>1
    <2> QED  BY <1>3, <2>1, <2>2, <2>3, <2>4, <2>5 DEF PollStep
  <1>4. CASE Restart  BY <1>1, <1>4 DEF Restart
  <1> QED  BY <1>0, <1>3, <1>4, HandlersStep

LEMMA FinalSweeps == ASSUME ConstantsOK, IInv, [Next]_vars, NEW r \in Runs, Settled(r), NEW o \in Sweeps
                     PROVE  sweep'[o].run # r /\ \A seen \in sweep'[o].todo : seen.run # r
  <1>0. /\ sweep \in [Sweeps -> Sweep]
        /\ \A s \in Sweeps : sweep[s].run # r /\ \A seen \in sweep[s].todo : seen.run # r
        /\ run[r].phase \notin Open /\ None # r
    BY DEF IInv, TypeOK, Settled, Touching, Closed, Open, ConstantsOK
  <1>1. NoSweep.run # r /\ \A seen \in NoSweep.todo : seen.run # r  BY <1>0 DEF NoSweep
  <1>2. ASSUME NEW s \in Sweeps, SweepStep(s) PROVE sweep'[o].run # r /\ \A seen \in sweep'[o].todo : seen.run # r
    <2>1. CASE SweepBegin(s)
      <3> DEFINE S == {[run |-> q, phase |-> run[q].phase, age |-> run[q].age] :
                         q \in {z \in Runs : run[z].phase \in Open /\ run[z].age > 0}}
      <3>1. sweep' = sweep \/ sweep' = [sweep EXCEPT ![s] = [NoSweep EXCEPT !.pc = "next", !.todo = S]]
        BY <2>1 DEF SweepBegin
      <3>2. \A seen \in S : seen.run # r  BY <1>0
      <3> HIDE DEF S
      <3> QED  BY <1>0, <3>1, <3>2 DEF NoSweep
    <2>2. CASE SweepReclaim(s)
      <3>1. PICK seen \in sweep[s].todo :
              sweep' = [sweep EXCEPT ![s] = [pc |-> "lease", run |-> seen.run, todo |-> @.todo \ {seen}]]
        BY <2>2 DEF SweepReclaim
      <3> QED  BY <1>0, <3>1
    <2>3. CASE SweepTerminalize(s) \/ SweepAfter(s)
      <3> DEFINE after == [sweep[s] EXCEPT !.pc = "after"]
                 next == [sweep[s] EXCEPT !.pc = "next", !.run = None]
      <3>1. sweep' = [sweep EXCEPT ![s] = after] \/ sweep' = [sweep EXCEPT ![s] = next]
        BY <2>3 DEF SweepTerminalize, SweepAfter
      <3>2. sweep[s] \in Sweep  BY <1>0
      <3>3. /\ after.run = sweep[s].run /\ after.todo = sweep[s].todo
            /\ next.run = None /\ next.todo = sweep[s].todo
        BY <3>2 DEF Sweep
      <3> HIDE DEF after, next
      <3> QED  BY <1>0, <3>1, <3>3
    <2>4. CASE SweepDefer(s) \/ SweepEnd(s)
      <3>1. sweep' = [sweep EXCEPT ![s] = NoSweep] \/ \E seen : sweep' = [sweep EXCEPT ![s].todo = @ \ {seen}]
        BY <2>4 DEF SweepDefer, SweepEnd
      <3> QED  BY <1>0, <1>1, <3>1 DEF Sweep
    <2> QED  BY <1>2, <2>1, <2>2, <2>3, <2>4 DEF SweepStep
  <1>3. CASE Restart  BY <1>1, <1>3 DEF Restart
  <1> QED  BY <1>0, <1>2, <1>3, HandlersStep

LEMMA FinalRequests == ASSUME ConstantsOK, IInv, [Next]_vars, NEW r \in Runs, Settled(r)
                       PROVE  /\ \A x \in Reports : report'[x].run # r
                              /\ \A y \in Finishes : finish'[y].run # r
                              /\ \A c \in Cancels : cancel'[c].run # r
  <1>0. /\ report \in [Reports -> Report] /\ \A x \in Reports : report[x].run # r
        /\ finish \in [Finishes -> Finish] /\ \A y \in Finishes : finish[y].run # r
        /\ cancel \in [Cancels -> Cancel] /\ \A c \in Cancels : cancel[c].run # r
        /\ run[r].phase \notin Open /\ lease[r].state = "none" /\ None # r
    BY DEF IInv, TypeOK, Settled, Touching, Closed, Open, ConstantsOK
  <1>1. NoReport.run # r /\ NoFinish.run # r /\ NoCancel.run # r  BY <1>0 DEF NoReport, NoFinish, NoCancel
  <1>2. ASSUME NEW x \in Reports, ReportStep(x) PROVE \A o \in Reports : report'[o].run # r
    <2>1. CASE \E q \in Runs : ReportArrive(x, q)
      <3>1. PICK q \in Runs : ReportArrive(x, q)  BY <2>1
      <3>2. \/ report' = report
            \/ q # r /\ \E exit, via : report' = [report EXCEPT ![x] = [pc |-> "read", run |-> q, exit |-> exit,
                                                                         via |-> via, branch |-> "unread"]]
        BY <1>0, <3>1 DEF ReportArrive
      <3> QED  BY <1>0, <3>2
    <2>2. CASE ReportRead(x)
      <3> DEFINE ph == run[report[x].run].phase
                 branch == IF ph = "canceled" THEN "ignored"
                           ELSE IF ph = "done" THEN "enrich"
                           ELSE IF ph = "error" /\ report[x].via = "grace" THEN "reconcile"
                           ELSE "final"
                 pc == IF branch \in {"ignored", "enrich"} THEN "retire" ELSE "write"
      <3>1. report' = [report EXCEPT ![x] = [@ EXCEPT !.branch = branch, !.pc = pc]]  BY <2>2 DEF ReportRead
      <3> HIDE DEF branch, pc
      <3> QED  BY <1>0, <3>1 DEF Report
    <2>3. CASE ReportWrite(x) \/ ReportRetire(x) \/ ReportMarker(x)
      <3>1. report' = [report EXCEPT ![x] = NoReport] \/ \E pc : report' = [report EXCEPT ![x].pc = pc]
        BY <2>3 DEF ReportWrite, ReportRetire, ReportMarker, ReportAnswer
      <3> QED  BY <1>0, <1>1, <3>1 DEF Report
    <2> QED  BY <1>2, <2>1, <2>2, <2>3 DEF ReportStep
  <1>3. ASSUME NEW y \in Finishes, FinishStep(y) PROVE \A o \in Finishes : finish'[o].run # r
    <2>1. CASE \E q \in Runs : FinishArrive(y, q)
      <3>1. PICK q \in Runs : lease[q].state = "active" /\ finish' = [finish EXCEPT ![y] = [pc |-> "check", run |-> q]]
        BY <2>1 DEF FinishArrive
      <3> QED  BY <1>0, <3>1
    <2>2. CASE FinishCheck(y) \/ FinishRun(y) \/ FinishLoop(y)
      <3>1. finish' = [finish EXCEPT ![y] = NoFinish] \/ \E pc : finish' = [finish EXCEPT ![y].pc = pc]
        BY <2>2 DEF FinishCheck, FinishRun, FinishLoop
      <3> QED  BY <1>0, <1>1, <3>1 DEF Finish
    <2> QED  BY <1>3, <2>1, <2>2 DEF FinishStep
  <1>4. ASSUME NEW c \in Cancels, CancelStep(c) PROVE \A o \in Cancels : cancel'[o].run # r
    <2>1. \/ cancel' = [cancel EXCEPT ![c] = NoCancel]
          \/ \E q \in Runs : run[q].phase \in Open /\ cancel' = [cancel EXCEPT ![c] = [pc |-> "write", run |-> q]]
      BY <1>4 DEF CancelStep, CancelRead, CancelWrite
    <2> QED  BY <1>0, <1>1, <2>1
  <1>5. CASE Restart  BY <1>1, <1>5 DEF Restart
  <1> QED  BY <1>0, <1>2, <1>3, <1>4, <1>5, HandlersStep

\* The verdict on a run is final once its lease is retired and the handlers that had it
\* are through: whoever comes later finds it closed, without a lease.
THEOREM SettledIsFinalHolds == Spec => SettledIsFinal
  <1> DEFINE Final == \A r \in Runs : Settled(r) => \/ run'[r].phase = "gone"
                                                    \/ run'[r].phase = run[r].phase /\ Settled(r)'
  <1>1. ASSUME ConstantsOK, IInv, [Next]_vars PROVE Final
    <2>1. ASSUME NEW r \in Runs, Settled(r), run'[r].phase # "gone" PROVE run'[r].phase = run[r].phase /\ Settled(r)'
      <3>1. run'[r].phase = run[r].phase  BY <1>1, <2>1, FinalRow
      <3>2. ~Touching(r)'  BY <1>1, <2>1, FinalTicks, FinalPolls, FinalSweeps, FinalRequests DEF Touching
      <3> QED  BY <1>1, <2>1, <3>1, <3>2, FinalLease DEF Settled
    <2> QED  BY <2>1
  <1> QED  BY <1>1, Invariance, ConstantsOK, PTL DEF Spec, SettledIsFinal

\* Initially every slot is empty.
LEMMA SlotInit == ASSUME Init PROVE Slot!Init
  BY DEF Init, Slot!Init, StageOf

\* Every step of the server is a step of the slots or leaves them alone.
LEMMA SlotStep == ASSUME ConstantsOK, IInv, [Next]_vars
                  PROVE  [Slot!Next]_<<[r \in Runs |-> StageOf(run[r].phase)], [r \in Runs |-> run[r].loop]>>
  <1> DEFINE stage == [r \in Runs |-> StageOf(run[r].phase)]
             owner == [r \in Runs |-> run[r].loop]
  <1>0. TypeOK /\ RowsOK /\ OneOpenRun  BY DEF IInv
  <1>1. ASSUME NEW f \in Fires, TickAdd(f)
        PROVE  \E r \in Runs : Slot!Enqueue(tick[f].loop, r) /\ tick[f].loop \in Loops
    <2>1. PICK r \in Runs :
            /\ run[r].phase = "unborn" /\ run'[r].phase = "pending" /\ run'[r].loop = tick[f].loop
            /\ \A q \in Runs \ {r} : run'[q] = run[q]
      BY <1>1, AddStep
    <2>2. tick[f].loop \in Loops /\ OpenRuns(tick[f].loop) = {}  BY <1>1, AddStep
    <2>3. stage[r] = "unborn"  BY <2>1 DEF StageOf
    <2>4. Slot!InSlot(tick[f].loop) = {}  BY <1>0, <2>2 DEF TypeOK, RunRow, Slot!InSlot, OpenRuns, StageOf, Open, Phases, Closed, Absent
    <2>5. stage' = [stage EXCEPT ![r] = "waiting"]  BY <2>1 DEF StageOf
    <2>6. owner' = [owner EXCEPT ![r] = tick[f].loop]  BY <2>1
    <2> QED  BY <2>2, <2>3, <2>4, <2>5, <2>6 DEF Slot!Enqueue
  <1>2. ASSUME NEW p \in Polls, PollClaim(p) PROVE UNCHANGED <<stage, owner>> \/ \E r \in Runs : Slot!Start(r)
    <2> DEFINE r == poll[p].run
    <2>1. /\ r \in Runs /\ \A q \in Runs \ {r} : run'[q] = run[q]
          /\ run'[r].loop = run[r].loop
          /\ \/ run'[r].phase = run[r].phase
             \/ (run[r].phase = "pending" /\ run'[r].phase = "running")
      BY <1>2, ClaimStep
    <2> HIDE DEF r
    <2>2. owner' = owner  BY <2>1
    <2>3. CASE run'[r].phase = run[r].phase
      <3>1. stage' = stage  BY <2>1, <2>3
      <3> QED  BY <2>2, <3>1
    <2>4. CASE run[r].phase = "pending" /\ run'[r].phase = "running"
      <3>1. stage[r] = "waiting" /\ stage' = [stage EXCEPT ![r] = "working"]  BY <2>1, <2>4 DEF StageOf
      <3> QED  BY <2>1, <2>2, <3>1 DEF Slot!Start
    <2> QED  BY <2>1, <2>3, <2>4
  <1>3. CASE RunsCalm
    <2>1. owner' = owner  BY <1>3 DEF RunsCalm
    <2>2. CASE \A r \in Runs : run[r].phase \in Open => run'[r].phase = run[r].phase
      <3>1. \A r \in Runs : StageOf(run'[r].phase) = StageOf(run[r].phase)
        BY <1>0, <1>3, <2>2 DEF TypeOK, RunRow, RunsCalm, StageOf, Open, Closed, Absent, Phases
      <3>2. stage' = stage  BY <3>1 DEF StageOf
      <3> QED  BY <2>1, <3>2
    <2>3. ASSUME NEW r \in Runs, run[r].phase \in Open, run'[r].phase # run[r].phase PROVE Slot!Close(r)
      <3>1. stage[r] \in {"waiting", "working"}  BY <2>3 DEF StageOf, Open
      <3>2. \A q \in Runs \ {r} : StageOf(run'[q].phase) = StageOf(run[q].phase)
        BY <1>0, <1>3, <2>3 DEF TypeOK, RunRow, RunsCalm, StageOf, Open, Closed, Absent, Phases
      <3>3. StageOf(run'[r].phase) = "over"
        BY <1>3, <2>3 DEF RunsCalm, StageOf, Closed
      <3>4. stage' = [stage EXCEPT ![r] = "over"]  BY <3>2, <3>3 DEF StageOf
      <3> QED  BY <2>1, <3>1, <3>4 DEF Slot!Close
    <2> QED  BY <2>2, <2>3 DEF Slot!Next
  <1> QED  BY <1>1, <1>2, <1>3, RunsStep DEF Slot!Next

\* The server implements the one-slot inbox, for any number of loops and runs.
THEOREM ImplementsSlotHolds == Spec => ImplementsSlot
  BY ConstantsOK, Invariance, SlotInit, SlotStep, PTL DEF Spec, ImplementsSlot, Slot!Spec
==============================================================================
