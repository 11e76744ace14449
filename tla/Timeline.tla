------------------------------ MODULE Timeline ------------------------------
(***************************************************************************)
(* The cross-loop timeline: components/LoopTimeline.tsx on the client,     *)
(* listTimeline (server/loopApi.ts, server/timeline.ts, db/store.ts) on    *)
(* the server, and as much of the scheduler and the gateway as stamps the  *)
(* rows it shows.                                                          *)
(*                                                                         *)
(* The handler reads the loops, then the runs of the window, and takes the *)
(* time last; right of that time it projects the cron and the one-shot.    *)
(* The page asks again on every change of zoom and every half minute, and  *)
(* cancels nothing: answers arrive in any order.                           *)
(***************************************************************************)
EXTENDS FiniteSets, FiniteSetsExt, Integers

CONSTANTS
  Loops, Machines,
  OwnedBy,       \* the machine a loop is bound to
  Created,       \* the loops there from the start; the others are created later
  Fires,         \* the times every loop's cron fires at
  Slack,         \* a one-shot this close is taken along by a tick (1.5 s)
  RunCap,        \* TIMELINE_RUN_CAP
  MaxProjected,  \* MAX_PROJECTED_PER_LOOP
  Day, Back, Ahead,  \* the day, and the days a week's window lies behind and ahead
  Calls,         \* bound: requests in flight
  Start, MaxTime, MaxRuns, MaxEdits,  \* bounds: clock, runs, changes of a loop
  All            \* no device is selected

VARIABLES
  clock,
  loop,    \* loop[l]: its row: is it there, does it fire, its one-shot, with the change that set it
  ticked,  \* ticked[l]: the last time its cron job fired
  edits,   \* counts the changes
  runs,    \* runs[n]: a run's row, with the fires it answers and, as history, its start
  zoom, now, device, showIdle, data, error,   \* the page
  call,    \* call[i]: a request
  slipped  \* history: the answer on display read the loops before a loop was created

(* What the constants are. *)
TimelineConstantsOK ==
  /\ Created \subseteq Loops /\ OwnedBy \in [Loops -> Machines] /\ All \notin Loops \cup Machines
  /\ Fires \subseteq Nat /\ {Slack, RunCap, MaxProjected, Back, Ahead} \subseteq Nat /\ Day \in Nat \ {0}
  /\ {Start, MaxTime, MaxRuns, MaxEdits} \subseteq Nat

rows == <<loop, ticked, edits, runs>>
page == <<zoom, now, device, showIdle, data, error>>
vars == <<clock, rows, page, call, slipped>>

Times == 0..(MaxTime + Day + Ahead)
None == -1
NoPin == [at |-> None, by |-> 0]
CronFire(t) == [at |-> t, by |-> 0]
NoRun == [loop |-> All, phase |-> "none", made |-> 0, ts |-> 0, start |-> None, fires |-> {}]
(* known, early, slip: history, the runs made before the loops were read, those made after *)
(* that took a one-shot along ahead of its time, and whether a loop was created in between. *)
NoData == [from |-> None, to |-> None, lanes |-> {}, marks |-> {}, cut |-> FALSE, early |-> {}]
NoCall == [at |-> "free", win |-> [from |-> 0, to |-> 0], rows |-> {}, seen |-> {}, known |-> {}, early |-> {},
           slip |-> FALSE, reply |-> NoData]

TypeOK ==
  /\ edits \in 0..MaxEdits /\ clock \in Start..MaxTime /\ now \in Start..MaxTime
  /\ \A l \in Loops : loop[l].pin.at \in Times \cup {None} /\ ticked[l] \in Times \cup {None}
  /\ \A n \in 1..MaxRuns : runs[n].phase \in {"none", "pending", "running", "over"}
  /\ zoom \in {"day", "week"} /\ device \in Machines \cup {All}
  /\ {showIdle, error, slipped} \subseteq BOOLEAN
  /\ \A i \in Calls : call[i].at \in {"free", "sent", "loops", "rows", "back"}

(* windowFor: the day of `at`, or a stretch around it. *)
WindowFor(z, at) ==
  IF z = "day" THEN LET from == Day * (at \div Day) IN [from |-> from, to |-> from + Day]
  ELSE [from |-> at - Back, to |-> at + Ahead]

Init ==
  /\ clock = Start
  /\ loop = [l \in Loops |-> [there |-> l \in Created, enabled |-> TRUE, pin |-> NoPin]]
  /\ ticked = [l \in Loops |-> Start - 1]
  /\ runs = [n \in 1..MaxRuns |-> NoRun] /\ edits = 0
  /\ zoom = "day" /\ now = Start /\ device = All /\ showIdle = FALSE /\ data = NoData /\ error = FALSE
  /\ call = [i \in Calls |-> NoCall] /\ slipped = FALSE

(***************************************************************************)
(* What happens to the rows meanwhile.                                     *)
(***************************************************************************)
RowsOnly == UNCHANGED <<clock, page, call, slipped>>
Edit == edits < MaxEdits /\ edits' = edits + 1 /\ RowsOnly

Tick ==
  /\ clock < MaxTime
  /\ clock' = clock + 1
  /\ UNCHANGED <<rows, page, call, slipped>>

Of(l) == {n \in 1..MaxRuns : runs[n].loop = l}
Unwritten == {n \in 1..MaxRuns : runs[n] = NoRun}
Written == {n \in 1..MaxRuns : runs[n].phase # "none"}

Superseded(n) == [runs[n] EXCEPT !.phase = "over", !.ts = clock]

(* runLoop: a running run blocks the tick, a pending one is superseded, a one-shot that is *)
(* due, or nearly, is taken along.                                                         *)
RunLoop(l, fires) ==
  IF \E n \in Of(l) : runs[n].phase = "running" THEN UNCHANGED <<loop, runs>>
  ELSE LET due == loop[l].pin # NoPin /\ loop[l].pin.at <= clock + Slack
       IN /\ loop' = [loop EXCEPT ![l].pin = IF due THEN NoPin ELSE @]
          /\ \E n \in Unwritten :
               /\ \A m \in Unwritten : n <= m
               /\ runs' = [m \in 1..MaxRuns |->
                    IF m = n THEN [loop |-> l, phase |-> "pending", made |-> clock, ts |-> clock, start |-> None,
                                   fires |-> fires \cup (IF due THEN {loop[l].pin} ELSE {})]
                    ELSE IF m \in Of(l) /\ runs[m].phase = "pending"
                    THEN Superseded(m) ELSE runs[m]]

(* The cron job, on time or late; it lives while the loop is enabled. *)
CronFires(l) ==
  /\ loop[l].there
  /\ \E f \in Fires :
       /\ ticked[l] < f /\ f <= clock /\ \A g \in Fires : ticked[l] < g => f <= g
       /\ ticked' = [ticked EXCEPT ![l] = f]
       /\ IF loop[l].enabled THEN RunLoop(l, {CronFire(f)}) ELSE UNCHANGED <<loop, runs>>
  /\ RowsOnly /\ UNCHANGED edits

OneShotFires(l) ==
  /\ loop[l].there /\ loop[l].enabled /\ loop[l].pin # NoPin /\ loop[l].pin.at <= clock
  /\ RunLoop(l, {}) /\ loop' # loop
  /\ UNCHANGED ticked /\ RowsOnly /\ UNCHANGED edits

(* reschedule, run-now *)
Pin(l) ==
  /\ loop[l].there
  /\ \E t \in clock..MaxTime : loop' = [loop EXCEPT ![l].pin = [at |-> t, by |-> edits + 1]]
  /\ UNCHANGED <<ticked, runs>> /\ Edit

Toggle(l) ==
  /\ loop[l].there
  /\ loop' = [loop EXCEPT ![l].enabled = ~@]
  /\ UNCHANGED <<ticked, runs>> /\ Edit

CreateLoop(l) ==
  /\ l \notin Created /\ ~loop[l].there /\ Of(l) = {}
  /\ loop' = [loop EXCEPT ![l].there = TRUE] /\ ticked' = [ticked EXCEPT ![l] = clock]
  /\ UNCHANGED runs /\ Edit

(* deleteLoop takes the runs along. *)
DeleteLoop(l) ==
  /\ loop[l].there /\ l \in Created
  /\ loop' = [loop EXCEPT ![l].there = FALSE, ![l].pin = NoPin]
  /\ runs' = [n \in 1..MaxRuns |-> IF n \in Of(l) THEN [runs[n] EXCEPT !.loop = All] ELSE runs[n]]
  /\ UNCHANGED ticked /\ RowsOnly /\ UNCHANGED edits

(* claimPendingRun stamps the row anew, and so does the report. *)
Claim(n) ==
  /\ runs[n].loop # All /\ runs[n].phase = "pending"
  /\ runs' = [runs EXCEPT ![n].phase = "running", ![n].ts = clock, ![n].start = clock]
  /\ UNCHANGED <<loop, ticked>> /\ RowsOnly /\ UNCHANGED edits

Report(n) ==
  /\ runs[n].loop # All /\ runs[n].phase = "running"
  /\ runs' = [runs EXCEPT ![n].phase = "over", ![n].ts = clock]
  /\ UNCHANGED <<loop, ticked>> /\ RowsOnly /\ UNCHANGED edits

(***************************************************************************)
(* listTimeline                                                            *)
(***************************************************************************)
ServerOnly == UNCHANGED <<clock, rows, page, slipped>>

(* listLoops: the lanes, with the schedule the projection will go by. *)
Listed == {[id |-> l, row |-> loop[l]] : l \in {k \in Loops : loop[k].there}}

ReadLoops(i) ==
  /\ call[i].at = "sent"
  /\ call' = [call EXCEPT ![i].at = "loops", ![i].known = Written, ![i].seen = Listed]
  /\ ServerOnly

(* listTeamRunsInRange: the newest of the runs in the window, of loops that are there. *)
InRange(w) ==
  LET hits == {n \in 1..MaxRuns : runs[n].loop # All /\ w.from <= runs[n].ts /\ runs[n].ts < w.to}
  IN {c \in SUBSET hits : Cardinality(c) = Min({RunCap, Cardinality(hits)})
                          /\ \A n \in c, m \in hits \ c : runs[n].ts >= runs[m].ts}

Fetched(c) == {[n |-> n, row |-> runs[n]] : n \in c}

(* The runs that took a one-shot along before it was due, since the loops were read. *)
Early(i, c) == {n \in c \ call[i].known : \E f \in runs[n].fires : f.at > runs[n].made}

ReadRows(i) ==
  /\ call[i].at = "loops"
  /\ \E c \in InRange(call[i].win) :
       call' = [call EXCEPT ![i].at = "rows",
                            ![i].rows = Fetched(c),
                            ![i].early = Early(i, c),
                            ![i].slip = \E n \in c : runs[n].loop \notin {s.id : s \in call[i].seen}]
  /\ ServerOnly

(* projectFires: the one-shot and the next fires of the cron, within (after, to]. *)
ProjectFires(row, after, to) ==
  LET cron == {f \in Fires : after < f /\ f <= to}
      walked == {f \in cron : Cardinality({g \in cron : g < f}) < MaxProjected}
  IN IF ~row.enabled THEN {}
     ELSE {CronFire(f) : f \in walked} \cup {p \in {row.pin} : after < p.at /\ p.at <= to}

(* runToMark; projectedMark, one for all fires of a time. *)
RunToMark(r) == [loop |-> r.row.loop, kind |-> "run", ts |-> r.row.ts, run |-> r.n, fires |-> r.row.fires, start |-> r.row.start]
ProjectedMark(l, t, fires) ==
  [loop |-> l, kind |-> "projected", ts |-> t, run |-> None, fires |-> {f \in fires : f.at = t}, start |-> None]

(* Mutant: the projection begins where the window does. *)
ProjectFromWindow(i) == call[i].win.from

(* Only forward of the time at which everything was read. *)
ProjectFrom(i) == Max({clock, call[i].win.from})

Respond(i) ==
  LET c == call[i]
      ghosts == IF ProjectFrom(i) >= c.win.to THEN {}
                ELSE UNION {LET fires == ProjectFires(s.row, ProjectFrom(i), c.win.to)
                            IN {ProjectedMark(s.id, f.at, fires) : f \in fires} : s \in c.seen}
  IN /\ c.at = "rows"
     /\ call' = [call EXCEPT ![i] = [NoCall EXCEPT
          !.at = "back", !.win = c.win, !.slip = c.slip,
          !.reply = [from |-> c.win.from, to |-> c.win.to, lanes |-> {s.id : s \in c.seen},
                     marks |-> {RunToMark(r) : r \in c.rows} \cup ghosts,
                     cut |-> Cardinality(c.rows) >= RunCap, early |-> c.early]]]
     /\ ServerOnly

(***************************************************************************)
(* The page.                                                               *)
(***************************************************************************)
(* load: a request for the window of now, of whichever zoom. *)
Load(z) ==
  /\ now' = clock
  /\ \E i \in Calls : /\ call[i] = NoCall
                      /\ call' = [call EXCEPT ![i].at = "sent", ![i].win = WindowFor(z, clock)]

SetZoom(z) ==
  /\ zoom # z /\ zoom' = z /\ Load(z)
  /\ UNCHANGED <<clock, rows, device, showIdle, data, error, slipped>>

(* On mount, and every thirty seconds. *)
Refresh ==
  /\ Load(zoom)
  /\ UNCHANGED <<clock, rows, zoom, device, showIdle, data, error, slipped>>

Answer(i) ==
  /\ call[i].at = "back"
  /\ data' = call[i].reply /\ error' = FALSE /\ slipped' = call[i].slip
  /\ call' = [call EXCEPT ![i] = NoCall]
  /\ UNCHANGED <<clock, rows, zoom, now, device, showIdle>>

(* A failed request leaves what is on display. *)
Fails(i) ==
  /\ call[i].at = "sent"
  /\ error' = TRUE /\ call' = [call EXCEPT ![i] = NoCall]
  /\ UNCHANGED <<clock, rows, zoom, now, device, showIdle, data, slipped>>

(* timelineMachines: the devices on offer are those of the lanes. *)
Offered == {OwnedBy[l] : l \in data.lanes}

(* A selected device that is gone means every device. *)
Device == IF device \in Offered THEN device ELSE All

PickDevice(m) ==
  /\ Cardinality(Offered) > 1 /\ m \in Offered \cup {All} /\ device' = m
  /\ UNCHANGED <<clock, rows, zoom, now, showIdle, data, error, call, slipped>>

Scoped == {l \in data.lanes : Device = All \/ OwnedBy[l] = Device}

(* visibleLanes: a lane without a mark is held back, and counted. *)
VisibleLanes ==
  LET busy == {m.loop : m \in data.marks} IN IF showIdle THEN Scoped ELSE Scoped \cap busy

ShowIdle ==
  /\ data # NoData /\ Scoped \ {m.loop : m \in data.marks} # {}
  /\ showIdle' = ~showIdle
  /\ UNCHANGED <<clock, rows, zoom, now, device, data, error, call, slipped>>

RunMarks == {m \in data.marks : m.kind = "run"}

(* The header: the server's total, or, with a device selected, the runs of its lanes. *)
Tally == IF Device = All THEN Cardinality(RunMarks) ELSE Cardinality({m \in RunMarks : m.loop \in Scoped})

(* What the lanes draw. *)
Drawn == {m \in data.marks : m.loop \in VisibleLanes}

Next ==
  \/ Tick
  \/ \E l \in Loops : CronFires(l) \/ OneShotFires(l) \/ Pin(l) \/ Toggle(l) \/ CreateLoop(l) \/ DeleteLoop(l)
  \/ \E n \in 1..MaxRuns : Claim(n) \/ Report(n)
  \/ \E i \in Calls : ReadLoops(i) \/ ReadRows(i) \/ Respond(i) \/ Answer(i) \/ Fails(i)
  \/ \E z \in {"day", "week"} : SetZoom(z)
  \/ Refresh \/ ShowIdle \/ \E m \in Machines \cup {All} : PickDevice(m)

Spec == Init /\ [][Next]_vars

------------------------------------------------------------------------------
(* Properties                                                              *)

(* SAFETY: no fire is drawn both as a run and as a projection of what is to come  *)
(* (loopApi.ts:197), although the schedule is read before the runs and the time    *)
(* last, and although ticks and changes come between: but for a one-shot that a    *)
(* tick took along ahead of its time between the two reads.                        *)
FireShownOnce ==
  \A m, g \in Drawn :
    m.kind = "run" /\ g.kind = "projected" /\ g.loop = m.loop /\ m.fires \cap g.fires # {} => m.run \in data.early

(* SAFETY: the count in the header is that of the runs on display (LoopTimeline.tsx:246), *)
(* whatever device is selected or gone, unless a loop was created between the two reads.  *)
TallyIsOfLanes == slipped \/ Tally = Cardinality({m \in Drawn : m.kind = "run"})

(* CLAIM (types.ts:196): the page renders exactly the window the server scoped. *)
RendersWhatWasScoped ==
  data # NoData /\ ~error /\ call = [i \in Calls |-> NoCall]
    => data.to - data.from = WindowFor(zoom, now).to - WindowFor(zoom, now).from

(* CLAIM (types.ts:174): the time of a run's mark is its start. *)
MarksStartRuns == \A m \in RunMarks : m.start # None => m.ts = m.start

(* CLAIM (loopApi.ts:197): a projection never stands beside the run of its fire. *)
NeverDrawnTwice ==
  \A m, g \in Drawn : m.kind = "run" /\ g.kind = "projected" /\ g.loop = m.loop => m.fires \cap g.fires = {}
===============================================================================
