------------------------------- MODULE Survey -------------------------------
(***************************************************************************)
(* What the CLI shows of a machine's loops and runs: the home page, the    *)
(* list of loops, the survey of a loop's runs, its details.                *)
(*                                                                         *)
(*   gateway/cli.ts    homeDevice, describe and what they render           *)
(*   gateway/index.ts  listLoops, renderLoopLog                            *)
(*   daemon log.ts, loopdir.ts   which loop a directory stands for         *)
(*                                                                         *)
(* A page is put together from many queries, one after the other, while    *)
(* runs come, change and go.  Two programs decide which loops belong to    *)
(* the directory the user is in: the server for the home page, the daemon  *)
(* for `log` and `show`.  Columns computed from the loop's own row (the    *)
(* next fire, the goal, sizes of large fields) are left out.               *)
(***************************************************************************)
EXTENDS Naturals, FiniteSets, Sequences, SequencesExt

CONSTANTS
  Loops,
  Places,     \* where the loops may live: functions to records [task, rel, workdir] of paths
  Dirs,       \* directories the user may be in; a path is the sequence of its parts
  ScratchDir, \* LOOPANY_DIR/work
  NoPath,
  HomeRuns,   \* how many runs the home page shows (3)
  LogRuns,    \* LOG_RUNS_DEFAULT (8)
  MaxRuns, MaxChanges  \* bounds: runs, and changes of them

VARIABLES
  loop,    \* loop[l]: is it there, where does it live
  runs,    \* runs[n]: the rows of runs; ts is the number of the change that wrote them
  changes, \* the number of changes so far
  req,     \* the request at work: its verb, the directory, what it has read
  shown,   \* what the last request printed
  touched  \* history: the runs that changed while the request was at work

rows == <<loop, runs, changes>>
vars == <<rows, req, shown, touched>>

Paths == Seq(STRING)

(* What the constants are; a loop is known by its id. *)
SurveyConstantsOK ==
  /\ Loops \subseteq STRING \ {"none", "gone"} /\ NoPath \notin Paths
  /\ Dirs \subseteq Paths /\ ScratchDir \in Paths
  /\ \A p \in Places, l \in Loops : /\ p[l].task \in Paths \cup {NoPath} /\ p[l].rel \in BOOLEAN
                                   /\ p[l].workdir \in Paths \cup {NoPath}
  /\ {HomeRuns, LogRuns, MaxRuns, MaxChanges} \subseteq Nat

Roles == {"exec", "evolve"}
NoRun == [loop |-> "none", role |-> "exec", phase |-> "none", ts |-> 0]
NoReq == [verb |-> "none", at |-> <<>>, step |-> "idle", todo |-> {}, listed |-> {}, of |-> "none", got |-> {}, last |-> {}]
Nothing == [verb |-> "none", here |-> {}, elsewhere |-> 0, got |-> {}, last |-> {}, total |-> 0, listed |-> {}]
N == 1..MaxRuns

TypeOK ==
  /\ \A l \in Loops : loop[l].there \in BOOLEAN
  /\ \A n \in N : runs[n].role \in Roles /\ runs[n].phase \in {"none", "pending", "running", "done", "error"}
  /\ changes \in 0..MaxChanges /\ touched \subseteq N
  /\ req.verb \in {"none", "home", "loops", "log", "show"} /\ req.todo \subseteq Loops
  /\ shown.here \subseteq Loops /\ shown.elsewhere \in 0..Cardinality(Loops)

Init ==
  /\ \E p \in Places : loop = [l \in Loops |-> [there |-> TRUE, place |-> p[l]]]
  /\ runs = [n \in N |-> NoRun] /\ changes = 0
  /\ req = NoReq /\ shown = Nothing /\ touched = {}

(***************************************************************************)
(* Runs and loops change.                                                  *)
(***************************************************************************)
There == {l \in Loops : loop[l].there}
Of(l) == {n \in N : runs[n].loop = l}

Change(n, r) ==
  /\ shown = Nothing /\ changes < MaxChanges /\ changes' = changes + 1
  /\ runs' = [runs EXCEPT ![n] = [r EXCEPT !.ts = changes + 1]]
  /\ touched' = IF req = NoReq THEN touched ELSE touched \cup {n}
  /\ UNCHANGED <<loop, req, shown>>

(* A tick: at most one run of a loop is open. *)
NewRun(l) ==
  /\ loop[l].there /\ \A n \in Of(l) : runs[n].phase \in {"done", "error"}
  /\ \E n \in N, role \in Roles :
       /\ runs[n] = NoRun /\ \A m \in 1..(n - 1) : runs[m] # NoRun
       /\ Change(n, [loop |-> l, role |-> role, phase |-> "pending", ts |-> 0])

(* Claim and report stamp the row anew. *)
Claim(n) == runs[n].phase = "pending" /\ Change(n, [runs[n] EXCEPT !.phase = "running"])
Report(n) == runs[n].phase = "running" /\ \E p \in {"done", "error"} : Change(n, [runs[n] EXCEPT !.phase = p])

(* deleteLoop takes the runs along. *)
DeleteLoop(l) ==
  /\ shown = Nothing /\ loop[l].there
  /\ loop' = [loop EXCEPT ![l].there = FALSE]
  /\ runs' = [n \in N |-> IF n \in Of(l) THEN [NoRun EXCEPT !.loop = "gone"] ELSE runs[n]]
  /\ touched' = IF req = NoReq THEN touched ELSE touched \cup Of(l)
  /\ UNCHANGED <<changes, req, shown>>

(***************************************************************************)
(* Which loops a directory stands for.                                     *)
(***************************************************************************)
Within(dir, at) == IsPrefix(dir, at)

(* resolveLoopDir, on the daemon: the folder of the task file, which may be relative to *)
(* the workdir, else the workdir, else a scratch folder.                               *)
LoopDir(l) ==
  LET p == loop[l].place
  IN IF p.task # NoPath /\ ~p.rel THEN Front(p.task)
     ELSE IF p.task # NoPath /\ p.workdir # NoPath THEN Front(p.workdir \o p.task)
     ELSE IF p.workdir # NoPath THEN p.workdir
     ELSE Append(ScratchDir, l)

(* Mutant: the workdir comes first. *)
WorkdirFirst(l) ==
  LET p == loop[l].place
  IN IF p.workdir # NoPath THEN p.workdir ELSE IF p.task # NoPath /\ ~p.rel THEN Front(p.task) ELSE NoPath

(* scopeLoopDir, on the server: none where the daemon has a scratch folder. *)
ScopeDir(l) ==
  LET p == loop[l].place
  IN IF p.task # NoPath /\ ~p.rel THEN Front(p.task)
     ELSE IF p.task # NoPath /\ p.workdir # NoPath THEN Front(p.workdir \o p.task)
     ELSE p.workdir

(* scopeLoopsByCwd: the loops of this directory, or all of them where there are none. *)
ScopeLoops(ls, at) ==
  LET matched == {l \in ls : ScopeDir(l) # NoPath /\ Within(ScopeDir(l), at)}
  IN IF matched = {} THEN ls ELSE matched

(* resolveLoopId: the innermost of the loops whose folder this is within. *)
Resolved(ls, at) ==
  {l \in ls : Within(LoopDir(l), at) /\ \A k \in ls : Within(LoopDir(k), at) => Len(LoopDir(k)) <= Len(LoopDir(l))}

(***************************************************************************)
(* Queries.                                                                *)
(***************************************************************************)
Row(n) == [n |-> n, loop |-> runs[n].loop, phase |-> runs[n].phase, role |-> runs[n].role, ts |-> runs[n].ts]
RowsOf(l) == {Row(n) : n \in Of(l)}
Newest(rs, k) == {r \in rs : Cardinality({s \in rs : s.ts > r.ts}) < k}

(* listRuns *)
ListRuns(l, k) == Newest(RowsOf(l), k)

(* lastExecRun *)
LastExecRun(l) == Newest({r \in RowsOf(l) : r.role = "exec"}, 1)

(***************************************************************************)
(* Pages.                                                                  *)
(***************************************************************************)
LoopsPage == [Nothing EXCEPT !.verb = "loops", !.here = req.listed, !.listed = req.listed, !.last = req.last]

HomePage ==
  LET here == ScopeLoops(req.listed, req.at)
  IN [Nothing EXCEPT !.verb = "home", !.here = here, !.listed = req.listed, !.last = req.last,
                     !.elsewhere = Cardinality(req.listed \ here), !.got = Newest(req.got, HomeRuns)]

(* The survey and the details take the last outcome from the runs they have read. *)
LogPage(total) ==
  [Nothing EXCEPT !.verb = "log", !.here = {req.of}, !.listed = req.listed, !.total = total, !.got = req.got,
                  !.last = Newest({r \in req.got : r.role = "exec"}, 1)]

ShowPage(total) == [LogPage(total) EXCEPT !.verb = "show", !.got = {}]

(***************************************************************************)
(* Requests.                                                               *)
(***************************************************************************)
(* A request leaves nothing behind, so one of them, at any time, stands for all; a *)
(* behaviour ends with its answer.                                                  *)
Begin(verb, at) ==
  /\ req = NoReq /\ shown = Nothing
  /\ req' = [NoReq EXCEPT !.verb = verb, !.at = at, !.step = "list"]
  /\ touched' = {}
  /\ UNCHANGED <<rows, shown>>

Reply(s) == shown' = s /\ req' = NoReq

(* homeDevice and listLoops: the loops of the machine; the home page asks for the last *)
(* outcome of those of its directory only.                                             *)
ReadLoops ==
  /\ req.verb \in {"home", "loops"} /\ req.step = "list"
  /\ req' = [req EXCEPT !.step = "last", !.listed = There,
                        !.todo = IF req.verb = "home" THEN ScopeLoops(There, req.at) ELSE There]
  /\ UNCHANGED <<rows, shown, touched>>

ReadLast ==
  /\ req.step = "last"
  /\ \E l \in req.todo : req' = [req EXCEPT !.todo = @ \ {l}, !.last = @ \cup LastExecRun(l)]
  /\ UNCHANGED <<rows, shown, touched>>

ReadLastDone ==
  /\ req.step = "last" /\ req.todo = {}
  /\ IF req.verb = "home" THEN req' = [req EXCEPT !.step = "runs", !.todo = req.listed] /\ UNCHANGED shown
     ELSE Reply(LoopsPage)
  /\ UNCHANGED <<rows, touched>>

(* Mutant: one run of each loop. *)
LatestOfEach(l) == ListRuns(l, 1)

(* recentMachineRuns: a few of the newest runs of each loop, one loop after the other. *)
Recent(l) == ListRuns(l, HomeRuns)

ReadRuns ==
  /\ req.step = "runs"
  /\ \E l \in req.todo : req' = [req EXCEPT !.todo = @ \ {l}, !.got = @ \cup Recent(l)]
  /\ UNCHANGED <<rows, shown, touched>>

ShowHome ==
  /\ req.step = "runs" /\ req.todo = {}
  /\ Reply(HomePage)
  /\ UNCHANGED <<rows, touched>>

(* `log` and `show`: listLoops, and the daemon picks the loop of its directory. *)
PickLoop ==
  /\ req.verb \in {"log", "show"} /\ req.step = "list"
  /\ IF Resolved(There, req.at) = {} THEN Reply([Nothing EXCEPT !.verb = "usage"])
     ELSE \E l \in Resolved(There, req.at) :
            req' = [req EXCEPT !.step = "rows", !.of = l, !.listed = There] /\ UNCHANGED shown
  /\ UNCHANGED <<rows, touched>>

(* renderLoopLog, describe: a loop that is gone is not found. *)
ReadLog ==
  /\ req.step = "rows"
  /\ IF req.of \notin There THEN Reply([Nothing EXCEPT !.verb = "notFound"])
     ELSE req' = [req EXCEPT !.step = "count", !.got = ListRuns(req.of, LogRuns)] /\ UNCHANGED shown
  /\ UNCHANGED <<rows, touched>>

(* The number of the loop's runs is another query. *)
ShowLog ==
  /\ req.step = "count"
  /\ LET total == Cardinality(Of(req.of)) IN Reply(IF req.verb = "log" THEN LogPage(total) ELSE ShowPage(total))
  /\ UNCHANGED <<rows, touched>>

Next ==
  \/ \E l \in Loops : NewRun(l) \/ DeleteLoop(l)
  \/ \E n \in N : Claim(n) \/ Report(n)
  \/ Begin("loops", <<>>)
  \/ \E v \in {"home", "log", "show"}, d \in Dirs : Begin(v, d)
  \/ ReadLoops \/ ReadLast \/ ReadLastDone \/ ReadRuns \/ ShowHome \/ PickLoop \/ ReadLog \/ ShowLog

Spec == Init /\ [][Next]_vars

------------------------------------------------------------------------------
(* Properties                                                              *)

(* SAFETY: the runs on the home page are the machine's latest, although the loops are *)
(* read one after the other (cli.ts:1081): no run that stayed as it is meanwhile is   *)
(* left out for an older one.                                                         *)
NothingNewerMissing ==
  shown.verb = "home" =>
    \A n \in N \ touched :
      runs[n].loop \in shown.listed /\ Row(n) \notin shown.got =>
        Cardinality(shown.got) = HomeRuns /\ \A r \in shown.got : r.ts > runs[n].ts

(* SAFETY: the loop that `log` takes a directory for is among those the home page      *)
(* shows as this directory's, with the same loops on the machine (cli.ts:1047), unless *)
(* the directory is a scratch folder.                                                  *)
SameFolder ==
  \A d \in Dirs : ~Within(ScratchDir, d) => Resolved(There, d) \subseteq ScopeLoops(There, d)

(* CLAIM (index.ts:949): the last outcome in the list of loops is the one of `show`. *)
OutcomesAgree ==
  shown.verb = "show" => \A l \in shown.here : Of(l) \cap touched = {} /\ loop[l].there => shown.last = LastExecRun(l)
===============================================================================
