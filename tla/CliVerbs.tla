------------------------------- MODULE CliVerbs -------------------------------
(***************************************************************************)
(* The CLI verbs that change one loop, and the edits of its owner: what a  *)
(* run may do to its own loop with its lease, what the device may do as    *)
(* the owner, and the rows they write.                                     *)
(*                                                                         *)
(*   gateway/cli.ts       the routers, the verbs of a run, its audit log   *)
(*   gateway/index.ts     editLoop, its dry run, finishLoop                *)
(*   gateway/validate.ts  the rule for schema changes                      *)
(*   db/store.ts          updateLoop, which derives the completion stamps  *)
(*                                                                         *)
(* A verb resolves its lease, reads what it validates against, and writes, *)
(* in different awaits; two commands of one run may be in flight together, *)
(* next to the owner's edits.  A field of the loop takes a few values: the *)
(* schema and the dashboard are the sets of metric keys they name, null is *)
(* {}; label stands for the fields nothing depends on.                     *)
(***************************************************************************)
EXTENDS Naturals, FiniteSets

CONSTANTS
    Keys,          \* names of metrics
    Runs,          \* run rows
    Reqs,          \* slots for requests in flight
    None,          \* no run
    Verbs,         \* which commands runs issue, as records [verb, keys, val]
    Patches,       \* which edits the owner sends, as partial functions on Fields
    MaxRequests    \* bound: requests ever sent

ASSUME ConstantsOK == None \notin Runs /\ MaxRequests \in Nat

VARIABLES
    loop,        \* the row of the loop
    run,         \* the rows of its runs
    lease,       \* the run_leases table
    req,         \* requests in flight
    spent,       \* requests sent so far
    audited,     \* history: entries ever written to a run's log
    overlapped   \* history: runs whose log was read while another entry was due

history == <<audited, overlapped>>
vars == <<loop, run, lease, req, spent, history>>

Roles  == {"exec", "evolve", "edit"}
Phases == {"unborn", "running", "done", "error", "gone"}
Times  == {"none", "soon", "past"}
Row == [st: {"live", "gone"}, goal: BOOLEAN, done: BOOLEAN, on: BOOLEAN,
        cron: {"hourly", "often"}, at: Times, control: BOOLEAN,
        ui: SUBSET Keys, schema: SUBSET Keys, flow: {"null", "js"}, label: {"p", "q"}]

\* EDITABLE_LOOP_FIELDS: st and done are not among them.
Fields == {"goal", "on", "cron", "at", "control", "ui", "schema", "flow", "label"}

NoCaps == [control |-> FALSE, shape |-> FALSE, finish |-> FALSE]
NoReq  == [pc |-> "idle", run |-> None, verb |-> "", keys |-> {}, val |-> "",
           patch |-> [f \in {} |-> ""], used |-> {}, peeked |-> FALSE, log |-> 0]

Schedule == {"reschedule", "set-cron", "pause", "resume", "label"}   \* MUTATION_VERBS
Structure == {"set-ui", "set-schema", "set-workflow"}

\* What commands and edits may carry: their names are known, their values of a kind.
Carried(f) == CASE f \in {"goal", "on", "control"} -> BOOLEAN
                [] f \in {"ui", "schema"} -> SUBSET Keys
                [] f = "cron"  -> {"hourly", "often", "dense"}
                [] f = "at"    -> Times \cup {"never"}
                [] f = "flow"  -> {"null", "js", "module"}
                [] f = "label" -> {"p", "q", "bad"}

ASSUME VerbsConstants ==
    /\ \A c \in Verbs : /\ c.verb \in {"report", "finish"} \cup Schedule \cup Structure
                        /\ c.keys \subseteq Keys
                        /\ c.verb = "set-workflow" => c.val \in Carried("flow")
                        /\ c.verb = "label" => c.val \in Carried("label")
    /\ \A p \in Patches : DOMAIN p \subseteq Fields /\ \A f \in DOMAIN p : p[f] \in Carried(f)

------------------------------------------------------------------------------
(* What is derived from the rows                                           *)

UsedIn(l, rs) == l.ui \cup UNION {rs[r].keys : r \in {s \in Runs : rs[s].phase # "gone"}}
Used == UsedIn(loop, run)

\* Mutant: enabling the loop leaves its stamps alone.
ClearsOnGoalOnly(p, completed) ==
    "goal" \in DOMAIN p /\ ~p["goal"]

\* updateLoop: which patches drop the completion stamps of a loop that read as completed
Clears(p, completed) ==
    \/ "goal" \in DOMAIN p /\ ~p["goal"]
    \/ "on" \in DOMAIN p /\ p["on"] /\ "done" \notin DOMAIN p /\ completed

\* updateLoop: the row after the patch
Patched(row, p, completed) ==
    LET set == [f \in DOMAIN row |-> IF f \in DOMAIN p THEN p[f] ELSE row[f]]
    IN  IF Clears(p, completed) THEN [set EXCEPT !.done = FALSE] ELSE set

\* buildEditUpdate, without the schema: a cadence of at least a minute, a pin within the
\* month or the one that is there, a workflow that parses, known names
Valid(row, f, v) ==
    CASE f = "cron"  -> v # "dense"
      [] f = "at"    -> v \in {"none", "soon", row.at}
      [] f = "flow"  -> v # "module"
      [] f = "label" -> v # "bad"
      [] OTHER       -> f \in Fields

\* validateSchema: null clears; otherwise every key in use stays
Covers(schema, used) == schema = {} \/ used \subseteq schema

Rejections(row, used, p) ==
    {f \in DOMAIN p : ~Valid(row, f, p[f]) \/ (f = "schema" /\ ~Covers(p[f], used))}

\* editLoop with dryRun: the changes it announces
Preview(row, used, p) ==
    LET fine == DOMAIN p \ Rejections(row, used, p)
    IN  {f \in fine : p[f] # row[f]}
        \cup (IF row.done /\ \/ "goal" \in fine /\ ~p["goal"]
                             \/ "on" \in fine /\ p["on"]
              THEN {"done"} ELSE {})

------------------------------------------------------------------------------
(* Bookkeeping                                                             *)

At(q, pc) == req[q].pc = pc
Owner(q)  == req[q].run = None
GoTo(q, pc) == req' = [req EXCEPT ![q].pc = pc]
End(q)      == req' = [req EXCEPT ![q] = NoReq]
\* A verb of a run that came to a verdict is audited; an edit just ends.
Conclude(q) == IF Owner(q) THEN End(q) ELSE GoTo(q, "audit")
\* The next step of a write: updateLoop reads the row first when it enables.
WriteWith(p) == IF "on" \in DOMAIN p /\ p["on"] THEN "peek" ELSE "write"

Init ==
    /\ loop \in [st: {"live"}, goal: BOOLEAN, done: {FALSE}, on: {TRUE}, cron: {"hourly"},
                 at: {"none"}, control: {TRUE}, ui: {{}}, schema: SUBSET Keys,
                 flow: {"null"}, label: {"p"}]
    /\ run = [r \in Runs |-> [phase |-> "unborn", keys |-> {}, log |-> 0]]
    /\ lease = [r \in Runs |-> [st |-> "none", caps |-> NoCaps]]
    /\ req = [q \in Reqs |-> NoReq]
    /\ spent = 0
    /\ audited = [r \in Runs |-> 0]
    /\ overlapped = {}

\* What the properties need to know of the past; a conjunct of every action
Remember ==
    /\ audited' = [r \in Runs |-> audited[r] +
                     Cardinality({q \in Reqs : At(q, "log") /\ req[q].run = r /\ req'[q] = NoReq})]
    /\ overlapped' = overlapped \cup
           {r \in Runs : \E q, s \in Reqs : /\ q # s /\ At(q, "audit") /\ req'[q].pc = "log"
                                            /\ At(s, "log") /\ req[q].run = r /\ req[s].run = r}

------------------------------------------------------------------------------
(* The life of a run, as far as its verbs can tell                         *)

\* poll: the run is claimed and its lease minted from the role and the loop
Claim(r, role) ==
    /\ loop.st = "live" /\ run[r].phase = "unborn"
    /\ \A s \in Runs : run[s].phase # "running"
    /\ run' = [run EXCEPT ![r].phase = "running"]
    /\ lease' = [lease EXCEPT ![r] = [st |-> "active",
                    caps |-> [control |-> role # "exec" \/ loop.control,
                              shape   |-> role # "exec",
                              finish  |-> role = "exec" /\ loop.goal]]]
    /\ UNCHANGED <<loop, req, spent>> /\ Remember

\* The report of a run retires its lease; a workflow's cursor becomes the run's state,
\* whatever the schema names.
Report(r, ks) ==
    /\ lease[r].st # "none"
    /\ run' = IF run[r].phase = "gone" THEN run
              ELSE [run EXCEPT ![r].phase = "done", ![r].keys = IF ks = {} THEN @ ELSE ks]
    /\ lease' = [lease EXCEPT ![r] = [st |-> "none", caps |-> NoCaps]]
    /\ UNCHANGED <<loop, req, spent>> /\ Remember

\* The sweep fails a silent run and leaves its lease to one late report.
Reclaim(r) ==
    /\ run[r].phase = "running"
    /\ run' = [run EXCEPT ![r].phase = "error"]
    /\ lease' = [lease EXCEPT ![r].st = IF @ = "active" THEN "grace" ELSE @]
    /\ UNCHANGED <<loop, req, spent>> /\ Remember

\* The pinned time arrives: the scheduler consumes it, or it stays on a paused or busy loop.
PinPasses ==
    /\ loop.at = "soon"
    /\ loop' = [loop EXCEPT !.at = IF loop.on /\ \A r \in Runs : run[r].phase # "running"
                                   THEN "none" ELSE "past"]
    /\ UNCHANGED <<run, lease, req, spent>> /\ Remember

DeleteLoop ==
    /\ loop.st = "live"
    /\ loop' = [loop EXCEPT !.st = "gone"]
    /\ run' = [r \in Runs |-> [run[r] EXCEPT !.phase = "gone"]]
    /\ lease' = [r \in Runs |-> [st |-> "none", caps |-> NoCaps]]
    /\ UNCHANGED <<req, spent>> /\ Remember

------------------------------------------------------------------------------
(* `loopany edit`, with the credential of the device                       *)

\* The machine and the row are read and the patch is validated against them.  A typo, a bad
\* value or an empty patch ends here, with nothing written.
EditBegin(q, p) ==
    /\ At(q, "idle") /\ spent < MaxRequests
    /\ loop.st = "live"
    /\ DOMAIN p # {} /\ \A f \in DOMAIN p : Valid(loop, f, p[f])
    /\ req' = [req EXCEPT ![q] = [NoReq EXCEPT !.patch = p,
                  !.pc = IF "schema" \in DOMAIN p /\ p["schema"] # {} THEN "ui" ELSE WriteWith(p)]]
    /\ spent' = spent + 1
    /\ UNCHANGED <<loop, run, lease>> /\ Remember

\* validateSchema reads the dashboard's bindings ...
SchemaUi(q) ==
    /\ At(q, "ui")
    /\ req' = [req EXCEPT ![q].pc = "runs", ![q].used = IF loop.st = "live" THEN loop.ui ELSE {}]
    /\ UNCHANGED <<loop, run, lease, spent>> /\ Remember

\* ... then what recent runs reported, and refuses to drop either.
SchemaRuns(q) ==
    /\ At(q, "runs")
    /\ IF Covers(req[q].patch["schema"], UsedIn([loop EXCEPT !.ui = req[q].used], run))
       THEN GoTo(q, WriteWith(req[q].patch)) ELSE Conclude(q)
    /\ UNCHANGED <<loop, run, lease, spent>> /\ Remember

\* updateLoop, in one transaction under READ COMMITTED: is the loop completed ...
Peek(q) ==
    /\ At(q, "peek")
    /\ req' = [req EXCEPT ![q].pc = "write", ![q].peeked = loop.done]
    /\ UNCHANGED <<loop, run, lease, spent>> /\ Remember

\* ... and the write.  A row that is gone is not written.
Write(q) ==
    /\ At(q, "write")
    /\ loop' = IF loop.st = "live" THEN Patched(loop, req[q].patch, req[q].peeked) ELSE loop
    /\ Conclude(q)
    /\ UNCHANGED <<run, lease, spent>> /\ Remember

------------------------------------------------------------------------------
(* The verbs of a run                                                      *)

\* What the verb writes to the loop
PatchOf(c) == CASE c.verb = "reschedule"   -> [at |-> c.val]
                [] c.verb = "set-cron"     -> [cron |-> c.val]
                [] c.verb = "pause"        -> [on |-> FALSE]
                [] c.verb = "resume"       -> [on |-> TRUE]
                [] c.verb = "label"        -> [label |-> c.val]
                [] c.verb = "set-ui"       -> [ui |-> c.keys]
                [] c.verb = "set-schema"   -> [schema |-> c.keys]
                [] c.verb = "set-workflow" -> [flow |-> c.val]
                [] OTHER                   -> [done |-> TRUE, on |-> FALSE]

\* A run keeps to the floors; a schema needs a key.
Acceptable(c) ==
    CASE c.verb = "reschedule"   -> c.val = "soon"
      [] c.verb = "set-cron"     -> c.val = "hourly"
      [] c.verb = "set-schema"   -> c.keys # {}
      [] c.verb = "set-workflow" -> c.val # "module"
      [] c.verb = "label"        -> c.val # "bad"
      [] OTHER                   -> TRUE

Permitted(caps, v) == \/ v \in Schedule /\ caps.control
                      \/ v \in Structure /\ caps.shape
                      \/ v = "finish" /\ caps.finish
                      \/ v = "report"

\* resolveLease, and the router: no lease (401), one in its grace window (409), another
\* loop's name, an owner's verb or a capability the lease lacks (403) end it here.
VerbBegin(q, r, c) ==
    /\ At(q, "idle") /\ spent < MaxRequests
    /\ lease[r].st = "active" /\ Permitted(lease[r].caps, c.verb)
    /\ req' = [req EXCEPT ![q] = [NoReq EXCEPT
                  !.run = r, !.verb = c.verb, !.keys = c.keys, !.val = c.val, !.patch = PatchOf(c),
                  !.pc = IF c.verb \in {"report", "finish"} THEN "state"
                         ELSE IF c.verb \in Schedule \cup Structure /\ ~Acceptable(c) THEN "audit"
                         ELSE IF c.verb = "set-schema" THEN "ui"
                         ELSE WriteWith(PatchOf(c))]]
    /\ spent' = spent + 1
    /\ UNCHANGED <<loop, run, lease>> /\ Remember

\* validateState: the reported keys are among the schema's, if there is one
VerbState(q) ==
    /\ At(q, "state")
    /\ IF loop.st = "live" /\ loop.schema # {} /\ ~(req[q].keys \subseteq loop.schema)
       THEN End(q)
       ELSE GoTo(q, IF req[q].verb = "finish" THEN "goal" ELSE "row")
    /\ UNCHANGED <<loop, run, lease, spent>> /\ Remember

RowWith(r, ks, phase) ==
    IF run[r].phase = "gone" THEN run
    ELSE [run EXCEPT ![r].keys = IF ks = {} THEN @ ELSE ks, ![r].phase = phase]

\* `report`: the run's row
ReportRow(q) ==
    /\ At(q, "row") /\ req[q].verb = "report"
    /\ run' = RowWith(req[q].run, req[q].keys, run[req[q].run].phase)
    /\ End(q)
    /\ UNCHANGED <<loop, lease, spent>> /\ Remember

\* finishLoop reads the loop again: its goal may be cleared, it may be finished already
FinishGoal(q) ==
    /\ At(q, "goal")
    /\ IF loop.st = "live" /\ loop.goal /\ ~loop.done THEN GoTo(q, "row") ELSE End(q)
    /\ UNCHANGED <<loop, run, lease, spent>> /\ Remember

\* then records the run as a success
FinishRow(q) ==
    /\ At(q, "row") /\ req[q].verb = "finish"
    /\ run' = RowWith(req[q].run, req[q].keys, "done")
    /\ GoTo(q, "stamp")
    /\ UNCHANGED <<loop, lease, spent>> /\ Remember

\* and stamps the loop.
FinishStamp(q) ==
    /\ At(q, "stamp")
    /\ loop' = IF loop.st = "live" THEN Patched(loop, req[q].patch, FALSE) ELSE loop
    /\ End(q)
    /\ UNCHANGED <<run, lease, spent>> /\ Remember

\* audit reads the run's log ...
AuditRead(q) ==
    /\ At(q, "audit")
    /\ req' = [req EXCEPT ![q].pc = "log", ![q].log = run[req[q].run].log]
    /\ UNCHANGED <<loop, run, lease, spent>> /\ Remember

\* ... and writes it back with one more entry.
AuditWrite(q) ==
    /\ At(q, "log")
    /\ run' = [run EXCEPT ![req[q].run].log = req[q].log + 1]
    /\ End(q)
    /\ UNCHANGED <<loop, lease, spent>> /\ Remember

------------------------------------------------------------------------------
(* The steps                                                               *)

LifeStep == \/ \E r \in Runs : \/ \E role \in Roles : Claim(r, role)
                               \/ \E ks \in SUBSET Keys : Report(r, ks)
                               \/ Reclaim(r)
            \/ PinPasses \/ DeleteLoop

EditStep(q) == \/ \E p \in Patches : EditBegin(q, p)
               \/ SchemaUi(q) \/ SchemaRuns(q) \/ Peek(q) \/ Write(q)

VerbStep(q) == \/ \E r \in Runs, c \in Verbs : VerbBegin(q, r, c)
               \/ VerbState(q) \/ ReportRow(q)
               \/ FinishGoal(q) \/ FinishRow(q) \/ FinishStamp(q)
               \/ AuditRead(q) \/ AuditWrite(q)

Next == LifeStep \/ \E q \in Reqs : EditStep(q) \/ VerbStep(q)

Spec == Init /\ [][Next]_vars

------------------------------------------------------------------------------
(* Properties                                                              *)

TypeOK ==
    /\ loop \in Row
    /\ run \in [Runs -> [phase: Phases, keys: SUBSET Keys, log: 0..MaxRequests]]
    /\ \A r \in Runs : lease[r].st \in {"none", "active", "grace"}
                       /\ lease[r].caps \in [control: BOOLEAN, shape: BOOLEAN, finish: BOOLEAN]
    /\ \A q \in Reqs : /\ req[q].run \in Runs \cup {None}
                       /\ DOMAIN req[q].patch \subseteq Fields \cup {"done"}
                       /\ req[q].used \subseteq Keys /\ req[q].log \in 0..MaxRequests
                       /\ Owner(q) => req[q].pc \in {"idle", "ui", "runs", "peek", "write"}
    /\ spent \in 0..MaxRequests

\* A completed loop has its goal and is off.
Agrees(row) == row.done => row.goal /\ ~row.on

\* A write of the owner's changes what a dry run would have announced just before it, unless
\* the loop was completed inside the write's own transaction.
PreviewIsHonest ==
    [][\A q \in Reqs :
         LET p == req[q].patch
         IN  At(q, "write") /\ Owner(q) /\ req'[q] = NoReq /\ loop.st = "live"
             /\ Rejections(loop, Used, p) = {} /\ ("on" \in DOMAIN p => req[q].peeked = loop.done)
             => {f \in DOMAIN loop : loop'[f] # loop[f]} = Preview(loop, Used, p)]_vars

\* The completion agrees with the goal and the switch.  Only a `finish` whose goal was cleared after
\* its last look, or a reopening that looked before the completion, makes it otherwise.
CompletionAgrees ==
    [][Agrees(loop) /\ ~Agrees(loop)' =>
         \E q \in Reqs : \/ At(q, "stamp") /\ ~loop.goal
                         \/ At(q, "write") /\ ~req[q].peeked /\ loop.done
                            /\ "on" \in DOMAIN req[q].patch]_vars

\* Every command of a run is in its log, unless two of them wrote it at once.
AuditComplete ==
    \A r \in Runs : r \notin overlapped => run[r].log = audited[r]
==============================================================================
