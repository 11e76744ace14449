-------------------------- MODULE LoopTimersProofs --------------------------
(***************************************************************************)
(* The scheduler's cron jobs agree with the rows, and an occurrence missed *)
(* in an outage is made up for, for any number of loops, expressions,      *)
(* handlers and crashes.                                                   *)
(***************************************************************************)
EXTENDS LoopTimers, SequenceTheorems, TLAPS

(***************************************************************************)
(* Rows.                                                                   *)
(***************************************************************************)
LEMMA Basics ==
  ASSUME TimersConstantsOK
  PROVE  /\ AnyExpr \in Exprs /\ AnyLoop \in Loops
         /\ NoRow \in Row /\ NoRow.state = "unborn" /\ NoRow.next = None
         /\ NoTick \in Tick /\ NoTick.pc = "idle"
         /\ NoJob \in Job /\ NoJob.pc = "idle"
         /\ None \notin Shots /\ None \notin Exprs /\ None \notin Loops
<1>1. AnyExpr \in Exprs /\ AnyLoop \in Loops
  BY DEF TimersConstantsOK, AnyExpr, AnyLoop
<1>2. None \notin Shots /\ None \notin Exprs /\ None \notin Loops
  BY DEF TimersConstantsOK, Shots, Later
<1>3. NoRow \in Row /\ NoRow.state = "unborn" /\ NoRow.next = None
  BY <1>1 DEF NoRow, Row
<1>4. NoTick \in Tick /\ NoTick.pc = "idle"
  BY <1>3 DEF NoTick, Tick
<1>5. NoJob \in Job /\ NoJob.pc = "idle"
  BY <1>1, <1>3 DEF NoJob, Job, Ops
<1> QED BY <1>1, <1>2, <1>3, <1>4, <1>5

\* A shot that is set leaves the rest of its row.
LEMMA RowSet ==
  ASSUME NEW r \in Row, NEW n \in Shots \cup {None}
  PROVE  /\ [r EXCEPT !.next = n] \in Row
         /\ [r EXCEPT !.next = n].next = n
         /\ [r EXCEPT !.next = n].state = r.state
         /\ [r EXCEPT !.next = n].expr = r.expr
BY DEF Row

LEMMA RowTurned ==
  ASSUME NEW r \in Row, NEW s \in {"unborn", "on", "off", "gone"}
  PROVE  [r EXCEPT !.state = s] \in Row /\ [r EXCEPT !.state = s].state = s
BY DEF Row

LEMMA SoonerShot ==
  ASSUME NEW s \in Shots \cup {None}, TimersConstantsOK
  PROVE  /\ Sooner(s) \in Shots \cup {None}
         /\ s = 0 => Sooner(s) = 0
         /\ s = None <=> Sooner(s) = None
<1>1. None \notin Shots
  BY Basics
<1> QED BY <1>1 DEF Sooner, Shots, Later

LEMMA AgedRow ==
  ASSUME NEW r \in Row, TimersConstantsOK
  PROVE  /\ Aged(r) \in Row /\ Aged(r).state = r.state /\ Aged(r).expr = r.expr
         /\ Aged(r).next = Sooner(r.next)
<1>1. r.next \in Shots \cup {None}
  BY DEF Row
<1>2. Sooner(r.next) \in Shots \cup {None}
  BY <1>1, SoonerShot
<1> QED BY <1>2, RowSet DEF Aged

LEMMA ShotTyped ==
  ASSUME NEW r \in Row, TimersConstantsOK
  PROVE  /\ Shot(r) \in Shots \cup {None}
         /\ r.next = 0 => Shot(r) = None
<1>1. CASE r.state = "on" /\ r.next \in 1..Later
  <2>1. Shot(r) = r.next
    BY <1>1 DEF Shot
  <2>2. r.next \in Shots /\ r.next # 0
    BY <1>1 DEF Shots, Later
  <2> QED BY <2>1, <2>2
<1>2. CASE ~(r.state = "on" /\ r.next \in 1..Later)
  BY <1>2 DEF Shot
<1> QED BY <1>1, <1>2

\* What a write leaves behind.
LEMMA WrittenRow ==
  ASSUME TimersConstantsOK, NEW op \in Ops, NEW r \in Row, NEW seen \in Row, NEW w \in Written(op, r, seen)
  PROVE  /\ w \in Row
         /\ op \in {"now", "flag", "clear"} => w.state = r.state /\ w.expr = r.expr
         /\ op = "now" => w.next = 0
         /\ op = "create" => w.state = "on"
         /\ op = "patch" => w.state \in {"on", "off"}
         /\ op = "stop" /\ ~Stored(r) => w = r
         /\ op = "stop" /\ Stored(r) => w.state = "off"
         /\ op = "delete" => w.state = "gone"
<1>1. r.next \in Shots \cup {None} /\ 0 \in Shots /\ Later \in Shots
  BY DEF Row, Shots, Later
<1>2. CASE op = "create"
  <2>1. w = [r EXCEPT !.state = "on"]
    BY <1>2 DEF Written
  <2> QED BY <1>2, <2>1, RowTurned
<1>3. CASE op = "patch"
  <2>1. PICK s \in {"on", "off"}, e \in Exprs, n \in {r.next, Later, None} : w = [state |-> s, expr |-> e, next |-> n]
    BY <1>3 DEF Written
  <2>2. w \in Row /\ w.state = s
    BY <2>1, <1>1 DEF Row
  <2> QED BY <1>3, <2>2
<1>4. CASE op = "now"
  <2>1. w = [r EXCEPT !.next = 0]
    BY <1>4 DEF Written
  <2>2. w \in Row /\ w.state = r.state /\ w.expr = r.expr /\ w.next = 0
    BY <2>1, RowSet, <1>1
  <2> QED BY <1>4, <2>2
<1>5. CASE op = "flag"
  <2>1. w = [r EXCEPT !.next = Later]
    BY <1>5 DEF Written
  <2>2. w \in Row /\ w.state = r.state /\ w.expr = r.expr /\ w.next = Later
    BY <2>1, RowSet, <1>1
  <2> QED BY <1>5, <2>2
<1>6. CASE op = "clear"
  <2>1. PICK n \in Shots \cup {None} : w = [r EXCEPT !.next = n]
    <3>1. CASE seen.next \in 1..Later
      <4>1. w = [r EXCEPT !.next = r.next]
        BY <3>1, <1>6 DEF Written
      <4> QED BY <4>1, <1>1
    <3>2. CASE seen.next \notin 1..Later
      <4>1. w = [r EXCEPT !.next = None]
        BY <3>2, <1>6 DEF Written
      <4> QED BY <4>1
    <3> QED BY <3>1, <3>2
  <2>2. w \in Row /\ w.state = r.state /\ w.expr = r.expr
    BY <2>1, RowSet
  <2> QED BY <1>6, <2>2
<1>7. CASE op = "stop"
  <2>1. w = IF Stored(r) THEN [r EXCEPT !.state = "off"] ELSE r
    BY <1>7 DEF Written
  <2>2. CASE Stored(r)
    <3>1. w \in Row /\ w.state = "off"
      BY <2>1, <2>2, RowTurned
    <3> QED BY <1>7, <2>2, <3>1
  <2>3. CASE ~Stored(r)
    <3>1. w = r
      BY <2>1, <2>3
    <3> QED BY <1>7, <2>3, <3>1
  <2> QED BY <2>2, <2>3
<1>8. CASE op = "delete"
  <2>1. w = [NoRow EXCEPT !.state = "gone"]
    BY <1>8 DEF Written
  <2> QED BY <1>8, <2>1, RowTurned, Basics
<1> QED BY <1>2, <1>3, <1>4, <1>5, <1>6, <1>7, <1>8 DEF Ops

(***************************************************************************)
(* Ticks and jobs.                                                         *)
(***************************************************************************)
LEMMA StartedTick ==
  ASSUME TimersConstantsOK, tick \in [Loops -> Tick], NEW l \in Loops
  PROVE  /\ Started(l) \in [Loops -> Tick]
         /\ Started(l)[l].pc # "idle"
         /\ tick[l].pc # "idle" => Started(l) = tick
         /\ \A k \in Loops : /\ Started(l)[k].pc \in {tick[k].pc, "load"}
                             /\ tick[k].pc # "idle" => Started(l)[k].pc = tick[k].pc
<1>1. CASE tick[l].pc = "idle"
  <2>1. Started(l) = [tick EXCEPT ![l] = [tick[l] EXCEPT !.pc = "load"]]
    BY <1>1 DEF Started
  <2>2. [tick[l] EXCEPT !.pc = "load"] \in Tick /\ [tick[l] EXCEPT !.pc = "load"].pc = "load"
    BY DEF Tick
  <2> QED BY <1>1, <2>1, <2>2
<1>2. CASE tick[l].pc # "idle"
  BY <1>2 DEF Started
<1> QED BY <1>1, <1>2

LEMMA ArmedTick ==
  ASSUME TimersConstantsOK, tick \in [Loops -> Tick], timer \in [Loops -> Shots \cup {None}],
         NEW l \in Loops, NEW r \in Row, ArmNextRunAt(l, r)
  PROVE  /\ tick' \in [Loops -> Tick] /\ timer' \in [Loops -> Shots \cup {None}]
         /\ \A k \in Loops : /\ tick'[k].pc \in {tick[k].pc, "load"}
                             /\ tick[k].pc # "idle" => tick'[k].pc = tick[k].pc
         /\ \A k \in Loops \ {l} : timer'[k] = timer[k]
         /\ r.state = "on" /\ r.next = 0 => tick'[l].pc # "idle"
<1>1. Shot(r) \in Shots \cup {None}
  BY ShotTyped
<1>2. timer' = [timer EXCEPT ![l] = Shot(r)]
  BY DEF ArmNextRunAt
<1>3. CASE r.state = "on" /\ r.next = 0
  <2>1. tick' = Started(l)
    BY <1>3 DEF ArmNextRunAt
  <2> QED BY <1>1, <1>2, <2>1, StartedTick
<1>4. CASE ~(r.state = "on" /\ r.next = 0)
  <2>1. tick' = tick
    BY <1>4 DEF ArmNextRunAt
  <2> QED BY <1>1, <1>2, <1>4, <2>1
<1> QED BY <1>3, <1>4

\* A handler that begins takes an idle slot.
LEMMA BegunJob ==
  ASSUME TimersConstantsOK, TypeOK, NEW j \in Jobs, NEW l \in Loops, NEW op \in Ops,
         NEW pc \in {"read", "write"}, Begin(j, l, op, pc)
  PROVE  /\ job' \in [Jobs -> Job] /\ jobs' \in 0..MaxJobs
         /\ job[j].pc = "idle"
         /\ job'[j].pc = pc /\ job'[j].op = op /\ job'[j].loop = l
         /\ \A k \in Jobs \ {j} : job'[k] = job[k]
<1>1. [pc |-> pc, op |-> op, loop |-> l, seen |-> NoRow] \in Job
  BY Basics DEF Job
<1>2. job' = [job EXCEPT ![j] = [pc |-> pc, op |-> op, loop |-> l, seen |-> NoRow]]
  BY DEF Begin
<1>3. jobs \in 0..MaxJobs /\ jobs < MaxJobs /\ jobs' = jobs + 1 /\ MaxJobs \in Nat
  BY DEF Begin, TypeOK, TimersConstantsOK
<1>4. jobs' \in 0..MaxJobs
  BY <1>3
<1>5. job[j].pc = "idle" /\ job \in [Jobs -> Job]
  BY DEF Begin, TypeOK
<1> QED BY <1>1, <1>2, <1>4, <1>5

\* A handler that goes on stays the handler of its loop.
LEMMA MovedJob ==
  ASSUME job \in [Jobs -> Job], NEW j \in Jobs, NEW pc \in {"idle", "read", "write", "apply"}, NEW seen \in Row,
         job' = [job EXCEPT ![j] = [@ EXCEPT !.pc = pc, !.seen = seen]]
  PROVE  /\ job' \in [Jobs -> Job]
         /\ job'[j].pc = pc /\ job'[j].seen = seen /\ job'[j].op = job[j].op /\ job'[j].loop = job[j].loop
         /\ \A k \in Jobs \ {j} : job'[k] = job[k]
<1> DEFINE s == [job[j] EXCEPT !.pc = pc, !.seen = seen]
<1>1. s \in Job /\ s.pc = pc /\ s.seen = seen /\ s.op = job[j].op /\ s.loop = job[j].loop
  BY DEF Job
<1>2. job' = [job EXCEPT ![j] = s]
  OBVIOUS
<1> HIDE DEF s
<1> QED BY <1>1, <1>2

(***************************************************************************)
(* Types.                                                                  *)
(***************************************************************************)
LEMMA TypedInit == TimersConstantsOK /\ Init => TypeOK
<1> SUFFICES ASSUME TimersConstantsOK, Init PROVE TypeOK
  OBVIOUS
<1>1. /\ row \in [Loops -> Row] /\ tick \in [Loops -> Tick] /\ job \in [Jobs -> Job]
  BY Basics DEF Init
<1>2. /\ busy \in [Loops -> {"none", "pending", "running"}] /\ cron \in [Loops -> Exprs \cup {None}]
      /\ timer \in [Loops -> Shots \cup {None}] /\ resumes \in [Loops -> Seq(Jobs)]
      /\ missed \in [Loops -> BOOLEAN] /\ shot \in [Loops -> Fates]
  BY DEF Init, Fates
<1>3. boot \in [todo : SUBSET Loops, seen : [Loops -> Row], at : Loops \cup {None}]
  BY <1>1 DEF Init
<1>4. jobs \in 0..MaxJobs /\ restarts \in 0..MaxRestarts
  BY DEF Init, TimersConstantsOK
<1> QED BY <1>1, <1>2, <1>3, <1>4 DEF TypeOK

LEMMA TypedBegin ==
  ASSUME TimersConstantsOK, TypeOK, NEW j \in Jobs, NEW l \in Loops,
         JobBegin(j, l) \/ JobReport(j, l) \/ JobDelete(j, l)
  PROVE  TypeOK'
<1>1. CASE JobBegin(j, l)
  <2>1. \E op \in Ops, pc \in {"read", "write"} : Begin(j, l, op, pc)
    BY <1>1 DEF JobBegin, Ops
  <2>2. job' \in [Jobs -> Job] /\ jobs' \in 0..MaxJobs
    BY <2>1, BegunJob
  <2> QED BY <1>1, <2>2 DEF JobBegin, TypeOK, jobOnly
<1>2. CASE JobReport(j, l)
  <2>1. \E op \in Ops, pc \in {"read", "write"} : Begin(j, l, op, pc)
    BY <1>2 DEF JobReport, Ops
  <2>2. job' \in [Jobs -> Job] /\ jobs' \in 0..MaxJobs
    BY <2>1, BegunJob
  <2> QED BY <1>2, <2>2 DEF JobReport, TypeOK, jobOnly
<1>3. CASE JobDelete(j, l)
  <2>1. \E op \in Ops, pc \in {"read", "write"} : Begin(j, l, op, pc)
    BY <1>3 DEF JobDelete, Ops
  <2>2. job' \in [Jobs -> Job] /\ jobs' \in 0..MaxJobs
    BY <2>1, BegunJob
  <2> QED BY <1>3, <2>2 DEF JobDelete, TypeOK, jobOnly, Unschedule
<1> QED BY <1>1, <1>2, <1>3

LEMMA TypedRead ==
  ASSUME TimersConstantsOK, TypeOK, NEW j \in Jobs, JobRead(j)
  PROVE  /\ TypeOK'
         /\ job'[j].pc = "write" /\ job'[j].op = job[j].op /\ job'[j].loop = job[j].loop
         /\ \A k \in Jobs \ {j} : job'[k] = job[k]
<1>1. job \in [Jobs -> Job] /\ row[job[j].loop] \in Row
  BY DEF TypeOK, Job
<1>2. job' = [job EXCEPT ![j] = [@ EXCEPT !.pc = "write", !.seen = row[job[j].loop]]]
  BY DEF JobRead
<1>3. job' \in [Jobs -> Job]
  BY <1>1, <1>2, MovedJob
<1>4. TypeOK'
  BY <1>3 DEF JobRead, TypeOK, jobOnly
<1> QED BY <1>1, <1>2, <1>4, MovedJob

\* A write that goes through, and one that finds its row gone.
Writes(j) == Stored(row[job[j].loop]) \/ job[j].op \in {"create", "stop"}

LEMMA WrittenStep ==
  ASSUME TimersConstantsOK, TypeOK, NEW j \in Jobs, JobWrite(j), Writes(j), job[j].op # "delete"
  PROVE  \E w \in Written(job[j].op, row[job[j].loop], job[j].seen) :
           /\ row' = [row EXCEPT ![job[j].loop] = w] /\ w \in Row
           /\ job' \in [Jobs -> Job]
           /\ job'[j].pc = "apply" /\ job'[j].seen = w /\ job'[j].op = job[j].op /\ job'[j].loop = job[j].loop
           /\ \A k \in Jobs \ {j} : job'[k] = job[k]
           /\ resumes' = [resumes EXCEPT ![job[j].loop] = Append(@, j)]
<1>1. PICK w \in Written(job[j].op, row[job[j].loop], job[j].seen) :
        /\ row' = [row EXCEPT ![job[j].loop] = w]
        /\ job' = [job EXCEPT ![j] = [@ EXCEPT !.pc = "apply", !.seen = w]]
  BY DEF JobWrite, Writes
<1>2. /\ job \in [Jobs -> Job] /\ job[j].op \in Ops /\ job[j].seen \in Row /\ job[j].loop \in Loops
      /\ row[job[j].loop] \in Row
  BY DEF TypeOK, Job
<1>3. w \in Row
  BY <1>2, WrittenRow
<1>4. resumes' = [resumes EXCEPT ![job[j].loop] = Append(@, j)]
  BY DEF JobWrite, Writes
<1> QED BY <1>1, <1>2, <1>3, <1>4, MovedJob

\* The handlers that leave no continuation.
LEMMA EndedStep ==
  ASSUME TimersConstantsOK, TypeOK, NEW j \in Jobs, JobWrite(j), ~Writes(j) \/ job[j].op = "delete"
  PROVE  /\ resumes' = resumes
         /\ job' \in [Jobs -> Job] /\ job'[j].pc = "idle"
         /\ \A k \in Jobs \ {j} : job'[k] = job[k]
         /\ row' \in [Loops -> Row]
         /\ row' = row \/ (row'[job[j].loop].state = "gone" /\ \A l \in Loops \ {job[j].loop} : row'[l] = row[l])
<1>1. job' = [job EXCEPT ![j] = NoJob] /\ resumes' = resumes
  BY DEF JobWrite, Writes
<1>2. /\ job \in [Jobs -> Job] /\ job[j].op \in Ops /\ job[j].seen \in Row /\ job[j].loop \in Loops
      /\ row \in [Loops -> Row] /\ row[job[j].loop] \in Row
  BY DEF TypeOK, Job
<1>3. job' \in [Jobs -> Job] /\ job'[j].pc = "idle" /\ \A k \in Jobs \ {j} : job'[k] = job[k]
  BY <1>1, <1>2, Basics
<1>4. CASE ~Writes(j)
  <2>1. row' = row
    BY <1>4 DEF JobWrite, Writes
  <2> QED BY <1>1, <1>2, <1>3, <2>1
<1>5. CASE Writes(j) /\ job[j].op = "delete"
  <2>1. PICK w \in Written(job[j].op, row[job[j].loop], job[j].seen) : row' = [row EXCEPT ![job[j].loop] = w]
    BY <1>5 DEF JobWrite, Writes
  <2>2. w \in Row /\ w.state = "gone"
    BY <1>2, <1>5, WrittenRow
  <2> QED BY <1>1, <1>2, <1>3, <2>1, <2>2
<1> QED BY <1>4, <1>5

LEMMA TypedWrite ==
  ASSUME TimersConstantsOK, TypeOK, NEW j \in Jobs, JobWrite(j)
  PROVE  TypeOK'
<1>1. job[j].loop \in Loops
  BY DEF TypeOK, Job
<1>2. busy' \in [Loops -> {"none", "pending", "running"}] /\ missed' \in [Loops -> BOOLEAN]
  <2>1. CASE Writes(j)
    <3>1. /\ missed' = [missed EXCEPT ![job[j].loop] = @ /\ job[j].op \notin {"patch", "stop"}]
          /\ busy' = [busy EXCEPT ![job[j].loop] = IF job[j].op = "delete" THEN "none" ELSE @]
      BY <2>1 DEF JobWrite, Writes
    <3> QED BY <1>1, <3>1 DEF TypeOK
  <2>2. CASE ~Writes(j)
    BY <2>2 DEF JobWrite, Writes, TypeOK
  <2> QED BY <2>1, <2>2
<1>3. row' \in [Loops -> Row] /\ job' \in [Jobs -> Job] /\ resumes' \in [Loops -> Seq(Jobs)]
  <2>1. CASE Writes(j) /\ job[j].op # "delete"
    <3>1. /\ job' \in [Jobs -> Job]
          /\ \E w \in Row : row' = [row EXCEPT ![job[j].loop] = w]
      BY <2>1, WrittenStep
    <3>2. resumes' = [resumes EXCEPT ![job[j].loop] = Append(@, j)]
      BY <2>1, WrittenStep
    <3>3. Append(resumes[job[j].loop], j) \in Seq(Jobs)
      BY <1>1 DEF TypeOK
    <3>4. row' \in [Loops -> Row]
      BY <3>1 DEF TypeOK
    <3>5. resumes' \in [Loops -> Seq(Jobs)]
      BY <3>2, <3>3 DEF TypeOK
    <3> QED BY <3>1, <3>4, <3>5
  <2>2. CASE ~Writes(j) \/ job[j].op = "delete"
    BY <2>2, EndedStep DEF TypeOK
  <2> QED BY <2>1, <2>2
<1>4. shot' \in [Loops -> Fates]
  <2>1. \A op \in Ops, s \in Fates, r, w \in Row : ShotWritten(op, s, r, w) \in Fates
    BY DEF ShotWritten, Fates, Ops
  <2>2. CASE ~Writes(j)
    BY <2>2 DEF JobWrite, Writes, TypeOK
  <2>3. CASE Writes(j)
    <3>1. PICK w \in Written(job[j].op, row[job[j].loop], job[j].seen) :
            shot' = [shot EXCEPT ![job[j].loop] = ShotWritten(job[j].op, @, row[job[j].loop], w)]
      BY <2>3 DEF JobWrite, Writes
    <3>2. job[j].op \in Ops /\ job[j].seen \in Row /\ row[job[j].loop] \in Row
      BY <1>1 DEF TypeOK, Job
    <3>3. w \in Row
      BY <3>2, WrittenRow
    <3>4. ShotWritten(job[j].op, shot[job[j].loop], row[job[j].loop], w) \in Fates
      BY <1>1, <2>1, <3>2, <3>3 DEF TypeOK
    <3> QED BY <1>1, <3>1, <3>4 DEF TypeOK
  <2> QED BY <2>2, <2>3
<1> QED BY <1>2, <1>3, <1>4 DEF TypeOK, JobWrite, jobOnly

\* The continuation at the head of its loop's queue.
LEMMA AppliedJob ==
  ASSUME TimersConstantsOK, TypeOK, NEW j \in Jobs, JobApply(j)
  PROVE  /\ job' \in [Jobs -> Job]
         /\ \A k \in Jobs \ {j} : job'[k] = job[k]
         /\ job[j].op # "create" => job'[j].pc = "idle"
         /\ job[j].op = "create" => job'[j].pc = "write" /\ job'[j].op = "now" /\ job'[j].loop = job[j].loop
<1>1. job \in [Jobs -> Job] /\ job[j] \in Job
  BY DEF TypeOK
<1>2. CASE job[j].op = "create"
  <2> DEFINE s == [job[j] EXCEPT !.op = "now", !.pc = "write"]
  <2>1. job' = [job EXCEPT ![j] = s]
    BY <1>2 DEF JobApply
  <2>2. s \in Job /\ s.pc = "write" /\ s.op = "now" /\ s.loop = job[j].loop
    BY <1>1 DEF Job, Ops
  <2> HIDE DEF s
  <2> QED BY <1>1, <1>2, <2>1, <2>2
<1>3. CASE job[j].op # "create"
  <2>1. job' = [job EXCEPT ![j] = NoJob]
    BY <1>3 DEF JobApply
  <2> QED BY <1>1, <1>3, <2>1, Basics
<1> QED BY <1>2, <1>3

LEMMA AppliedTimers ==
  ASSUME TimersConstantsOK, TypeOK, NEW j \in Jobs, JobApply(j)
  PROVE  /\ ArmNextRunAt(job[j].loop, job[j].seen)
         /\ job[j].op \in {"now", "flag"} => cron' = cron
         /\ job[j].op \notin {"now", "flag"} =>
              cron' = [cron EXCEPT ![job[j].loop] = IF job[j].seen.state = "on" THEN job[j].seen.expr ELSE None]
BY DEF JobApply, AddLoop

LEMMA TypedApply ==
  ASSUME TimersConstantsOK, TypeOK, NEW j \in Jobs, JobApply(j), resumes[job[j].loop] # <<>>
  PROVE  TypeOK'
<1>1. /\ job[j].loop \in Loops /\ job[j].seen \in Row /\ job[j].seen.expr \in Exprs
      /\ tick \in [Loops -> Tick] /\ timer \in [Loops -> Shots \cup {None}]
  BY DEF TypeOK, Job, Row
<1>2. tick' \in [Loops -> Tick] /\ timer' \in [Loops -> Shots \cup {None}]
  BY <1>1, AppliedTimers, ArmedTick
<1>3. cron' \in [Loops -> Exprs \cup {None}]
  <2>1. \/ cron' = cron
        \/ \E e \in Exprs \cup {None} : cron' = [cron EXCEPT ![job[j].loop] = e]
    BY <1>1, AppliedTimers
  <2> QED BY <2>1 DEF TypeOK
<1>4. resumes' \in [Loops -> Seq(Jobs)]
  <2>1. resumes[job[j].loop] \in Seq(Jobs)
    BY <1>1 DEF TypeOK
  <2>2. Tail(resumes[job[j].loop]) \in Seq(Jobs)
    BY <2>1, HeadTailProperties
  <2> QED BY <2>2 DEF JobApply, TypeOK
<1>5. job' \in [Jobs -> Job]
  BY AppliedJob
<1> QED BY <1>2, <1>3, <1>4, <1>5 DEF TypeOK, JobApply, jobOnly

LEMMA TypedTick ==
  ASSUME TimersConstantsOK, TypeOK, NEW l \in Loops,
         CronFire(l) \/ TimerFire(l) \/ TickStep(l) \/ CatchUp(l)
  PROVE  TypeOK'
<1>1. tick \in [Loops -> Tick] /\ timer \in [Loops -> Shots \cup {None}] /\ row \in [Loops -> Row] /\ row[l] \in Row
  BY DEF TypeOK
<1>2. Started(l) \in [Loops -> Tick]
  BY <1>1, StartedTick
<1>3. ASSUME NEW s \in Tick, tick' = [tick EXCEPT ![l] = s] PROVE tick' \in [Loops -> Tick]
  BY <1>1, <1>3
<1>4. \A pc \in {"idle", "load", "open", "consume", "add", "read", "arm"} : [NoTick EXCEPT !.pc = pc] \in Tick
  BY Basics DEF Tick
<1>5. CASE CronFire(l)
  BY <1>2, <1>5 DEF CronFire, TypeOK, tickOnly
<1>6. CASE TimerFire(l)
  BY <1>2, <1>6 DEF TimerFire, TypeOK, tickOnly
<1>7. CASE TickLoad(l)
  <2>1. [pc |-> "open", seen |-> row[l]] \in Tick
    BY <1>1 DEF Tick
  <2>2. tick' \in [Loops -> Tick]
    BY <1>3, <1>7, <2>1, Basics DEF TickLoad, TickEnd
  <2> QED BY <1>7, <2>2 DEF TickLoad, TypeOK, tickOnly, Unschedule
<1>8. CASE TickOpen(l)
  <2>1. tick' \in [Loops -> Tick]
    BY <1>3, <1>4, <1>8, Basics DEF TickOpen, TickEnd, TickTo
  <2> QED BY <1>8, <2>1 DEF TickOpen, TypeOK, tickOnly
<1>9. CASE TickConsume(l)
  <2>1. tick' \in [Loops -> Tick]
    BY <1>3, <1>4, <1>9 DEF TickConsume, TickTo
  <2>2. [row[l] EXCEPT !.next = None] \in Row
    BY <1>1, RowSet
  <2>3. row' \in [Loops -> Row]
    BY <1>1, <1>9, <2>2 DEF TickConsume
  <2>4. shot' \in [Loops -> Fates]
    BY <1>9 DEF TickConsume, TypeOK, Fates
  <2> QED BY <1>9, <2>1, <2>3, <2>4 DEF TickConsume, TypeOK, tickOnly
<1>10. CASE TickAdd(l)
  <2>1. tick' \in [Loops -> Tick]
    BY <1>3, <1>4, <1>10 DEF TickAdd, TickTo
  <2>2. shot' \in [Loops -> Fates]
    BY <1>10 DEF TickAdd, TypeOK, Fates
  <2> QED BY <1>10, <2>1, <2>2 DEF TickAdd, TypeOK, tickOnly
<1>11. CASE TickRead(l)
  <2>1. [pc |-> "arm", seen |-> row[l]] \in Tick
    BY <1>1 DEF Tick
  <2>2. tick' \in [Loops -> Tick]
    BY <1>3, <1>11, <2>1, Basics DEF TickRead
  <2> QED BY <1>11, <2>2 DEF TickRead, TypeOK, tickOnly
<1>12. CASE TickArm(l)
  <2>1. tick' \in [Loops -> Tick]
    BY <1>3, <1>12, Basics DEF TickArm, TickEnd
  <2>2. Shot(tick[l].seen) \in Shots \cup {None}
    BY <1>1, ShotTyped DEF Tick
  <2> QED BY <1>12, <2>1, <2>2 DEF TickArm, TypeOK, tickOnly
<1>13. CASE CatchUp(l)
  <2>1. tick' \in [Loops -> Tick]
    BY <1>1, <1>2, <1>13 DEF CatchUp
  <2>2. boot' \in [todo : SUBSET Loops, seen : [Loops -> Row], at : Loops \cup {None}]
    <3>1. \E a \in Loops \cup {None} : boot' = [boot EXCEPT !.todo = @ \ {l}, !.seen[l] = NoRow, !.at = a]
      BY <1>13 DEF CatchUp
    <3>2. NoRow \in Row
      BY Basics
    <3>3. [boot.seen EXCEPT ![l] = NoRow] \in [Loops -> Row] /\ boot.todo \ {l} \in SUBSET Loops
      BY <3>2 DEF TypeOK
    <3>4. boot'.todo = boot.todo \ {l} /\ boot'.seen = [boot.seen EXCEPT ![l] = NoRow] /\ boot'.at \in Loops \cup {None}
          /\ boot' = [todo |-> boot'.todo, seen |-> boot'.seen, at |-> boot'.at]
      BY <3>1 DEF TypeOK
    <3> QED BY <3>3, <3>4
  <2> QED BY <1>13, <2>1, <2>2 DEF CatchUp, TypeOK
<1> QED BY <1>5, <1>6, <1>7, <1>8, <1>9, <1>10, <1>11, <1>12, <1>13 DEF TickStep

LEMMA TypedRuns ==
  ASSUME TypeOK, NEW l \in Loops, RunStarts(l) \/ RunEnds(l)
  PROVE  TypeOK'
<1>1. \E b \in {"none", "running"} : busy' = [busy EXCEPT ![l] = b] /\ missed' = [missed EXCEPT ![l] = FALSE]
  BY DEF RunStarts, RunEnds
<1>2. busy' \in [Loops -> {"none", "pending", "running"}] /\ missed' \in [Loops -> BOOLEAN]
  BY <1>1 DEF TypeOK
<1> QED BY <1>2 DEF RunStarts, RunEnds, TypeOK

\* What is aged keeps everything but the shot.
Older(c) == [c EXCEPT !.seen = Aged(@)]

LEMMA OlderCopy ==
  ASSUME TimersConstantsOK
  PROVE  /\ \A t \in Tick : Older(t) \in Tick /\ Older(t).pc = t.pc /\ Older(t).seen = Aged(t.seen)
         /\ \A h \in Job : /\ Older(h) \in Job /\ Older(h).pc = h.pc /\ Older(h).op = h.op /\ Older(h).loop = h.loop
                           /\ Older(h).seen = Aged(h.seen)
<1>1. \A r \in Row : Aged(r) \in Row
  BY AgedRow
<1> QED BY <1>1 DEF Older, Tick, Job

LEMMA Time ==
  ASSUME TimePasses
  PROVE  /\ tick' = [l \in Loops |-> Older(tick[l])]
         /\ job' = [j \in Jobs |-> Older(job[j])]
BY DEF TimePasses, Older

\* The passing of time ages rows, timers and what the handlers remember, each in its place.
LEMMA TypedTime ==
  ASSUME TimersConstantsOK, TypeOK, TimePasses
  PROVE  TypeOK'
<1>1. \A r \in Row : Aged(r) \in Row
  BY AgedRow
<1>2. row' \in [Loops -> Row]
  BY <1>1 DEF TypeOK, TimePasses
<1>3. timer' \in [Loops -> Shots \cup {None}]
  BY SoonerShot DEF TypeOK, TimePasses
<1>4. tick' \in [Loops -> Tick]
  BY Time, OlderCopy DEF TypeOK
<1>5. job' \in [Jobs -> Job]
  BY Time, OlderCopy DEF TypeOK
<1>6. boot' \in [todo : SUBSET Loops, seen : [Loops -> Row], at : Loops \cup {None}]
  BY <1>1 DEF TypeOK, TimePasses
<1> QED BY <1>2, <1>3, <1>4, <1>5, <1>6 DEF TypeOK, TimePasses

LEMMA TypedRestart ==
  ASSUME TimersConstantsOK, TypeOK, Restart
  PROVE  TypeOK'
<1>1. \A l \in Loops : row[l] \in Row /\ row[l].expr \in Exprs
  BY DEF TypeOK, Row
<1>2. cron' \in [Loops -> Exprs \cup {None}]
  BY <1>1 DEF Restart
<1>3. timer' \in [Loops -> Shots \cup {None}]
  BY <1>1, ShotTyped DEF Restart
<1>4. tick' \in [Loops -> Tick]
  <2>1. [NoTick EXCEPT !.pc = "load"] \in Tick
    BY Basics DEF Tick
  <2> QED BY <2>1, Basics DEF Restart
<1>5. boot' \in [todo : SUBSET Loops, seen : [Loops -> Row], at : Loops \cup {None}]
  BY <1>1, Basics DEF Restart
<1>6. missed' \in [Loops -> BOOLEAN]
  BY DEF Restart
<1>7. job' \in [Jobs -> Job] /\ resumes' \in [Loops -> Seq(Jobs)]
  BY Basics DEF Restart
<1>8. restarts' \in 0..MaxRestarts
  BY DEF Restart, TypeOK, TimersConstantsOK
<1>9. shot' \in [Loops -> Fates]
  BY DEF Restart, TypeOK, Fates
<1> QED BY <1>2, <1>3, <1>4, <1>5, <1>6, <1>7, <1>8, <1>9 DEF TypeOK, Restart

(***************************************************************************)
(* The queue of continuations.  The cron job is what the continuations so  *)
(* far have made it: if those still to come only re-arm the one-shot, it   *)
(* is already what the row says, and if not, the last of them that         *)
(* schedules will make it so.                                              *)
(***************************************************************************)
Kept(r)     == IF r.state = "on" THEN r.expr ELSE None
Rearms      == {"now", "flag"}       \* the handlers that leave the cron job alone
At(l)       == 1..Len(resumes[l])
Creating(j) == job[j].op = "create" /\ job[j].pc = "write"

Queued == /\ \A l \in Loops : \A i \in At(l) :
               LET h == job[resumes[l][i]] IN h.pc = "apply" /\ h.loop = l /\ h.op # "delete"
          /\ \A j \in Jobs : job[j].pc = "apply" => \E i \in At(job[j].loop) : resumes[job[j].loop][i] = j
          /\ \A l \in Loops : \A i, k \in At(l) : resumes[l][i] = resumes[l][k] => i = k

Births == \A j \in Jobs : job[j].pc # "idle" =>
            /\ Creating(j) <=> row[job[j].loop].state = "unborn"
            /\ Creating(j) => \A k \in Jobs : job[k].pc # "idle" /\ job[k].loop = job[j].loop => k = j
            /\ job[j].pc = "read" => job[j].op = "clear"

Links == \A l \in Loops : \A i \in At(l) : i > 1 /\ job[resumes[l][i]].op \in Rearms =>
            Kept(job[resumes[l][i]].seen) = Kept(job[resumes[l][i-1]].seen)

Last == \A l \in Loops : row[l].state # "gone" /\ Len(resumes[l]) > 0 =>
            Kept(job[resumes[l][Len(resumes[l])]].seen) = Kept(row[l])

Base == \A l \in Loops : row[l].state # "gone" /\ ~Deleting(l) =>
            /\ Len(resumes[l]) = 0 => cron[l] = Kept(row[l])
            /\ Len(resumes[l]) > 0 /\ job[resumes[l][1]].op \in Rearms => cron[l] = Kept(job[resumes[l][1]].seen)

CronInv == Queued /\ Births /\ Links /\ Last /\ Base

LEMMA Lengths ==
  ASSUME TypeOK
  PROVE  \A l \in Loops : /\ Len(resumes[l]) \in Nat
                          /\ \A i \in At(l) : resumes[l][i] \in Jobs
                          /\ Len(resumes[l]) > 0 => 1 \in At(l) /\ Len(resumes[l]) \in At(l)
<1> SUFFICES ASSUME NEW l \in Loops
             PROVE  /\ Len(resumes[l]) \in Nat
                    /\ \A i \in At(l) : resumes[l][i] \in Jobs
                    /\ Len(resumes[l]) > 0 => 1 \in At(l) /\ Len(resumes[l]) \in At(l)
  OBVIOUS
<1>1. resumes[l] \in Seq(Jobs)
  BY DEF TypeOK
<1> QED BY <1>1 DEF At

\* A row that is not born has no handler but the one that creates it.
LEMMA Unborn ==
  ASSUME TypeOK, CronInv, NEW l \in Loops, row[l].state = "unborn"
  PROVE  Len(resumes[l]) = 0 /\ ~Deleting(l)
<1>1. ASSUME NEW j \in Jobs, job[j].loop = l, job[j].pc # "idle" PROVE Creating(j)
  BY <1>1 DEF CronInv, Births
<1>2. ~Deleting(l)
  BY <1>1 DEF Deleting, Creating
<1>3. ASSUME Len(resumes[l]) > 0 PROVE FALSE
  <2>1. resumes[l][1] \in Jobs /\ 1 \in At(l)
    BY <1>3, Lengths
  <2>2. job[resumes[l][1]].pc = "apply" /\ job[resumes[l][1]].loop = l
    BY <2>1 DEF CronInv, Queued
  <2> QED BY <1>1, <2>1, <2>2 DEF Creating
<1> QED BY <1>2, <1>3, Lengths

\* What no step but a write or a continuation touches.
SameQueue == /\ resumes' = resumes
             /\ \A k \in Jobs : job[k].pc = "apply" \/ job'[k].pc = "apply" =>
                  /\ job'[k].pc = job[k].pc /\ job'[k].op = job[k].op /\ job'[k].loop = job[k].loop
                  /\ Kept(job'[k].seen) = Kept(job[k].seen)

LEMMA QueueKept ==
  ASSUME TypeOK, CronInv, SameQueue
  PROVE  /\ Queued' /\ Links'
         /\ \A l \in Loops : \A i \in At(l) : /\ job'[resumes[l][i]].op = job[resumes[l][i]].op
                                              /\ Kept(job'[resumes[l][i]].seen) = Kept(job[resumes[l][i]].seen)
<1>1. \A l \in Loops : \A i \in At(l) : resumes[l][i] \in Jobs /\ job[resumes[l][i]].pc = "apply"
  BY Lengths DEF CronInv, Queued
<1>2. \A l \in Loops : \A i \in At(l) :
        /\ job'[resumes[l][i]].pc = "apply" /\ job'[resumes[l][i]].op = job[resumes[l][i]].op
        /\ job'[resumes[l][i]].loop = job[resumes[l][i]].loop
        /\ Kept(job'[resumes[l][i]].seen) = Kept(job[resumes[l][i]].seen)
  BY <1>1 DEF SameQueue
<1>3. Queued'
  <2>1. \A l \in Loops : \A i \in At(l) :
          job'[resumes[l][i]].pc = "apply" /\ job'[resumes[l][i]].loop = l /\ job'[resumes[l][i]].op # "delete"
    BY <1>2 DEF CronInv, Queued
  <2>2. \A j \in Jobs : job'[j].pc = "apply" => \E i \in At(job'[j].loop) : resumes[job'[j].loop][i] = j
    BY DEF CronInv, Queued, SameQueue
  <2> QED BY <2>1, <2>2 DEF CronInv, Queued, SameQueue, At
<1>4. Links'
  <2>1. ASSUME NEW l \in Loops, NEW i \in At(l), i > 1, job'[resumes[l][i]].op \in Rearms
        PROVE  Kept(job'[resumes[l][i]].seen) = Kept(job'[resumes[l][i-1]].seen)
    <3>1. i - 1 \in At(l)
      BY <2>1, Lengths DEF At
    <3> QED BY <1>2, <2>1, <3>1 DEF CronInv, Links
  <2> QED BY <2>1 DEF Links, SameQueue, At
<1> QED BY <1>2, <1>3, <1>4

LEMMA BaseKept ==
  ASSUME TypeOK, CronInv, SameQueue,
         \A l \in Loops : row'[l].state # "gone" =>
           /\ row[l].state # "gone" /\ Kept(row'[l]) = Kept(row[l])
           /\ ~Deleting(l)' => ~Deleting(l) /\ cron'[l] = cron[l]
  PROVE  Queued' /\ Links' /\ Last' /\ Base'
<1>1. Queued' /\ Links'
  BY QueueKept
<1>2. Last'
  BY QueueKept, Lengths DEF CronInv, Last, SameQueue
<1>3. Base'
  BY QueueKept, Lengths DEF CronInv, Base, SameQueue
<1> QED BY <1>1, <1>2, <1>3

LEMMA BirthsKept ==
  ASSUME TypeOK, CronInv,
         \A l \in Loops : row'[l].state = "unborn" <=> row[l].state = "unborn",
         \A k \in Jobs : job'[k].pc # "idle" =>
           /\ job[k].pc # "idle" /\ job'[k].loop = job[k].loop
           /\ Creating(k)' <=> Creating(k)
           /\ job'[k].pc = "read" => job'[k].op = "clear"
  PROVE  Births'
<1>1. \A k \in Jobs : job[k].loop \in Loops
  BY DEF TypeOK, Job
<1> QED BY <1>1 DEF CronInv, Births

LEMMA CronInit == TimersConstantsOK /\ Init => CronInv
<1> SUFFICES ASSUME TimersConstantsOK, Init PROVE CronInv
  OBVIOUS
<1>1. /\ \A j \in Jobs : job[j] = NoJob
      /\ \A l \in Loops : Len(resumes[l]) = 0 /\ At(l) = {} /\ cron[l] = None /\ row[l] = NoRow
  BY DEF Init, At
<1> QED BY <1>1, Basics DEF CronInv, Queued, Births, Links, Last, Base, Kept

\* The steps that move no continuation, no cron job and no schedule.
LEMMA CalmKeepsCron ==
  ASSUME TypeOK, CronInv,
         resumes' = resumes,
         \A l \in Loops : row'[l].state = row[l].state /\ row'[l].expr = row[l].expr /\ cron'[l] = cron[l],
         \A k \in Jobs : /\ job'[k].pc = job[k].pc /\ job'[k].op = job[k].op /\ job'[k].loop = job[k].loop
                         /\ Kept(job'[k].seen) = Kept(job[k].seen)
  PROVE  CronInv'
<1>1. SameQueue
  BY DEF SameQueue
<1>2. \A l \in Loops : Kept(row'[l]) = Kept(row[l]) /\ (Deleting(l)' <=> Deleting(l))
  BY DEF Kept, Deleting
<1>3. Queued' /\ Links' /\ Last' /\ Base'
  BY <1>1, <1>2, BaseKept
<1>4. Births'
  <2>1. \A k \in Jobs : job[k].pc = "read" => job[k].op = "clear"
    BY DEF CronInv, Births
  <2> QED BY <2>1, BirthsKept DEF Creating
<1> QED BY <1>3, <1>4 DEF CronInv

\* A handler that is not at its continuation begins, goes on or ends.
LEMMA BeginKeepsCron ==
  ASSUME TimersConstantsOK, TypeOK, CronInv, NEW j \in Jobs, NEW l \in Loops,
         JobBegin(j, l) \/ JobReport(j, l) \/ JobDelete(j, l)
  PROVE  CronInv'
<1>1. PICK op \in Ops, pc \in {"read", "write"} :
        /\ Begin(j, l, op, pc)
        /\ pc = "read" => op = "clear"
        /\ op = "delete" <=> JobDelete(j, l)
        /\ op = "create" <=> row[l].state = "unborn"
        /\ op = "create" => pc = "write" /\ \A i \in Jobs : job[i].loop = l => job[i].pc = "idle"
  <2>1. CASE JobBegin(j, l) /\ ~JobDelete(j, l)
    BY <2>1 DEF JobBegin, Ops, Stored
  <2>2. CASE JobReport(j, l) /\ ~JobDelete(j, l)
    BY <2>2 DEF JobReport, Ops, Stored
  <2>3. CASE JobDelete(j, l)
    BY <2>3 DEF JobDelete, Ops, Stored
  <2> QED BY <2>1, <2>2, <2>3
<1>2. /\ job[j].pc = "idle"
      /\ job'[j].pc = pc /\ job'[j].op = op /\ job'[j].loop = l
      /\ \A k \in Jobs \ {j} : job'[k] = job[k]
  BY <1>1, BegunJob
<1>3. row' = row /\ resumes' = resumes
  BY DEF JobBegin, JobReport, JobDelete
<1>4. \A k \in Loops : cron'[k] = cron[k] \/ (k = l /\ op = "delete")
  BY <1>1 DEF JobBegin, JobReport, JobDelete, Unschedule, TypeOK
<1>5. SameQueue
  BY <1>2, <1>3 DEF SameQueue
<1>6. \A k \in Loops : ~Deleting(k)' => ~Deleting(k) /\ cron'[k] = cron[k]
  BY <1>2, <1>4 DEF Deleting
<1>7. Queued' /\ Links' /\ Last' /\ Base'
  BY <1>3, <1>5, <1>6, BaseKept
<1>8. Births'
  <2>1. ASSUME NEW k \in Jobs, job'[k].pc # "idle"
        PROVE  /\ Creating(k)' <=> row'[job'[k].loop].state = "unborn"
               /\ Creating(k)' => \A i \in Jobs : job'[i].pc # "idle" /\ job'[i].loop = job'[k].loop => i = k
               /\ job'[k].pc = "read" => job'[k].op = "clear"
    <3>1. CASE k = j
      BY <1>1, <1>2, <1>3, <3>1 DEF Creating
    <3>2. CASE k # j
      <4>1. job'[k] = job[k]
        BY <1>2, <3>2
      <4>2. ASSUME Creating(k), job[k].loop = l PROVE FALSE
        <5>1. row[l].state = "unborn"
          BY <2>1, <4>1, <4>2 DEF CronInv, Births
        <5> QED BY <1>1, <2>1, <4>1, <4>2, <5>1
      <4> QED BY <1>2, <1>3, <2>1, <4>1, <4>2 DEF CronInv, Births, Creating
    <3> QED BY <3>1, <3>2
  <2> QED BY <2>1 DEF Births
<1> QED BY <1>7, <1>8 DEF CronInv

LEMMA ReadKeepsCron ==
  ASSUME TimersConstantsOK, TypeOK, CronInv, NEW j \in Jobs, JobRead(j)
  PROVE  CronInv'
<1>1. /\ job[j].pc = "read" /\ job'[j].pc = "write" /\ job'[j].op = job[j].op /\ job'[j].loop = job[j].loop
      /\ \A k \in Jobs \ {j} : job'[k] = job[k]
  BY TypedRead DEF JobRead
<1>2. row' = row /\ resumes' = resumes /\ cron' = cron
  BY DEF JobRead
<1>3. job[j].op = "clear"
  BY <1>1 DEF CronInv, Births
<1>4. SameQueue
  BY <1>1, <1>2 DEF SameQueue
<1>5. \A k \in Loops : Deleting(k)' <=> Deleting(k)
  BY <1>1 DEF Deleting
<1>6. Queued' /\ Links' /\ Last' /\ Base'
  BY <1>2, <1>4, <1>5, BaseKept
<1>7. \A k \in Jobs : job'[k].pc # "idle" =>
           /\ job[k].pc # "idle" /\ job'[k].loop = job[k].loop
           /\ Creating(k)' <=> Creating(k)
           /\ job'[k].pc = "read" => job'[k].op = "clear"
  BY <1>1, <1>3 DEF Creating, CronInv, Births
<1>8. Births'
  BY <1>2, <1>7, BirthsKept
<1> QED BY <1>6, <1>8 DEF CronInv

LEMMA EndKeepsCron ==
  ASSUME TimersConstantsOK, TypeOK, CronInv, NEW j \in Jobs, JobWrite(j), ~Writes(j) \/ job[j].op = "delete"
  PROVE  CronInv'
<1>1. /\ resumes' = resumes /\ cron' = cron
      /\ job[j].pc = "write" /\ job'[j].pc = "idle"
      /\ \A k \in Jobs \ {j} : job'[k] = job[k]
      /\ row' = row \/ (row'[job[j].loop].state = "gone" /\ \A l \in Loops \ {job[j].loop} : row'[l] = row[l])
  BY EndedStep DEF JobWrite
<1>2. job[j].loop \in Loops /\ row[job[j].loop].state \in {"unborn", "on", "off", "gone"}
  BY DEF TypeOK, Job, Row
<1>3. row[job[j].loop].state # "unborn"
  <2>1. job[j].op # "create"
    BY DEF Writes
  <2> QED BY <1>1, <2>1 DEF CronInv, Births, Creating
<1>4. row'[job[j].loop].state = "gone" \/ (row' = row /\ job[j].op # "delete")
  <2>1. CASE Writes(j) /\ job[j].op = "delete"
    <3>1. \E w \in Written(job[j].op, row[job[j].loop], job[j].seen) : row' = [row EXCEPT ![job[j].loop] = w]
      BY <2>1 DEF JobWrite, Writes
    <3>2. job[j].op \in Ops /\ job[j].seen \in Row /\ row[job[j].loop] \in Row
      BY DEF TypeOK, Job
    <3> QED BY <1>2, <2>1, <3>1, <3>2, WrittenRow DEF TypeOK
  <2>2. CASE ~Writes(j)
    <3>1. row' = row
      BY <2>2 DEF JobWrite, Writes
    <3> QED BY <1>2, <1>3, <2>2, <3>1 DEF Writes, Stored
  <2> QED BY <2>1, <2>2
<1>5. SameQueue
  BY <1>1 DEF SameQueue
<1>6. ASSUME NEW l \in Loops, row'[l].state # "gone"
      PROVE  /\ row[l].state # "gone" /\ Kept(row'[l]) = Kept(row[l])
             /\ ~Deleting(l)' => ~Deleting(l) /\ cron'[l] = cron[l]
  <2>1. row'[l] = row[l]
    BY <1>1, <1>6
  <2>2. job[j].loop = l => job[j].op # "delete"
    BY <1>4, <1>6
  <2> QED BY <1>1, <1>6, <2>1, <2>2 DEF Deleting
<1>7. Queued' /\ Links' /\ Last' /\ Base'
  BY <1>5, <1>6, BaseKept
<1>8. \A l \in Loops : row'[l].state = "unborn" <=> row[l].state = "unborn"
  BY <1>1, <1>3
<1>9. \A k \in Jobs : job'[k].pc # "idle" =>
           /\ job[k].pc # "idle" /\ job'[k].loop = job[k].loop
           /\ Creating(k)' <=> Creating(k)
           /\ job'[k].pc = "read" => job'[k].op = "clear"
  BY <1>1 DEF Creating, CronInv, Births
<1>10. Births'
  BY <1>8, <1>9, BirthsKept
<1> QED BY <1>7, <1>10 DEF CronInv

\* A write joins the queue with the row it left behind.
LEMMA WriteKeepsCron ==
  ASSUME TimersConstantsOK, TypeOK, TypeOK', CronInv, NEW j \in Jobs, JobWrite(j), Writes(j), job[j].op # "delete"
  PROVE  CronInv'
<1> DEFINE l == job[j].loop
           q == resumes[l]
<1>1. PICK w \in Written(job[j].op, row[l], job[j].seen) :
        /\ row' = [row EXCEPT ![l] = w] /\ w \in Row
        /\ job'[j].pc = "apply" /\ job'[j].seen = w /\ job'[j].op = job[j].op /\ job'[j].loop = l
        /\ \A k \in Jobs \ {j} : job'[k] = job[k]
        /\ resumes' = [resumes EXCEPT ![l] = Append(q, j)]
  BY WrittenStep
<1>2. /\ l \in Loops /\ job[j].op \in Ops /\ job[j].seen \in Row /\ row[l] \in Row /\ q \in Seq(Jobs)
      /\ job[j].pc = "write" /\ cron' = cron /\ row \in [Loops -> Row] /\ resumes \in [Loops -> Seq(Jobs)]
  BY DEF TypeOK, Job, JobWrite
<1>3. /\ Len(q) \in Nat /\ Len(resumes'[l]) = Len(q) + 1
      /\ resumes'[l][Len(q) + 1] = j
      /\ \A i \in 1..Len(q) : resumes'[l][i] = q[i]
      /\ \A k \in Loops \ {l} : resumes'[k] = resumes[k]
      /\ row'[l] = w /\ \A k \in Loops \ {l} : row'[k] = row[k]
  BY <1>1, <1>2
<1>4. \A k \in Loops : \A i \in At(k) : /\ resumes[k][i] \in Jobs \ {j}
                                        /\ job'[resumes[k][i]] = job[resumes[k][i]]
  BY <1>1, <1>2, Lengths DEF CronInv, Queued
<1>5. \A k \in Loops : Deleting(k)' <=> Deleting(k)
  BY <1>1 DEF Deleting
<1>6. job[j].op \in Rearms => Kept(w) = Kept(row[l]) /\ row[l].state # "gone"
  BY <1>1, <1>2, WrittenRow DEF Rearms, Kept, Writes, Stored
<1>7. /\ w.state # "unborn"
      /\ row[l].state = "unborn" => job[j].op = "create"
      /\ w.state # "gone" => row[l].state # "gone"
  <2>1. row[l].state = "unborn" <=> job[j].op = "create"
    BY <1>2 DEF CronInv, Births, Creating
  <2>2. job[j].op \in {"create", "patch", "now", "flag", "clear", "stop"}
    BY <1>2 DEF Ops
  <2>3. job[j].op \in {"patch", "now", "flag", "clear"} => row[l].state \in {"on", "off"}
    BY DEF Writes, Stored
  <2>4. job[j].op = "stop" => w.state = "off" \/ w = row[l]
    BY <1>1, <1>2, WrittenRow
  <2> QED BY <1>1, <1>2, <2>1, <2>2, <2>3, <2>4, WrittenRow DEF Row, Stored
<1> HIDE DEF l, q
<1>8. Queued'
  <2>1. ASSUME NEW k \in Loops, NEW i \in 1..Len(resumes'[k])
        PROVE  job'[resumes'[k][i]].pc = "apply" /\ job'[resumes'[k][i]].loop = k /\ job'[resumes'[k][i]].op # "delete"
    <3>1. CASE k = l /\ i = Len(q) + 1
      BY <1>1, <1>3, <3>1
    <3>2. CASE ~(k = l /\ i = Len(q) + 1)
      <4>1. i \in At(k) /\ resumes'[k][i] = resumes[k][i]
        BY <1>2, <1>3, <2>1, <3>2 DEF At, q
      <4> QED BY <1>4, <4>1 DEF CronInv, Queued
    <3> QED BY <3>1, <3>2
  <2>2. ASSUME NEW k \in Jobs, job'[k].pc = "apply"
        PROVE  \E i \in 1..Len(resumes'[job'[k].loop]) : resumes'[job'[k].loop][i] = k
    <3>1. CASE k = j
      <4>1. Len(q) + 1 \in 1..Len(resumes'[l])
        BY <1>3
      <4> QED BY <1>1, <1>3, <3>1, <4>1
    <3>2. CASE k # j
      <4>1. job'[k] = job[k] /\ job[k].loop \in Loops
        BY <1>1, <3>2 DEF TypeOK, Job
      <4>2. PICK i \in At(job[k].loop) : resumes[job[k].loop][i] = k
        BY <2>2, <4>1 DEF CronInv, Queued
      <4>3. i \in 1..Len(resumes'[job[k].loop]) /\ resumes'[job[k].loop][i] = k
        BY <1>3, <4>1, <4>2 DEF At, q
      <4> QED BY <4>1, <4>3
    <3> QED BY <3>1, <3>2
  <2>3. ASSUME NEW k \in Loops, NEW i \in 1..Len(resumes'[k]), NEW n \in 1..Len(resumes'[k]), resumes'[k][i] = resumes'[k][n]
        PROVE  i = n
    <3>1. CASE k # l
      BY <1>3, <2>3, <3>1 DEF CronInv, Queued, At
    <3>2. CASE k = l
      <4>1. \A m \in 1..Len(resumes'[l]) : m = Len(q) + 1 \/ (m \in At(l) /\ resumes'[l][m] = resumes[l][m])
        BY <1>2, <1>3 DEF At, q
      <4>2. \A m \in 1..Len(resumes'[l]) : m = Len(q) + 1 <=> resumes'[l][m] = j
        BY <1>2, <1>3, <1>4, <4>1
      <4>3. CASE i \in At(l) /\ n \in At(l) /\ resumes'[l][i] = resumes[l][i] /\ resumes'[l][n] = resumes[l][n]
        <5>1. resumes[l][i] = resumes[l][n]
          BY <2>3, <3>2, <4>3
        <5> QED BY <1>2, <4>3, <5>1 DEF CronInv, Queued
      <4> QED BY <2>3, <3>2, <4>1, <4>2, <4>3
    <3> QED BY <3>1, <3>2
  <2> QED BY <2>1, <2>2, <2>3 DEF Queued, At
<1>9. Births'
  <2>1. ASSUME NEW k \in Jobs, job'[k].pc # "idle"
        PROVE  /\ Creating(k)' <=> row'[job'[k].loop].state = "unborn"
               /\ Creating(k)' => \A i \in Jobs : job'[i].pc # "idle" /\ job'[i].loop = job'[k].loop => i = k
               /\ job'[k].pc = "read" => job'[k].op = "clear"
    <3>1. CASE k = j
      <4>1. ~Creating(j)' /\ row'[job'[j].loop].state # "unborn"
        BY <1>1, <1>3, <1>7 DEF Creating
      <4> QED BY <1>1, <3>1, <4>1
    <3>2. CASE k # j
      <4>1. job'[k] = job[k] /\ job[k].loop \in Loops
        BY <1>1, <3>2 DEF TypeOK, Job
      <4>2. CASE job[k].loop = l
        <5>1. ~Creating(j)
          BY <1>2, <2>1, <3>2, <4>1, <4>2 DEF CronInv, Births, l
        <5>2. row[l].state # "unborn" /\ ~Creating(k)
          BY <1>2, <2>1, <4>1, <4>2, <5>1 DEF CronInv, Births, l
        <5>3. ~Creating(k)' /\ row'[job'[k].loop].state # "unborn"
          BY <1>3, <1>7, <4>1, <4>2, <5>2 DEF Creating
        <5> QED BY <2>1, <4>1, <5>3 DEF CronInv, Births
      <4>3. CASE job[k].loop # l
        <5>1. row'[job'[k].loop] = row[job[k].loop] /\ (Creating(k)' <=> Creating(k))
          BY <1>3, <4>1, <4>3 DEF Creating
        <5>2. \A i \in Jobs : job'[i].pc # "idle" /\ job'[i].loop = job'[k].loop => job'[i] = job[i]
          BY <1>1, <4>1, <4>3
        <5> QED BY <2>1, <4>1, <5>1, <5>2 DEF CronInv, Births
      <4> QED BY <4>2, <4>3
    <3> QED BY <3>1, <3>2
  <2> QED BY <2>1 DEF Births
<1>10. Links'
  <2>1. ASSUME NEW k \in Loops, NEW i \in At(k)', i > 1, job'[resumes'[k][i]].op \in Rearms
        PROVE  Kept(job'[resumes'[k][i]].seen) = Kept(job'[resumes'[k][i-1]].seen)
    <3>1. CASE k = l /\ i = Len(q) + 1
      <4>1. resumes'[l][i] = j /\ resumes'[l][i-1] = q[Len(q)] /\ Len(q) > 0
        BY <1>2, <1>3, <2>1, <3>1 DEF At
      <4>2. job'[q[Len(q)]] = job[q[Len(q)]]
        BY <1>2, <1>4, <4>1, Lengths DEF q
      <4>3. Kept(w) = Kept(row[l]) /\ row[l].state # "gone"
        BY <1>1, <1>6, <2>1, <3>1, <4>1
      <4>4. Kept(job[q[Len(q)]].seen) = Kept(row[l])
        BY <1>2, <4>1, <4>3 DEF CronInv, Last, q
      <4> QED BY <1>1, <3>1, <4>1, <4>2, <4>3, <4>4
    <3>2. CASE ~(k = l /\ i = Len(q) + 1)
      <4>1. i \in At(k) /\ i - 1 \in At(k) /\ resumes'[k][i] = resumes[k][i] /\ resumes'[k][i-1] = resumes[k][i-1]
        BY <1>2, <1>3, <2>1, <3>2 DEF At, q
      <4> QED BY <1>4, <2>1, <4>1 DEF CronInv, Links
    <3> QED BY <3>1, <3>2
  <2> QED BY <2>1 DEF Links
<1>11. Last'
  <2>1. ASSUME NEW k \in Loops, row'[k].state # "gone", Len(resumes'[k]) > 0
        PROVE  Kept(job'[resumes'[k][Len(resumes'[k])]].seen) = Kept(row'[k])
    <3>1. CASE k = l
      BY <1>1, <1>3, <3>1
    <3>2. CASE k # l
      <4>1. resumes'[k] = resumes[k] /\ row'[k] = row[k] /\ Len(resumes[k]) \in At(k)
        BY <1>3, <2>1, <3>2, Lengths
      <4> QED BY <1>4, <2>1, <4>1 DEF CronInv, Last
    <3> QED BY <3>1, <3>2
  <2> QED BY <2>1 DEF Last
<1>12. Base'
  <2>1. ASSUME NEW k \in Loops, row'[k].state # "gone", ~Deleting(k)'
        PROVE  /\ Len(resumes'[k]) = 0 => cron'[k] = Kept(row'[k])
               /\ Len(resumes'[k]) > 0 /\ job'[resumes'[k][1]].op \in Rearms =>
                    cron'[k] = Kept(job'[resumes'[k][1]].seen)
    <3>1. CASE k # l
      <4>1. resumes'[k] = resumes[k] /\ row'[k] = row[k]
        BY <1>3, <3>1
      <4> QED BY <1>2, <1>4, <1>5, <2>1, <4>1, Lengths DEF CronInv, Base
    <3>2. CASE k = l /\ Len(q) > 0
      <4>1. resumes'[l][1] = q[1] /\ job'[q[1]] = job[q[1]] /\ row[l].state # "gone"
        BY <1>2, <1>3, <1>4, <1>7, <2>1, <3>2, Lengths DEF q
      <4> QED BY <1>2, <1>3, <1>5, <2>1, <3>2, <4>1 DEF CronInv, Base, q
    <3>3. CASE k = l /\ Len(q) = 0
      <4>1. resumes'[l][1] = j /\ row[l].state # "gone" /\ Len(resumes'[l]) > 0
        BY <1>2, <1>3, <1>7, <2>1, <3>3
      <4>2. cron[l] = Kept(row[l])
        BY <1>2, <1>5, <2>1, <3>3, <4>1 DEF CronInv, Base, q
      <4> QED BY <1>1, <1>2, <1>6, <3>3, <4>1, <4>2
    <3> QED BY <1>2, <1>3, <3>1, <3>2, <3>3
  <2> QED BY <2>1 DEF Base
<1> QED BY <1>8, <1>9, <1>10, <1>11, <1>12 DEF CronInv

LEMMA ApplyAtHead ==
  ASSUME TypeOK, CronInv, NEW j \in Jobs, JobApply(j)
  PROVE  Len(resumes[job[j].loop]) > 0 /\ resumes[job[j].loop][1] = j /\ resumes[job[j].loop] # <<>>
<1>1. job[j].pc = "apply" /\ job[j].loop \in Loops /\ j = Head(resumes[job[j].loop])
  BY DEF JobApply, TypeOK, Job
<1>2. resumes[job[j].loop] \in Seq(Jobs)
  BY <1>1 DEF TypeOK
<1>3. PICK i \in At(job[j].loop) : resumes[job[j].loop][i] = j
  BY <1>1 DEF CronInv, Queued
<1> QED BY <1>1, <1>2, <1>3 DEF At

\* The head of the queue is applied: the cron job is then what it saw, and the next
\* of its loop, if it only re-arms, saw the same.
LEMMA ApplyKeepsCron ==
  ASSUME TimersConstantsOK, TypeOK, CronInv, NEW j \in Jobs, JobApply(j)
  PROVE  CronInv'
<1> DEFINE l == job[j].loop
           q == resumes[l]
<1>1. /\ l \in Loops /\ q \in Seq(Jobs) /\ job[j].pc = "apply" /\ row' = row
      /\ resumes' = [resumes EXCEPT ![l] = Tail(q)] /\ resumes \in [Loops -> Seq(Jobs)]
      /\ cron \in [Loops -> Exprs \cup {None}]
  BY DEF TypeOK, Job, JobApply
<1>2. Len(q) > 0 /\ q[1] = j /\ q # <<>>
  BY ApplyAtHead
<1>3. /\ Len(q) \in Nat /\ Len(resumes'[l]) = Len(q) - 1
      /\ \A i \in 1..Len(resumes'[l]) : resumes'[l][i] = q[i+1] /\ i + 1 \in At(l)
      /\ \A k \in Loops \ {l} : resumes'[k] = resumes[k]
  <2>1. resumes'[l] = Tail(q) /\ \A k \in Loops \ {l} : resumes'[k] = resumes[k]
    BY <1>1
  <2>2. Len(Tail(q)) = Len(q) - 1 /\ \A i \in 1..Len(Tail(q)) : Tail(q)[i] = q[i+1]
    BY <1>1, <1>2, HeadTailProperties
  <2> QED BY <1>1, <2>1, <2>2 DEF At
<1>4. /\ \A k \in Jobs \ {j} : job'[k] = job[k]
      /\ job'[j].pc = "idle" \/ (job'[j].pc = "write" /\ job'[j].op = "now" /\ job'[j].loop = l)
  BY AppliedJob
<1>5. \A k \in Loops : \A i \in At(k) : resumes[k][i] = j => k = l /\ i = 1
  BY <1>1, <1>2, Lengths DEF CronInv, Queued
<1>6. \A k \in Loops : \A i \in 1..Len(resumes'[k]) : resumes'[k][i] \in Jobs \ {j} /\ job'[resumes'[k][i]] = job[resumes'[k][i]]
  <2>1. ASSUME NEW k \in Loops, NEW i \in 1..Len(resumes'[k]) PROVE resumes'[k][i] \in Jobs \ {j}
    <3>1. CASE k = l
      <4>1. resumes'[l][i] = q[i+1] /\ i + 1 \in At(l) /\ i + 1 # 1
        BY <1>3, <2>1, <3>1
      <4> QED BY <1>1, <1>5, <3>1, <4>1, Lengths
    <3>2. CASE k # l
      BY <1>3, <1>5, <2>1, <3>2, Lengths DEF At
    <3> QED BY <3>1, <3>2
  <2> QED BY <1>4, <2>1
<1>7. job[j].op # "delete" /\ \A k \in Loops : Deleting(k)' <=> Deleting(k)
  <2>1. job[j].op # "delete"
    BY <1>1, <1>2, Lengths DEF CronInv, Queued
  <2> QED BY <1>4, <2>1 DEF Deleting
<1>8. row[l].state # "gone" /\ ~Deleting(l) => cron'[l] = Kept(job[j].seen)
  <2>1. CASE job[j].op \in Rearms
    BY <1>1, <1>2, <2>1, AppliedTimers DEF CronInv, Base, Rearms
  <2>2. CASE job[j].op \notin Rearms
    BY <1>1, <2>2, AppliedTimers DEF Rearms, Kept
  <2> QED BY <2>1, <2>2
<1>9. \A k \in Loops \ {l} : cron'[k] = cron[k]
  BY <1>1, AppliedTimers
<1> HIDE DEF l, q
<1>10. Queued'
  <2>1. ASSUME NEW k \in Loops, NEW i \in 1..Len(resumes'[k])
        PROVE  job'[resumes'[k][i]].pc = "apply" /\ job'[resumes'[k][i]].loop = k /\ job'[resumes'[k][i]].op # "delete"
    <3>1. \E n \in At(k) : resumes'[k][i] = resumes[k][n]
      BY <1>3, <2>1 DEF At, q
    <3> QED BY <1>6, <3>1 DEF CronInv, Queued
  <2>2. ASSUME NEW k \in Jobs, job'[k].pc = "apply"
        PROVE  \E i \in 1..Len(resumes'[job'[k].loop]) : resumes'[job'[k].loop][i] = k
    <3>1. k # j /\ job'[k] = job[k] /\ job[k].loop \in Loops
      BY <1>4, <2>2 DEF TypeOK, Job
    <3>2. PICK i \in At(job[k].loop) : resumes[job[k].loop][i] = k
      BY <2>2, <3>1 DEF CronInv, Queued
    <3>3. CASE job[k].loop # l
      BY <1>3, <3>1, <3>2, <3>3 DEF At
    <3>4. CASE job[k].loop = l
      <4>1. i # 1 /\ i \in 1..Len(q) /\ q[i] = k
        BY <1>2, <3>1, <3>2, <3>4 DEF At, q
      <4>2. i - 1 \in 1..Len(resumes'[l]) /\ (i - 1) + 1 = i
        BY <1>3, <4>1
      <4>3. resumes'[l][i-1] = k
        BY <1>3, <4>1, <4>2
      <4> QED BY <3>1, <3>4, <4>2, <4>3
    <3> QED BY <3>3, <3>4
  <2>3. ASSUME NEW k \in Loops, NEW i \in 1..Len(resumes'[k]), NEW n \in 1..Len(resumes'[k]), resumes'[k][i] = resumes'[k][n]
        PROVE  i = n
    <3>1. CASE k # l
      BY <1>3, <2>3, <3>1 DEF CronInv, Queued, At
    <3>2. CASE k = l
      <4>1. q[i+1] = q[n+1] /\ i + 1 \in At(l) /\ n + 1 \in At(l)
        BY <1>3, <2>3, <3>2
      <4>2. i + 1 = n + 1
        BY <1>1, <4>1 DEF CronInv, Queued, q
      <4> QED BY <4>2
    <3> QED BY <3>1, <3>2
  <2> QED BY <2>1, <2>2, <2>3 DEF Queued, At
<1>11. Births'
  <2>1. \A k \in Jobs : job'[k].pc # "idle" =>
           /\ job[k].pc # "idle" /\ job'[k].loop = job[k].loop
           /\ Creating(k)' <=> Creating(k)
           /\ job'[k].pc = "read" => job'[k].op = "clear"
    BY <1>1, <1>4 DEF Creating, CronInv, Births, l
  <2> QED BY <1>1, <2>1, BirthsKept
<1>12. Links'
  <2>1. ASSUME NEW k \in Loops, NEW i \in 1..Len(resumes'[k]), i > 1, job'[resumes'[k][i]].op \in Rearms
        PROVE  Kept(job'[resumes'[k][i]].seen) = Kept(job'[resumes'[k][i-1]].seen)
    <3>1. i - 1 \in 1..Len(resumes'[k])
      BY <1>1, <1>3, <2>1 DEF TypeOK
    <3>2. PICK n \in At(k) : /\ n > 1 /\ n - 1 \in At(k)
                             /\ resumes'[k][i] = resumes[k][n] /\ resumes'[k][i-1] = resumes[k][n-1]
      <4>1. CASE k # l
        BY <1>3, <2>1, <3>1, <4>1 DEF At
      <4>2. CASE k = l
        <5>1. /\ resumes'[l][i] = q[i+1] /\ resumes'[l][i-1] = q[(i-1)+1] /\ i + 1 \in At(l) /\ (i-1)+1 \in At(l)
          BY <1>3, <2>1, <3>1, <4>2
        <5>2. (i-1)+1 = (i+1)-1 /\ i + 1 > 1
          BY <2>1
        <5> QED BY <4>2, <5>1, <5>2 DEF q
      <4> QED BY <4>1, <4>2
    <3> QED BY <1>6, <2>1, <3>1, <3>2 DEF CronInv, Links
  <2> QED BY <2>1 DEF Links, At
<1>13. Last'
  <2>1. ASSUME NEW k \in Loops, row'[k].state # "gone", Len(resumes'[k]) > 0
        PROVE  Kept(job'[resumes'[k][Len(resumes'[k])]].seen) = Kept(row'[k])
    <3>1. Len(resumes'[k]) \in 1..Len(resumes'[k])
      BY <1>1, <1>3, <2>1, Lengths
    <3>2. resumes'[k][Len(resumes'[k])] = resumes[k][Len(resumes[k])] /\ Len(resumes[k]) > 0
      BY <1>2, <1>3, <3>1 DEF q
    <3>3. job'[resumes'[k][Len(resumes'[k])]] = job[resumes[k][Len(resumes[k])]]
      BY <1>6, <3>1, <3>2
    <3>4. Kept(job[resumes[k][Len(resumes[k])]].seen) = Kept(row[k])
      BY <1>1, <2>1, <3>2 DEF CronInv, Last
    <3> QED BY <1>1, <3>3, <3>4
  <2> QED BY <2>1 DEF Last
<1>14. Base'
  <2>1. ASSUME NEW k \in Loops, row'[k].state # "gone", ~Deleting(k)'
        PROVE  /\ Len(resumes'[k]) = 0 => cron'[k] = Kept(row'[k])
               /\ Len(resumes'[k]) > 0 /\ job'[resumes'[k][1]].op \in Rearms =>
                    cron'[k] = Kept(job'[resumes'[k][1]].seen)
    <3>1. CASE k # l
      <4>1. resumes'[k] = resumes[k] /\ row'[k] = row[k] /\ cron'[k] = cron[k]
        BY <1>1, <1>3, <1>9, <3>1
      <4>2. Len(resumes[k]) > 0 => job'[resumes[k][1]] = job[resumes[k][1]]
        BY <1>6, <4>1, Lengths DEF At
      <4> QED BY <1>1, <1>7, <2>1, <4>1, <4>2 DEF CronInv, Base
    <3>2. CASE k = l /\ Len(q) = 1
      <4>1. Len(resumes'[l]) = 0 /\ row[l].state # "gone" /\ resumes[l][Len(resumes[l])] = j
        BY <1>1, <1>2, <1>3, <2>1, <3>2 DEF q
      <4>2. Kept(job[j].seen) = Kept(row[l])
        BY <1>1, <1>2, <4>1 DEF CronInv, Last, q
      <4> QED BY <1>1, <1>7, <1>8, <2>1, <3>2, <4>1, <4>2
    <3>3. CASE k = l /\ Len(q) > 1
      <4>1. /\ 1 \in 1..Len(resumes'[l]) /\ resumes'[l][1] = q[2] /\ job'[q[2]] = job[q[2]] /\ 2 \in At(l)
            /\ Len(resumes'[l]) # 0
        <5>1. 1 \in 1..Len(resumes'[l]) /\ Len(resumes'[l]) # 0 /\ 1 + 1 = 2
          BY <1>3, <3>3
        <5>2. resumes'[l][1] = q[1+1] /\ 1 + 1 \in At(l)
          BY <1>3, <5>1
        <5> QED BY <1>1, <1>6, <5>1, <5>2
      <4>2. job[q[2]].op \in Rearms => Kept(job[q[2]].seen) = Kept(job[j].seen)
        <5>1. 2 > 1 /\ 2 - 1 = 1
          OBVIOUS
        <5> QED BY <1>1, <1>2, <4>1, <5>1 DEF CronInv, Links, q
      <4>3. cron'[l] = Kept(job[j].seen)
        BY <1>1, <1>7, <1>8, <2>1, <3>3
      <4>4. job'[resumes'[l][1]] = job[q[2]]
        BY <4>1
      <4>5. job'[resumes'[l][1]].op \in Rearms => cron'[l] = Kept(job'[resumes'[l][1]].seen)
        BY <4>2, <4>3, <4>4
      <4> QED BY <3>3, <4>1, <4>5
    <3>4. Len(q) \in Nat /\ Len(q) > 0
      BY <1>2, <1>3
    <3>5. Len(q) = 1 \/ Len(q) > 1
      <4>1. \A n \in Nat : n > 0 => n = 1 \/ n > 1
        OBVIOUS
      <4> QED BY <3>4, <4>1
    <3> QED BY <3>1, <3>2, <3>3, <3>5
  <2> QED BY <2>1 DEF Base
<1> QED BY <1>10, <1>11, <1>12, <1>13, <1>14 DEF CronInv

\* Only the row of a deleted loop is no longer there for a tick to load, or it was
\* never born, and then nothing is scheduled.
LEMMA LoadKeepsCron ==
  ASSUME TimersConstantsOK, TypeOK, CronInv, NEW l \in Loops, TickLoad(l)
  PROVE  CronInv'
<1>1. row' = row /\ resumes' = resumes /\ job' = job
  BY DEF TickLoad, tickOnly
<1>2. SameQueue
  BY <1>1 DEF SameQueue
<1>3. \A k \in Loops : (Deleting(k)' <=> Deleting(k)) /\ Kept(row'[k]) = Kept(row[k])
  BY <1>1 DEF Deleting
<1>4. \A k \in Loops : cron'[k] = cron[k] \/ (k = l /\ cron'[l] = None /\ row[l].state \in {"unborn", "gone"})
  BY DEF TickLoad, Unschedule, TypeOK, Stored, Row
<1>5. row[l].state = "unborn" => cron[l] = None
  BY Unborn DEF CronInv, Base, Kept
<1>6. \A k \in Loops : row'[k].state # "gone" => cron'[k] = cron[k]
  BY <1>1, <1>4, <1>5
<1>7. Queued' /\ Links' /\ Last' /\ Base'
  BY <1>1, <1>2, <1>3, <1>6, BaseKept
<1>8. Births'
  BY <1>1 DEF CronInv, Births, Creating
<1> QED BY <1>7, <1>8 DEF CronInv

LEMMA RestartSetsCron ==
  ASSUME TimersConstantsOK, TypeOK, Restart
  PROVE  CronInv'
<1>1. /\ \A j \in Jobs : job'[j].pc = "idle"
      /\ \A l \in Loops : Len(resumes'[l]) = 0 /\ 1..Len(resumes'[l]) = {}
      /\ \A l \in Loops : cron'[l] = Kept(row'[l])
  BY Basics DEF Restart, Kept
<1>2. Queued' /\ Births' /\ Links' /\ Last' /\ Base'
  BY <1>1 DEF Queued, Births, Links, Last, Base, At
<1> QED BY <1>2 DEF CronInv

LEMMA TimeKeepsCron ==
  ASSUME TimersConstantsOK, TypeOK, CronInv, TimePasses
  PROVE  CronInv'
<1>1. /\ row' = [l \in Loops |-> Aged(row[l])] /\ job' = [j \in Jobs |-> Older(job[j])]
      /\ cron' = cron /\ resumes' = resumes
  BY Time DEF TimePasses
<1>2. \A l \in Loops : row'[l].state = row[l].state /\ row'[l].expr = row[l].expr
  BY <1>1, AgedRow DEF TypeOK
<1>3. \A k \in Jobs : /\ job'[k].pc = job[k].pc /\ job'[k].op = job[k].op /\ job'[k].loop = job[k].loop
                      /\ job'[k].seen = Aged(job[k].seen)
  BY <1>1, OlderCopy DEF TypeOK
<1>4. \A k \in Jobs : Kept(job'[k].seen) = Kept(job[k].seen)
  BY <1>3, AgedRow DEF TypeOK, Job, Kept
<1> QED BY <1>1, <1>2, <1>3, <1>4, CalmKeepsCron

\* Ticks past their load, the sweep of the boot, and runs.
LEMMA TickKeepsCron ==
  ASSUME TimersConstantsOK, TypeOK, CronInv, NEW l \in Loops,
         \/ CronFire(l) \/ TimerFire(l) \/ CatchUp(l) \/ RunStarts(l) \/ RunEnds(l)
         \/ TickOpen(l) \/ TickConsume(l) \/ TickAdd(l) \/ TickRead(l) \/ TickArm(l)
  PROVE  CronInv'
<1>1. job' = job /\ cron' = cron /\ resumes' = resumes
  BY DEF CronFire, TimerFire, CatchUp, RunStarts, RunEnds, TickOpen, TickConsume, TickAdd, TickRead, TickArm, tickOnly
<1>2. row' = row \/ row' = [row EXCEPT ![l] = [row[l] EXCEPT !.next = None]]
  BY DEF CronFire, TimerFire, CatchUp, RunStarts, RunEnds, TickOpen, TickConsume, TickAdd, TickRead, TickArm
<1>3. row[l] \in Row /\ row \in [Loops -> Row]
  BY DEF TypeOK
<1>4. \A k \in Loops : row'[k].state = row[k].state /\ row'[k].expr = row[k].expr
  <2> DEFINE r == [row[l] EXCEPT !.next = None]
  <2>1. r.state = row[l].state /\ r.expr = row[l].expr
    BY <1>3, RowSet
  <2>2. row' = row \/ row' = [row EXCEPT ![l] = r]
    BY <1>2
  <2> HIDE DEF r
  <2> QED BY <1>3, <2>1, <2>2
<1> QED BY <1>1, <1>4, CalmKeepsCron

LEMMA CronNext ==
  ASSUME TimersConstantsOK, TypeOK, CronInv, [Next]_vars
  PROVE  TypeOK' /\ CronInv'
<1>1. CASE UNCHANGED vars
  <2>1. TypeOK'
    BY <1>1 DEF vars, TypeOK
  <2> QED BY <1>1, <2>1, CalmKeepsCron DEF vars
<1>2. CASE \E j \in Jobs, l \in Loops : JobBegin(j, l) \/ JobReport(j, l) \/ JobDelete(j, l)
  BY <1>2, TypedBegin, BeginKeepsCron
<1>3. CASE \E j \in Jobs : JobRead(j)
  BY <1>3, TypedRead, ReadKeepsCron
<1>4. CASE \E j \in Jobs : JobWrite(j)
  BY <1>4, TypedWrite, WriteKeepsCron, EndKeepsCron
<1>5. CASE \E j \in Jobs : JobApply(j)
  BY <1>5, ApplyAtHead, TypedApply, ApplyKeepsCron
<1>6. CASE \E l \in Loops : CronFire(l) \/ TimerFire(l) \/ TickStep(l) \/ CatchUp(l)
  BY <1>6, TypedTick, LoadKeepsCron, TickKeepsCron DEF TickStep
<1>7. CASE \E l \in Loops : RunStarts(l) \/ RunEnds(l)
  BY <1>7, TypedRuns, TickKeepsCron
<1>8. CASE TimePasses
  BY <1>8, TypedTime, TimeKeepsCron
<1>9. CASE Restart
  BY <1>9, TypedRestart, RestartSetsCron
<1> QED BY <1>1, <1>2, <1>3, <1>4, <1>5, <1>6, <1>7, <1>8, <1>9 DEF Next

(***************************************************************************)
(* The missed occurrence.  While it is unanswered the loop is enabled, the *)
(* only handlers of its row are those of its owner, and what the boot      *)
(* sweep has still to look at is what the timer was armed with.            *)
(***************************************************************************)
MissedOn == \A l \in Loops : missed[l] => row[l].state = "on" /\ tick[l].pc \notin {"read", "arm"}

MissedJobs == \A j \in Jobs : missed[job[j].loop] /\ job[j].pc # "idle" =>
                /\ job[j].op \in {"patch", "now"}
                /\ job[j].pc = "apply" => job[j].op = "now" /\ job[j].seen.next = 0 /\ job[j].seen.state = "on"

MissedBoot == \A l \in boot.todo : missed[l] /\ boot.seen[l].next # None =>
                tick[l].pc # "idle" \/ timer[l] = boot.seen[l].next

MissedInv == MissedOn /\ MissedJobs /\ MissedBoot /\ MissedIsCaughtUp

LEMMA MissedInit == TimersConstantsOK /\ Init => MissedInv
<1> SUFFICES ASSUME TimersConstantsOK, Init PROVE MissedInv
  OBVIOUS
<1>1. /\ \A l \in Loops : ~missed[l]
      /\ \A j \in Jobs : job[j].pc = "idle"
      /\ boot.todo = {}
  BY Basics DEF Init
<1> QED BY <1>1 DEF MissedInv, MissedOn, MissedJobs, MissedBoot, MissedIsCaughtUp

\* Steps in which the missed occurrences only get fewer, and that leave to those there
\* are what they wait for.
LEMMA MissedCalm ==
  ASSUME TypeOK, MissedInv,
         \A l \in Loops : missed'[l] =>
           /\ missed[l]
           /\ row'[l].state = row[l].state
           /\ tick'[l].pc \notin {"read", "arm"} \/ tick'[l] = tick[l]
           /\ \/ timer'[l] = timer[l] /\ (tick[l].pc # "idle" => tick'[l].pc # "idle")
              \/ tick'[l].pc # "idle"
           /\ l \in boot.todo => l \in boot'.todo,
         boot' = boot,
         \A k \in Jobs : missed'[job'[k].loop] /\ job'[k].pc # "idle" =>
           \/ job'[k] = job[k]
           \/ job'[k].op \in {"patch", "now"} /\ job'[k].pc # "apply"
           \/ job'[k].op = "now" /\ job'[k].seen.next = 0 /\ job'[k].seen.state = "on"
  PROVE  MissedInv'
<1>1. MissedOn'
  BY DEF MissedInv, MissedOn
<1>2. MissedIsCaughtUp'
  BY DEF MissedInv, MissedIsCaughtUp
<1>3. MissedBoot'
  <2>1. boot.todo \subseteq Loops
    BY DEF TypeOK
  <2> QED BY <2>1 DEF MissedInv, MissedBoot
<1>4. MissedJobs'
  <2>1. \A k \in Jobs : job[k].loop \in Loops
    BY DEF TypeOK, Job
  <2> QED BY <2>1 DEF MissedInv, MissedJobs
<1> QED BY <1>1, <1>2, <1>3, <1>4 DEF MissedInv

\* A handler that begins is the owner's, or it is a report's or a delete, which
\* answers the occurrence.
LEMMA BeginKeepsMissed ==
  ASSUME TimersConstantsOK, TypeOK, MissedInv, NEW j \in Jobs, NEW l \in Loops,
         JobBegin(j, l) \/ JobReport(j, l) \/ JobDelete(j, l)
  PROVE  MissedInv'
<1>1. PICK op \in Ops, pc \in {"read", "write"} :
        /\ Begin(j, l, op, pc)
        /\ missed'[l] => op \in {"patch", "now", "create"} /\ (op = "create" => row[l].state # "on")
  <2>1. CASE JobBegin(j, l)
    BY <2>1 DEF JobBegin, Ops
  <2>2. CASE JobReport(j, l)
    BY <2>2 DEF JobReport, Ops, TypeOK
  <2>3. CASE JobDelete(j, l)
    BY <2>3 DEF JobDelete, Ops, TypeOK
  <2> QED BY <2>1, <2>2, <2>3
<1>2. /\ job'[j].pc = pc /\ job'[j].op = op /\ job'[j].loop = l
      /\ \A k \in Jobs \ {j} : job'[k] = job[k]
  BY <1>1, BegunJob
<1>3. /\ row' = row /\ tick' = tick /\ boot' = boot
      /\ \A k \in Loops : missed'[k] => missed[k] /\ timer'[k] = timer[k]
  BY DEF JobBegin, JobReport, JobDelete, Unschedule, TypeOK, jobOnly
<1>4. \A k \in Loops : missed[k] => row[k].state = "on" /\ tick[k].pc \notin {"read", "arm"}
  BY DEF MissedInv, MissedOn
<1>5. missed'[l] => op \in {"patch", "now"}
  BY <1>1, <1>3, <1>4
<1> QED BY <1>2, <1>3, <1>4, <1>5, MissedCalm

LEMMA ReadKeepsMissed ==
  ASSUME TimersConstantsOK, TypeOK, CronInv, MissedInv, NEW j \in Jobs, JobRead(j)
  PROVE  MissedInv'
<1>1. /\ job[j].pc = "read" /\ job'[j].pc = "write" /\ job'[j].op = job[j].op /\ job'[j].loop = job[j].loop
      /\ \A k \in Jobs \ {j} : job'[k] = job[k]
  BY TypedRead DEF JobRead
<1>2. row' = row /\ tick' = tick /\ boot' = boot /\ missed' = missed /\ timer' = timer
  BY DEF JobRead, jobOnly
<1>3. job[j].op = "clear"
  BY <1>1 DEF CronInv, Births
<1>4. ~missed[job[j].loop]
  BY <1>1, <1>3 DEF MissedInv, MissedJobs
<1> QED BY <1>1, <1>2, <1>4, MissedCalm

\* Only a write of "now" can leave the occurrence missed: the others are the owner's,
\* who has changed the schedule.
LEMMA WriteKeepsMissed ==
  ASSUME TimersConstantsOK, TypeOK, CronInv, MissedInv, NEW j \in Jobs, JobWrite(j)
  PROVE  MissedInv'
<1> DEFINE l == job[j].loop
<1>1. /\ l \in Loops /\ job[j].op \in Ops /\ job[j].seen \in Row /\ row[l] \in Row /\ job[j].pc = "write"
      /\ row \in [Loops -> Row]
  BY DEF TypeOK, Job, JobWrite
<1>2. tick' = tick /\ boot' = boot /\ timer' = timer
  BY DEF JobWrite, jobOnly
<1>3. \A k \in Loops : missed[k] => row[k].state = "on" /\ tick[k].pc \notin {"read", "arm"}
  BY DEF MissedInv, MissedOn
<1>4. missed[l] => job[j].op \in {"patch", "now"}
  BY <1>1 DEF MissedInv, MissedJobs
<1>5. CASE Writes(j) /\ job[j].op # "delete"
  <2>1. PICK w \in Written(job[j].op, row[l], job[j].seen) :
        /\ row' = [row EXCEPT ![l] = w] /\ w \in Row
        /\ job'[j].pc = "apply" /\ job'[j].seen = w /\ job'[j].op = job[j].op /\ job'[j].loop = l
        /\ \A k \in Jobs \ {j} : job'[k] = job[k]
    BY <1>5, WrittenStep
  <2>2. missed' = [missed EXCEPT ![l] = @ /\ job[j].op \notin {"patch", "stop"}]
    BY <1>5 DEF JobWrite, Writes
  <2>3. /\ \A k \in Loops : missed'[k] => missed[k]
        /\ missed'[l] => job[j].op = "now" /\ w.next = 0 /\ w.state = row[l].state /\ row[l].state = "on"
    <3>1. missed \in [Loops -> BOOLEAN]
      BY DEF TypeOK
    <3>2. \A k \in Loops : missed'[k] => missed[k]
      BY <1>1, <2>2, <3>1
    <3>3. missed'[l] => job[j].op \notin {"patch", "stop"}
      BY <1>1, <2>2, <3>1
    <3>4. missed'[l] => job[j].op = "now" /\ row[l].state = "on"
      BY <1>1, <1>3, <1>4, <3>2, <3>3
    <3>5. job[j].op = "now" => w.next = 0 /\ w.state = row[l].state
      BY <1>1, WrittenRow
    <3> QED BY <3>2, <3>4, <3>5
  <2>4. \A k \in Loops : missed'[k] => row'[k].state = row[k].state
    BY <1>1, <2>1, <2>3
  <2> HIDE DEF l
  <2> QED BY <1>2, <1>3, <2>1, <2>3, <2>4, MissedCalm
<1>6. CASE ~Writes(j) \/ job[j].op = "delete"
  <2>1. /\ job'[j].pc = "idle" /\ \A k \in Jobs \ {j} : job'[k] = job[k]
        /\ row' = row \/ (row'[l].state = "gone" /\ \A k \in Loops \ {l} : row'[k] = row[k])
    BY <1>6, EndedStep
  <2>2. ~missed[l]
    <3>1. CASE job[j].op = "delete"
      BY <1>4, <3>1
    <3>2. CASE ~Writes(j)
      BY <1>1, <1>3, <3>2 DEF Writes, Stored
    <3> QED BY <1>6, <3>1, <3>2
  <2>3. \A k \in Loops : missed'[k] => missed[k]
    BY <1>1 DEF JobWrite, TypeOK
  <2>4. \A k \in Loops : missed'[k] => row'[k].state = row[k].state
    BY <1>1, <2>1, <2>2, <2>3
  <2> HIDE DEF l
  <2> QED BY <1>2, <1>3, <2>1, <2>3, <2>4, MissedCalm
<1> QED BY <1>5, <1>6

\* The continuation of a "now" starts a tick, if none is in flight.
LEMMA ApplyKeepsMissed ==
  ASSUME TimersConstantsOK, TypeOK, CronInv, MissedInv, NEW j \in Jobs, JobApply(j)
  PROVE  MissedInv'
<1> DEFINE l == job[j].loop
<1>1. /\ l \in Loops /\ job[j].seen \in Row /\ job[j].pc = "apply"
      /\ row' = row /\ boot' = boot /\ missed' = missed
      /\ tick \in [Loops -> Tick] /\ timer \in [Loops -> Shots \cup {None}]
  BY DEF TypeOK, Job, JobApply, jobOnly
<1>2. /\ \A k \in Loops : /\ tick'[k].pc \in {tick[k].pc, "load"}
                          /\ tick[k].pc # "idle" => tick'[k].pc = tick[k].pc
      /\ \A k \in Loops \ {l} : timer'[k] = timer[k]
      /\ job[j].seen.state = "on" /\ job[j].seen.next = 0 => tick'[l].pc # "idle"
  BY <1>1, AppliedTimers, ArmedTick
<1>3. missed[l] => job[j].op = "now" /\ job[j].seen.next = 0 /\ job[j].seen.state = "on"
  BY <1>1 DEF MissedInv, MissedJobs
<1>4. /\ \A k \in Jobs \ {j} : job'[k] = job[k]
      /\ job[j].op # "create" => job'[j].pc = "idle"
      /\ job[j].op = "create" => job'[j].pc = "write" /\ job'[j].op = "now" /\ job'[j].loop = l
  BY AppliedJob
<1>5. \A k \in Loops : missed[k] => row[k].state = "on" /\ tick[k].pc \notin {"read", "arm"}
  BY DEF MissedInv, MissedOn
<1> HIDE DEF l
<1>6. \A k \in Loops : missed'[k] => \/ timer'[k] = timer[k] /\ (tick[k].pc # "idle" => tick'[k].pc # "idle")
                                     \/ tick'[k].pc # "idle"
  BY <1>1, <1>2, <1>3
<1>7. \A k \in Loops : missed'[k] => tick'[k].pc \notin {"read", "arm"}
  BY <1>1, <1>2, <1>5
<1> QED BY <1>1, <1>4, <1>6, <1>7, MissedCalm

\* A tick that is in flight ends by answering, and one that has not begun begins.
LEMMA TickKeepsMissed ==
  ASSUME TimersConstantsOK, TypeOK, CronInv, MissedInv, NEW l \in Loops,
         CronFire(l) \/ TimerFire(l) \/ TickStep(l)
  PROVE  MissedInv'
<1>1. tick \in [Loops -> Tick] /\ timer \in [Loops -> Shots \cup {None}] /\ missed \in [Loops -> BOOLEAN]
      /\ row \in [Loops -> Row]
  BY DEF TypeOK
<1>2. \A k \in Loops : missed[k] => row[k].state = "on" /\ tick[k].pc \notin {"read", "arm"}
  BY DEF MissedInv, MissedOn
<1>3. CASE CronFire(l) \/ TimerFire(l)
  <2>1. tick' = Started(l) /\ row' = row /\ missed' = missed /\ boot' = boot /\ job' = job
    BY <1>3 DEF CronFire, TimerFire, tickOnly
  <2>2. \A k \in Loops \ {l} : timer'[k] = timer[k]
    BY <1>1, <1>3 DEF CronFire, TimerFire
  <2>3. /\ tick'[l].pc # "idle"
        /\ \A k \in Loops : /\ tick'[k].pc \in {tick[k].pc, "load"}
                            /\ tick[k].pc # "idle" => tick'[k].pc = tick[k].pc
    BY <1>1, <2>1, StartedTick
  <2> QED BY <1>2, <2>1, <2>2, <2>3, MissedCalm
<1>4. CASE TickStep(l)
  <2>1. /\ boot' = boot /\ job' = job
        /\ \A k \in Loops \ {l} : tick'[k] = tick[k] /\ timer'[k] = timer[k] /\ missed'[k] = missed[k]
        /\ \A k \in Loops : row'[k].state = row[k].state
    <3>1. boot' = boot /\ job' = job
      BY <1>4 DEF TickStep, TickLoad, TickOpen, TickConsume, TickAdd, TickRead, TickArm, tickOnly
    <3>2. \A k \in Loops \ {l} : tick'[k] = tick[k] /\ timer'[k] = timer[k] /\ missed'[k] = missed[k]
      BY <1>1, <1>4 DEF TickStep, TickLoad, TickOpen, TickConsume, TickAdd, TickRead, TickArm, TickTo, TickEnd, Unschedule
    <3>3. \A k \in Loops : row'[k].state = row[k].state
      <4>1. row' = row \/ row' = [row EXCEPT ![l] = [row[l] EXCEPT !.next = None]]
        BY <1>4 DEF TickStep, TickLoad, TickOpen, TickConsume, TickAdd, TickRead, TickArm
      <4> DEFINE r == [row[l] EXCEPT !.next = None]
      <4>2. r.state = row[l].state
        BY <1>1, RowSet
      <4>3. row' = row \/ row' = [row EXCEPT ![l] = r]
        BY <4>1
      <4> HIDE DEF r
      <4> QED BY <1>1, <4>2, <4>3
    <3> QED BY <3>1, <3>2, <3>3
  <2>2. \A pc \in {"open", "consume", "add", "read"} : [NoTick EXCEPT !.pc = pc].pc = pc
    BY Basics DEF NoTick
  <2>3. missed'[l] => missed[l] /\ tick'[l].pc \notin {"idle", "read", "arm"}
    <3>1. CASE TickLoad(l)
      <4>1. missed' = missed
        BY <3>1 DEF TickLoad
      <4>2. row[l].state = "on" => tick' = [tick EXCEPT ![l] = [pc |-> "open", seen |-> row[l]]]
        BY <3>1 DEF TickLoad, Stored
      <4> QED BY <1>1, <1>2, <4>1, <4>2
    <3>2. CASE TickOpen(l)
      <4>1. \/ missed' = [missed EXCEPT ![l] = FALSE]
            \/ missed' = missed /\ \E pc \in {"consume", "add"} : TickTo(l, pc)
        BY <3>2 DEF TickOpen
      <4> QED BY <1>1, <2>2, <4>1 DEF TickTo
    <3>3. CASE TickConsume(l)
      BY <1>1, <2>2, <3>3 DEF TickConsume, TickTo
    <3>4. CASE TickAdd(l)
      BY <1>1, <3>4 DEF TickAdd
    <3>5. CASE TickRead(l) \/ TickArm(l)
      BY <1>2, <3>5 DEF TickRead, TickArm
    <3> QED BY <1>4, <3>1, <3>2, <3>3, <3>4, <3>5 DEF TickStep
  <2> QED BY <1>2, <2>1, <2>3, MissedCalm
<1> QED BY <1>3, <1>4

\* The sweep of the boot ticks the loop, or stands down for a shot that does.
LEMMA SweepKeepsMissed ==
  ASSUME TimersConstantsOK, TypeOK, MissedInv, NEW l \in Loops, CatchUp(l)
  PROVE  MissedInv'
<1>1. /\ row' = row /\ missed' = missed /\ timer' = timer /\ job' = job /\ l \in boot.todo
      /\ tick \in [Loops -> Tick] /\ boot.todo \subseteq Loops
      /\ boot \in [todo : SUBSET Loops, seen : [Loops -> Row], at : Loops \cup {None}]
  BY DEF CatchUp, TypeOK
<1>2. boot'.todo = boot.todo \ {l} /\ \A k \in boot'.todo : boot'.seen[k] = boot.seen[k]
  <2>1. PICK a : boot' = [boot EXCEPT !.todo = @ \ {l}, !.seen[l] = NoRow, !.at = a]
    BY DEF CatchUp
  <2> QED BY <1>1, <2>1
<1>3. tick' = tick \/ tick' = Started(l)
  BY DEF CatchUp
<1>4. \A k \in Loops : /\ tick'[k].pc \in {tick[k].pc, "load"}
                       /\ tick[k].pc # "idle" => tick'[k].pc = tick[k].pc
  BY <1>1, <1>3, StartedTick
<1>5. missed[l] => tick'[l].pc # "idle" \/ timer[l] = 0
  <2>1. CASE missed[l] /\ boot.seen[l].next # 0
    <3>1. tick' = Started(l)
      BY <2>1 DEF CatchUp
    <3> QED BY <1>1, <3>1, StartedTick
  <2>2. CASE missed[l] /\ boot.seen[l].next = 0
    <3>1. boot.seen[l].next # None
      BY <2>2, Basics DEF Shots
    <3>2. tick[l].pc # "idle" \/ timer[l] = 0
      BY <1>1, <2>2, <3>1 DEF MissedInv, MissedBoot
    <3> QED BY <1>4, <3>2
  <2> QED BY <2>1, <2>2
<1>6. MissedOn'
  BY <1>1, <1>4 DEF MissedInv, MissedOn
<1>7. MissedJobs'
  BY <1>1 DEF MissedInv, MissedJobs
<1>8. MissedBoot'
  BY <1>1, <1>2, <1>4 DEF MissedInv, MissedBoot
<1>9. MissedIsCaughtUp'
  <2>1. ASSUME NEW k \in Loops, missed[k] PROVE k \in boot'.todo \/ tick'[k].pc # "idle" \/ timer[k] = 0
    BY <1>2, <1>4, <1>5, <2>1 DEF MissedInv, MissedIsCaughtUp
  <2> QED BY <1>1, <2>1 DEF MissedIsCaughtUp
<1> QED BY <1>6, <1>7, <1>8, <1>9 DEF MissedInv

LEMMA RunKeepsMissed ==
  ASSUME TypeOK, MissedInv, NEW l \in Loops, RunStarts(l) \/ RunEnds(l)
  PROVE  MissedInv'
<1>1. /\ row' = row /\ tick' = tick /\ boot' = boot /\ job' = job /\ timer' = timer
      /\ \A k \in Loops : missed'[k] => missed[k]
  BY DEF RunStarts, RunEnds, TypeOK
<1> QED BY <1>1, MissedCalm

\* Time passes for the timer and for what the sweep saw alike.
LEMMA TimeKeepsMissed ==
  ASSUME TimersConstantsOK, TypeOK, MissedInv, TimePasses
  PROVE  MissedInv'
<1>1. /\ row' = [l \in Loops |-> Aged(row[l])] /\ job' = [j \in Jobs |-> Older(job[j])]
      /\ tick' = [l \in Loops |-> Older(tick[l])] /\ timer' = [l \in Loops |-> Sooner(timer[l])]
      /\ missed' = missed
      /\ boot' = [boot EXCEPT !.seen = [l \in Loops |-> Aged(boot.seen[l])]]
  BY Time DEF TimePasses
<1>2. /\ \A l \in Loops : row'[l].state = row[l].state
      /\ \A l \in Loops : tick'[l].pc = tick[l].pc
      /\ \A l \in Loops : timer[l] = 0 => timer'[l] = 0
  BY <1>1, AgedRow, OlderCopy, SoonerShot DEF TypeOK
<1>3. \A k \in Jobs : /\ job'[k].pc = job[k].pc /\ job'[k].op = job[k].op /\ job'[k].loop = job[k].loop
                      /\ job'[k].seen = Aged(job[k].seen)
  BY <1>1, OlderCopy DEF TypeOK
<1>4. \A k \in Jobs : /\ job'[k].seen.state = job[k].seen.state
                      /\ job[k].seen.next = 0 => job'[k].seen.next = 0
  <2>1. \A k \in Jobs : job[k].seen \in Row /\ job[k].seen.next \in Shots \cup {None}
    BY DEF TypeOK, Job, Row
  <2> QED BY <1>3, <2>1, AgedRow, SoonerShot
<1>5. boot'.todo = boot.todo /\ \A l \in Loops : /\ boot.seen[l] \in Row /\ boot.seen[l].next \in Shots \cup {None}
                                                 /\ boot'.seen[l] = Aged(boot.seen[l])
  BY <1>1 DEF TypeOK, Row
<1>6. MissedOn'
  BY <1>1, <1>2 DEF MissedInv, MissedOn
<1>7. MissedJobs'
  BY <1>1, <1>3, <1>4 DEF MissedInv, MissedJobs
<1>8. MissedBoot'
  <2>1. ASSUME NEW l \in boot.todo, missed[l], boot'.seen[l].next # None
        PROVE  tick'[l].pc # "idle" \/ timer'[l] = boot'.seen[l].next
    <3>1. l \in Loops /\ boot'.seen[l].next = Sooner(boot.seen[l].next) /\ boot.seen[l].next # None
      BY <1>5, <2>1, AgedRow, SoonerShot DEF TypeOK
    <3>2. tick[l].pc # "idle" \/ timer[l] = boot.seen[l].next
      BY <2>1, <3>1 DEF MissedInv, MissedBoot
    <3> QED BY <1>1, <1>2, <3>1, <3>2
  <2> QED BY <1>1, <1>5, <2>1 DEF MissedBoot
<1>9. MissedIsCaughtUp'
  BY <1>1, <1>2, <1>5 DEF MissedInv, MissedIsCaughtUp
<1> QED BY <1>6, <1>7, <1>8, <1>9 DEF MissedInv

LEMMA RestartSetsMissed ==
  ASSUME TimersConstantsOK, TypeOK, Restart
  PROVE  MissedInv'
<1> DEFINE on == {l \in Loops : row[l].state = "on"}
<1>1. /\ row' = row /\ boot'.todo = on /\ \A l \in on : boot'.seen[l] = row[l]
      /\ \A l \in Loops : missed'[l] => l \in on
      /\ \A j \in Jobs : job'[j].pc = "idle"
      /\ \A l \in Loops : /\ timer'[l] = Shot(row[l])
                          /\ tick'[l].pc \in {"idle", "load"}
                          /\ l \in on /\ row[l].next = 0 => tick'[l].pc = "load"
  <2>1. [NoTick EXCEPT !.pc = "load"].pc = "load"
    BY DEF NoTick
  <2>2. row' = row /\ boot'.todo = on /\ \A l \in on : boot'.seen[l] = row[l]
    BY DEF Restart
  <2>3. \A l \in Loops : missed'[l] => l \in on
    BY DEF Restart
  <2>4. \A j \in Jobs : job'[j].pc = "idle"
    BY Basics DEF Restart
  <2>5. \A l \in Loops : /\ timer'[l] = Shot(row[l])
                         /\ tick'[l].pc \in {"idle", "load"}
                         /\ l \in on /\ row[l].next = 0 => tick'[l].pc = "load"
    BY <2>1, Basics DEF Restart
  <2> QED BY <2>2, <2>3, <2>4, <2>5
<1>2. \A l \in on : row[l].next # None /\ row[l].next # 0 => Shot(row[l]) = row[l].next
  BY DEF TypeOK, Row, Shot, Shots, Later
<1>3. MissedOn' /\ MissedJobs' /\ MissedIsCaughtUp'
  BY <1>1 DEF MissedOn, MissedJobs, MissedIsCaughtUp, TypeOK, Job
<1>4. MissedBoot'
  BY <1>1, <1>2 DEF MissedBoot
<1> QED BY <1>3, <1>4 DEF MissedInv

LEMMA MissedNext ==
  ASSUME TimersConstantsOK, TypeOK, CronInv, MissedInv, [Next]_vars
  PROVE  MissedInv'
<1>1. CASE UNCHANGED vars
  BY <1>1 DEF vars, MissedInv, MissedOn, MissedJobs, MissedBoot, MissedIsCaughtUp
<1>2. CASE \E j \in Jobs, l \in Loops : JobBegin(j, l) \/ JobReport(j, l) \/ JobDelete(j, l)
  BY <1>2, BeginKeepsMissed
<1>3. CASE \E j \in Jobs : JobRead(j) \/ JobWrite(j) \/ JobApply(j)
  BY <1>3, ReadKeepsMissed, WriteKeepsMissed, ApplyKeepsMissed
<1>4. CASE \E l \in Loops : CronFire(l) \/ TimerFire(l) \/ TickStep(l) \/ CatchUp(l)
  BY <1>4, TickKeepsMissed, SweepKeepsMissed
<1>5. CASE \E l \in Loops : RunStarts(l) \/ RunEnds(l)
  BY <1>5, RunKeepsMissed
<1>6. CASE TimePasses
  BY <1>6, TimeKeepsMissed
<1>7. CASE Restart
  BY <1>7, RestartSetsMissed
<1> QED BY <1>1, <1>2, <1>3, <1>4, <1>5, <1>6, <1>7 DEF Next

(***************************************************************************)
(* The invariants of the specification.                                    *)
(***************************************************************************)
LEMMA TimersInvariant ==
  ASSUME TimersConstantsOK
  PROVE  Spec => [](TypeOK /\ CronInv /\ MissedInv)
<1>1. Init => TypeOK /\ CronInv /\ MissedInv
  BY TypedInit, CronInit, MissedInit
<1>2. TypeOK /\ CronInv /\ MissedInv /\ [Next]_vars => (TypeOK /\ CronInv /\ MissedInv)'
  BY CronNext, MissedNext
<1> QED BY <1>1, <1>2, PTL DEF Spec

\* Rows, timers, ticks, handlers, continuations and the boot sweep keep their shapes:
\* in particular no continuation runs on an empty queue.
THEOREM TimersTyped ==
  ASSUME TimersConstantsOK
  PROVE  Spec => []TypeOK
BY TimersInvariant, PTL

\* The loop that no handler is busy with fires on the expression of its row, or not at
\* all if it is paused (addLoop and removeLoop of scheduler/index.ts after every write).
THEOREM CronAgrees ==
  ASSUME TimersConstantsOK
  PROVE  Spec => []CronMatchesRow
<1>1. ASSUME TypeOK, CronInv PROVE CronMatchesRow
  <2>1. \A l \in Loops : resumes[l] = <<>> => Len(resumes[l]) = 0
    OBVIOUS
  <2> QED BY <1>1, <2>1 DEF CronInv, Base, Kept, CronMatchesRow, Stored
<1> QED BY <1>1, TimersInvariant, PTL

\* An occurrence that fell into an outage is before the sweep, in a tick or about to be
\* (catchUpMissedFire), whatever the owner, the reports and the clock do meanwhile.
THEOREM MissedAnswered ==
  ASSUME TimersConstantsOK
  PROVE  Spec => []MissedIsCaughtUp
<1>1. MissedInv => MissedIsCaughtUp
  BY DEF MissedInv
<1> QED BY <1>1, TimersInvariant, PTL
===============================================================================
