---------------------------- MODULE LongPollProofs ----------------------------
(***************************************************************************)
(* No wake-up is lost and presence is kept, for any number of requests and *)
(* runs, any number of faults, and every choice of the periods under which *)
(* a heartbeat and a hold fit into the time a machine counts as online.    *)
(***************************************************************************)
EXTENDS LongPoll, TLAPS

(***************************************************************************)
(* Shapes.                                                                 *)
(***************************************************************************)
LEMMA Periods ==
  PollConstantsOK =>
    /\ WaitFor \in Nat /\ OnlineTtl \in Nat /\ Refresh \in Nat /\ CacheTtl \in Nat /\ Patience \in Nat
    /\ MaxEdits \in Nat /\ MaxFaults \in Nat
    /\ 1 <= WaitFor /\ 1 <= Patience /\ Refresh + WaitFor <= OnlineTtl
BY DEF PollConstantsOK

(* A request moves on in its own slot; waking one changes how it settled. *)
LEMMA IdleIsRequest == PollConstantsOK => Idle \in Request /\ Idle.pc = "idle" /\ Idle.settled = "over"
BY DEF PollConstantsOK, Idle, Request, Pass, Settled, Known

LEMMA SlotTyped ==
  ASSUME req \in [Requests -> Request], NEW q \in Requests, NEW s \in Request, req' = [req EXCEPT ![q] = s]
  PROVE  req' \in [Requests -> Request]
OBVIOUS

LEMMA SettledTyped ==
  ASSUME NEW rs \in [Requests -> Request], NEW q \in Requests, NEW how \in Settled
  PROVE  SettledBy(q, how, rs) \in [Requests -> Request]
<1>1. [rs[q] EXCEPT !.settled = how] \in Request
  BY DEF Request
<1> QED BY <1>1 DEF SettledBy

LEMMA GoesTo ==
  ASSUME req \in [Requests -> Request], NEW q \in Requests, NEW pc \in Pass \cup {"idle", "park", "restamp", "answer"},
         Goto(q, pc)
  PROVE  /\ req' \in [Requests -> Request]
         /\ req'[q].pc = pc /\ req'[q].settled = req[q].settled /\ req'[q].held = req[q].held
         /\ req'[q].list = req[q].list
         /\ \A o \in Requests \ {q} : req'[o] = req[o]
<1>1. [req[q] EXCEPT !.pc = pc] \in Request
  BY DEF Request
<1>2. req' = [req EXCEPT ![q] = [req[q] EXCEPT !.pc = pc]]
  BY DEF Goto
<1> QED BY <1>1, <1>2 DEF Request

(* Waking leaves every request as it was but for the waiter, which is settled then. *)
LEMMA WokenTyped ==
  ASSUME TypeOK
  PROVE  /\ Woken(req) \in [Requests -> Request]
         /\ \A q \in Requests :
              /\ Woken(req)[q].pc = req[q].pc /\ Woken(req)[q].held = req[q].held /\ Woken(req)[q].list = req[q].list
              /\ q # waiter => Woken(req)[q] = req[q]
         /\ waiter \in Requests => Woken(req)[waiter].settled # "no"
<1>1. CASE waiter = None \/ waiter \notin Requests
  <2>1. req \in [Requests -> Request] /\ waiter \in Requests \cup {None}
    BY DEF TypeOK
  <2>2. CASE waiter = None /\ waiter \notin Requests
    BY <2>1, <2>2 DEF Woken
  <2> QED BY <1>1, <2>1, <2>2, PollConstantsOK DEF PollConstantsOK
<1>2. CASE waiter \in Requests /\ waiter # None
  <2>1. req \in [Requests -> Request] /\ "woken" \in Settled
    BY DEF TypeOK, Settled
  <2>2. [req[waiter] EXCEPT !.settled = "woken"] \in Request
    BY <1>2, <2>1 DEF Request
  <2>3. Woken(req) = IF req[waiter].settled = "no"
                     THEN [req EXCEPT ![waiter] = [req[waiter] EXCEPT !.settled = "woken"]] ELSE req
    BY <1>2 DEF Woken, SettledBy
  <2> QED BY <1>2, <2>1, <2>2, <2>3 DEF Request
<1> QED BY <1>1, <1>2

LEMMA TypedInit == PollConstantsOK /\ Init => TypeOK
<1> SUFFICES ASSUME PollConstantsOK, Init PROVE TypeOK
  OBVIOUS
<1>1. req \in [Requests -> Request]
  BY IdleIsRequest DEF Init
<1>2. daemon \in Daemon
  BY Periods DEF Init, Started, Daemon, Known
<1>3. cache \in [watch : Known, age : 0..CacheTtl + 1]
  BY Periods DEF Init, NoCache, Known
<1>4. bound \in Versions /\ seen \in 0..OnlineTtl + 1 /\ faults \in 0..MaxFaults
  BY Periods DEF Init, Versions
<1> QED BY <1>1, <1>2, <1>3, <1>4 DEF Init, TypeOK

LEMMA TypedStep ==
  ASSUME PollConstantsOK, TypeOK, [Next]_vars
  PROVE  TypeOK'
<1>0. req \in [Requests -> Request] /\ daemon \in Daemon /\ cache \in [watch : Known, age : 0..CacheTtl + 1]
  BY DEF TypeOK
<1>c. /\ WaitFor \in Nat /\ OnlineTtl \in Nat /\ CacheTtl \in Nat /\ Patience \in Nat /\ 1 <= Patience
      /\ MaxEdits \in Nat /\ MaxFaults \in Nat
  BY Periods
<1>1. ASSUME NEW r \in Runs, Dispatch(r) PROVE TypeOK'
  BY <1>1, WokenTyped DEF Dispatch, TypeOK
<1>2. ASSUME NEW r \in Runs, GoesPending(r) PROVE TypeOK'
  BY <1>2 DEF GoesPending, TypeOK
<1>3. ASSUME NEW q \in Requests, Send(q) PROVE TypeOK'
  <2> DEFINE wait == daemon.inFlight = {}
             s == [Idle EXCEPT !.pc = "stamp", !.wait = wait, !.echo = daemon.digest,
                               !.settled = IF wait THEN "no" ELSE "over"]
             rs == IF wait THEN Armed(q, req) ELSE req
  <2>1. s \in Request
    BY <1>0, IdleIsRequest DEF Request, Daemon, Pass, Settled
  <2>2. rs \in [Requests -> Request]
    <3>1. [Woken(req)[q] EXCEPT !.settled = "no"] \in Request
      BY WokenTyped DEF Request, Settled
    <3>2. Armed(q, req) = [Woken(req) EXCEPT ![q] = [Woken(req)[q] EXCEPT !.settled = "no"]]
      BY DEF Armed
    <3> QED BY <1>0, <3>1, <3>2, WokenTyped
  <2>3. req' = [rs EXCEPT ![q] = s]
    BY <1>3 DEF Send
  <2> HIDE DEF rs, s
  <2>4. req' \in [Requests -> Request]
    BY <2>1, <2>2, <2>3
  <2>5. daemon' \in Daemon
    <3>1. daemon' = [daemon EXCEPT !.pc = "call", !.call = q, !.age = 0]
      BY <1>3 DEF Send
    <3>2. 0 \in 0..Patience /\ q \in Requests \cup {None}
      BY <1>c
    <3> QED BY <1>0, <3>1, <3>2 DEF Daemon
  <2>6. waiter' \in Requests \cup {None}
    BY <1>3 DEF Send, TypeOK
  <2> QED BY <1>3, <2>4, <2>5, <2>6 DEF Send, TypeOK, others
<1>4. ASSUME NEW q \in Requests, Answer(q) PROVE TypeOK'
  <2>1. req' \in [Requests -> Request]
    BY <1>0, <1>4, IdleIsRequest DEF Answer
  <2>2. daemon' \in Daemon
    <3>1. req[q] \in Request
      BY <1>0
    <3>2. Applied(daemon, req[q]) \in Daemon
      BY <1>0, <3>1 DEF Applied, Daemon, Request
    <3>3. ASSUME NEW pause \in Pauses PROVE Asleep(Applied(daemon, req[q]), pause) \in Daemon
      <4>1. pause \in 0..Patience
        BY <1>c DEF Pauses
      <4> HIDE DEF Applied
      <4> QED BY <3>2, <4>1 DEF Asleep, Daemon
    <3> QED BY <1>0, <1>4, <3>3 DEF Answer
  <2>3. waiter' \in Requests \cup {None} /\ clean' \in BOOLEAN
    BY <1>4 DEF Answer, WithoutEntry, TypeOK
  <2> QED BY <1>4, <2>1, <2>2, <2>3 DEF Answer, TypeOK, others
<1>5. ASSUME GiveUp PROVE TypeOK'
  <2>1. ASSUME NEW pause \in Pauses PROVE Asleep(daemon, pause) \in Daemon
    <3>1. pause \in 0..Patience
      BY <1>c DEF Pauses
    <3> QED BY <1>0, <3>1 DEF Asleep, Daemon
  <2> QED BY <1>5, <2>1 DEF GiveUp, TypeOK, others
<1>6. ASSUME PauseOver \/ StartDaemon \/ DaemonDies \/ LoseConnection PROVE TypeOK'
  <2>1. daemon' \in Daemon
    BY <1>0, <1>6, <1>c DEF PauseOver, StartDaemon, DaemonDies, LoseConnection, Daemon, Started, Known
  <2>2. faults' \in 0..MaxFaults
    BY <1>6, <1>c DEF PauseOver, StartDaemon, DaemonDies, LoseConnection, TypeOK
  <2> QED BY <1>6, <2>1, <2>2 DEF PauseOver, StartDaemon, DaemonDies, LoseConnection, TypeOK, others
<1>7. ASSUME NEW r \in Runs, RunEnds(r) PROVE TypeOK'
  <2>1. daemon' \in Daemon
    BY <1>0, <1>7 DEF RunEnds, Daemon
  <2> QED BY <1>7, <2>1 DEF RunEnds, TypeOK
<1>8. ASSUME NEW q \in Requests, Stamp(q) \/ Restamp(q) PROVE TypeOK'
  <2>1. req' \in [Requests -> Request]
    BY <1>0, <1>8, GoesTo DEF Stamp, Restamp, Pass
  <2>2. seen' \in 0..OnlineTtl + 1 /\ online' \in BOOLEAN
    <3>1. 0 \in 0..OnlineTtl + 1
      BY <1>c
    <3> QED BY <1>8, <3>1 DEF Stamp, Restamp, Stamped, TypeOK
  <2> QED BY <1>8, <2>1, <2>2 DEF Stamp, Restamp, TypeOK
<1>9. ASSUME NEW q \in Requests, List(q) PROVE TypeOK'
  <2>1. [req[q] EXCEPT !.pc = "claim", !.list = {r \in Runs : run[r] = "pending"}] \in Request
    BY <1>0 DEF Request, Pass
  <2>2. req' = [req EXCEPT ![q] = [req[q] EXCEPT !.pc = "claim", !.list = {r \in Runs : run[r] = "pending"}]]
    BY <1>9 DEF List
  <2>3. req' \in [Requests -> Request]
    BY <1>0, <2>1, <2>2, SlotTyped
  <2> QED BY <1>9, <2>3 DEF List, TypeOK, others
<1>10. ASSUME NEW q \in Requests, Claim(q) PROVE TypeOK'
  <2>1. CASE req[q].list = {}
    <3>1. req' \in [Requests -> Request]
      BY <1>0, <1>10, <2>1, GoesTo DEF Claim, Pass
    <3> QED BY <1>10, <2>1, <3>1 DEF Claim, TypeOK
  <2>2. CASE req[q].list # {}
    <3>1. PICK r \in req[q].list :
            LET won == run[r] = "pending" IN
            /\ run' = IF won THEN [run EXCEPT ![r] = "running"] ELSE run
            /\ req' = [req EXCEPT ![q] = [req[q] EXCEPT !.list = @ \ {r}, !.got = IF won THEN @ \cup {r} ELSE @]]
      BY <1>10, <2>2 DEF Claim
    <3>2. r \in Runs
      BY <1>0 DEF Request
    <3>3. [req[q] EXCEPT !.list = @ \ {r}, !.got = IF run[r] = "pending" THEN @ \cup {r} ELSE @] \in Request
      BY <1>0, <3>2 DEF Request
    <3>4. req' \in [Requests -> Request] /\ run' \in [Runs -> {"none", "pending", "running", "over"}]
      BY <1>0, <3>1, <3>2, <3>3, SlotTyped DEF TypeOK
    <3> QED BY <1>10, <3>4 DEF Claim, TypeOK
  <2> QED BY <2>1, <2>2
<1>11. ASSUME NEW q \in Requests, Watch(q) PROVE TypeOK'
  <2>1. [req[q] EXCEPT !.pc = AfterPass(q), !.digest = cache.watch] \in Request
    BY <1>0 DEF Request, AfterPass
  <2>2. req' \in [Requests -> Request]
    BY <1>0, <1>11, <2>1, GoesTo DEF Watch, Pass
  <2> QED BY <1>11, <2>2 DEF Watch, TypeOK, others
<1>12. ASSUME NEW q \in Requests, Load(q) PROVE TypeOK'
  <2>1. [req[q] EXCEPT !.pc = "store", !.read = bound] \in Request
    <3>1. bound \in Known
      BY DEF Known, TypeOK
    <3> QED BY <1>0, <3>1 DEF Request, Pass
  <2> QED BY <1>12, <2>1 DEF Load, TypeOK, others
<1>13. ASSUME NEW q \in Requests, Store(q) PROVE TypeOK'
  <2>1. [req[q] EXCEPT !.pc = AfterPass(q), !.digest = req[q].read] \in Request
    BY <1>0 DEF Request, AfterPass
  <2>2. cache' \in [watch : Known, age : 0..CacheTtl + 1]
    BY <1>0, <1>13, <1>c DEF Store, Request
  <2> QED BY <1>13, <2>1, <2>2 DEF Store, TypeOK
<1>14. ASSUME NEW q \in Requests, Expire(q) PROVE TypeOK'
  BY <1>0, <1>14, SettledTyped DEF Expire, TypeOK, others, WithoutEntry, Settled
<1>15. ASSUME NEW q \in Requests, Resume(q) PROVE TypeOK'
  <2>1. /\ [req[q] EXCEPT !.pc = "stamp", !.again = TRUE] \in Request
        /\ [req[q] EXCEPT !.pc = "restamp"] \in Request
    BY <1>0 DEF Request, Pass
  <2> QED BY <1>15, <2>1 DEF Resume, TypeOK, others
<1>16. ASSUME EditLoop PROVE TypeOK'
  <2>1. NoCache \in [watch : Known, age : 0..CacheTtl + 1]
    BY <1>c DEF NoCache, Known
  <2> QED BY <1>16, <1>c, <2>1 DEF EditLoop, TypeOK, Versions
<1>17. ASSUME SweepReads \/ SweepMarks PROVE TypeOK'
  BY <1>17 DEF SweepReads, SweepMarks, TypeOK
<1>18. ASSUME ServerRestart PROVE TypeOK'
  <2>1. req' \in [Requests -> Request]
    BY <1>18, IdleIsRequest DEF ServerRestart
  <2>2. cache' \in [watch : Known, age : 0..CacheTtl + 1] /\ daemon' \in Daemon
    BY <1>0, <1>18, <1>c DEF ServerRestart, NoCache, Known, Daemon
  <2>3. faults' \in 0..MaxFaults
    BY <1>18, <1>c DEF ServerRestart, TypeOK
  <2> QED BY <1>18, <2>1, <2>2, <2>3 DEF ServerRestart, TypeOK
<1>19. ASSUME Tick PROVE TypeOK'
  <2>1. ASSUME NEW q \in Requests, req[q].pc = "park" PROVE [req[q] EXCEPT !.held = @ + 1] \in Request
    <3>1. req[q] \in Request /\ req[q].held # WaitFor
      BY <1>0, <1>19, <2>1 DEF Tick, Due
    <3>2. req[q].held + 1 \in 0..WaitFor
      BY <1>c, <3>1 DEF Request
    <3> QED BY <3>1, <3>2 DEF Request
  <2>2. req' \in [Requests -> Request]
    BY <1>0, <1>19, <2>1 DEF Tick
  <2>3. seen' \in 0..OnlineTtl + 1
    BY <1>19, <1>c DEF Tick, TypeOK, UpTo
  <2>4. cache' \in [watch : Known, age : 0..CacheTtl + 1]
    BY <1>0, <1>19, <1>c DEF Tick, UpTo
  <2>5. daemon' \in Daemon
    <3>1. daemon.age \in 0..Patience
      BY <1>0 DEF Daemon
    <3>2. CASE daemon.pc = "call"
      <4>1. daemon.age + 1 \in 0..Patience
        BY <1>19, <1>c, <3>1, <3>2 DEF Tick, Due
      <4> QED BY <1>0, <1>19, <3>2, <4>1 DEF Tick, Daemon
    <3>3. CASE daemon.pc = "sleep"
      <4>1. daemon.age - 1 \in 0..Patience
        BY <1>19, <1>c, <3>1, <3>3 DEF Tick, Due
      <4> QED BY <1>0, <1>19, <3>3, <4>1 DEF Tick, Daemon
    <3> QED BY <1>0, <1>19, <3>2, <3>3 DEF Tick
  <2> QED BY <1>19, <2>2, <2>3, <2>4, <2>5 DEF Tick, TypeOK
<1>20. ASSUME UNCHANGED vars PROVE TypeOK'
  BY <1>20 DEF vars, TypeOK
<1> QED
  BY <1>1, <1>2, <1>3, <1>4, <1>5, <1>6, <1>7, <1>8, <1>9, <1>10, <1>11, <1>12, <1>13, <1>14, <1>15, <1>16, <1>17,
     <1>18, <1>19, <1>20
     DEF Next, HandlerStep, DaemonStep

(***************************************************************************)
(* No lost wake-up.  Inductive with two facts: the waiter is the one       *)
(* request that nobody has settled, and a run that goes pending before the *)
(* request has looked is still ahead of it, to be listed or claimed.       *)
(***************************************************************************)
WaiterUnsettled == \A q \in Requests : req[q].settled = "no" <=> waiter = q
IdleSettled == \A q \in Requests : req[q].pc = "idle" => req[q].settled # "no"
Ahead(q, r) == req[q].pc \in {"stamp", "list"} \/ (req[q].pc = "claim" /\ r \in req[q].list)
Foreseen == \A r \in Runs \ undispatched, q \in Requests :
               run[r] = "pending" /\ req[q].settled = "no" => Ahead(q, r)

WaitInv == TypeOK /\ WaiterUnsettled /\ IdleSettled /\ Foreseen

LEMMA WaitInit == PollConstantsOK /\ Init => WaitInv
<1> SUFFICES ASSUME PollConstantsOK, Init PROVE WaitInv
  OBVIOUS
<1>1. \A q \in Requests : req[q].pc = "idle" /\ req[q].settled = "over" /\ waiter # q
  BY IdleIsRequest DEF Init, PollConstantsOK
<1> QED BY <1>1, TypedInit DEF WaitInv, WaiterUnsettled, IdleSettled, Foreseen

LEMMA WaitStep ==
  ASSUME PollConstantsOK, WaitInv, [Next]_vars
  PROVE  WaitInv'
<1> DEFINE Inv == WaiterUnsettled /\ IdleSettled /\ Foreseen
<1>0. TypeOK /\ TypeOK' /\ req \in [Requests -> Request] /\ req' \in [Requests -> Request] /\ Inv
  BY TypedStep DEF WaitInv, TypeOK
<1>n. None \notin Requests
  BY DEF PollConstantsOK
\* What concerns neither requests nor runs.
<1>1. ASSUME UNCHANGED <<waiter, req, run, undispatched>> PROVE Inv'
  BY <1>0, <1>1 DEF WaiterUnsettled, IdleSettled, Foreseen, Ahead
\* A request that moves on, settled as it was.
<1>2. ASSUME UNCHANGED <<waiter, run, undispatched>>, NEW q \in Requests,
             \A o \in Requests \ {q} : req'[o] = req[o],
             req'[q].settled = req[q].settled, req'[q].pc # "idle",
             req[q].settled = "no" =>
               \A r \in Runs \ undispatched : run[r] = "pending" /\ Ahead(q, r) => Ahead(q, r)'
      PROVE  Inv'
  <2>1. WaiterUnsettled'
    BY <1>0, <1>2 DEF WaiterUnsettled
  <2>2. IdleSettled'
    BY <1>0, <1>2 DEF IdleSettled
  <2>3. \A o \in Requests \ {q} : \A r \in Runs : Ahead(o, r)' <=> Ahead(o, r)
    BY <1>2 DEF Ahead
  <2>4. Foreseen'
    BY <1>0, <1>2, <2>3 DEF Foreseen
  <2> QED BY <2>1, <2>2, <2>4
<1>3. ASSUME NEW r \in Runs, Dispatch(r) PROVE Inv'
  <2>1. waiter' = None /\ req' = Woken(req)
    BY <1>3 DEF Dispatch
  <2>2. \A q \in Requests : req'[q].settled # "no" /\ req'[q].pc = req[q].pc
    BY <1>0, <2>1, WokenTyped DEF WaiterUnsettled
  <2> QED BY <1>n, <2>1, <2>2 DEF WaiterUnsettled, IdleSettled, Foreseen
<1>4. ASSUME NEW r \in Runs, GoesPending(r) PROVE Inv'
  <2>1. UNCHANGED <<waiter, req>> /\ undispatched' = undispatched \cup {r}
        /\ \A o \in Runs \ {r} : run'[o] = run[o]
    BY <1>0, <1>4 DEF GoesPending, TypeOK
  <2> QED BY <1>0, <2>1 DEF WaiterUnsettled, IdleSettled, Foreseen, Ahead
<1>5. ASSUME NEW r \in Runs, RunEnds(r) PROVE Inv'
  <2>1. UNCHANGED <<waiter, req, undispatched>> /\ run'[r] # "pending" /\ \A o \in Runs \ {r} : run'[o] = run[o]
    BY <1>0, <1>5 DEF RunEnds, TypeOK
  <2> QED BY <1>0, <2>1 DEF WaiterUnsettled, IdleSettled, Foreseen, Ahead
<1>6. ASSUME NEW q \in Requests, Send(q) PROVE Inv'
  <2> DEFINE wait == daemon.inFlight = {}
             s == [Idle EXCEPT !.pc = "stamp", !.wait = wait, !.echo = daemon.digest,
                               !.settled = IF wait THEN "no" ELSE "over"]
  <2>1. s.pc = "stamp" /\ s.settled = IF wait THEN "no" ELSE "over"
    BY DEF Idle
  <2>2. UNCHANGED <<run, undispatched>> /\ req[q].pc = "idle"
    BY <1>6 DEF Send, others
  <2>3. CASE wait
    <3>1. waiter' = q /\ req' = [Armed(q, req) EXCEPT ![q] = s]
      BY <1>6, <2>3 DEF Send
    <3> HIDE DEF s, wait
    <3>2. req'[q] = s /\ \A o \in Requests \ {q} : req'[o] = Woken(req)[o]
      BY <3>1, WokenTyped, <1>0 DEF Armed
    <3>3. \A o \in Requests \ {q} : req'[o].settled # "no" /\ req'[o].pc = req[o].pc
      BY <1>0, <3>2, WokenTyped DEF WaiterUnsettled
    <3> QED BY <2>1, <2>3, <3>1, <3>2, <3>3 DEF WaiterUnsettled, IdleSettled, Foreseen, Ahead
  <2>4. CASE ~wait
    <3>1. waiter' = waiter /\ req' = [req EXCEPT ![q] = s]
      BY <1>6, <2>4 DEF Send
    <3> HIDE DEF s, wait
    <3>2. req'[q] = s /\ \A o \in Requests \ {q} : req'[o] = req[o]
      BY <1>0, <3>1
    <3>3. waiter # q
      BY <1>0, <2>2 DEF WaiterUnsettled, IdleSettled
    <3> QED BY <1>0, <2>1, <2>2, <2>4, <3>1, <3>2, <3>3 DEF WaiterUnsettled, IdleSettled, Foreseen, Ahead
  <2> QED BY <2>3, <2>4
\* A request that is over, or answers, gives its entry up.
<1>7. ASSUME NEW q \in Requests, UNCHANGED <<run, undispatched>>, waiter' = WithoutEntry(q, waiter),
             \A o \in Requests \ {q} : req'[o] = req[o], req'[q].settled # "no"
      PROVE  Inv'
  BY <1>0, <1>7, <1>n DEF WithoutEntry, WaiterUnsettled, IdleSettled, Foreseen, Ahead
<1>8. ASSUME NEW q \in Requests, Answer(q) PROVE Inv'
  <2>1. req' = [req EXCEPT ![q] = Idle]
    BY <1>8 DEF Answer
  <2>2. req'[q].settled # "no" /\ \A o \in Requests \ {q} : req'[o] = req[o]
    BY <1>0, <2>1, IdleIsRequest
  <2> QED BY <1>7, <1>8, <2>2 DEF Answer, others
<1>9. ASSUME NEW q \in Requests, Expire(q) PROVE Inv'
  <2>1. req' = [req EXCEPT ![q] = [req[q] EXCEPT !.settled = "over"]]
    BY <1>9 DEF Expire, SettledBy
  <2>2. req'[q].settled # "no" /\ \A o \in Requests \ {q} : req'[o] = req[o]
    BY <1>0, <2>1 DEF Request
  <2> QED BY <1>7, <1>9, <2>2 DEF Expire, others
<1>10. ASSUME NEW q \in Requests, Stamp(q) \/ Restamp(q) PROVE Inv'
  <2>1. CASE Stamp(q)
    <3>1. Goto(q, "list") /\ UNCHANGED <<waiter, run, undispatched>>
      BY <2>1 DEF Stamp
    <3>2. /\ req'[q].pc = "list" /\ req'[q].settled = req[q].settled
          /\ \A o \in Requests \ {q} : req'[o] = req[o]
      BY <1>0, <3>1, GoesTo DEF Pass
    <3> QED BY <1>2, <3>1, <3>2 DEF Ahead
  <2>2. CASE Restamp(q)
    <3>1. Goto(q, "answer") /\ req[q].pc = "restamp" /\ UNCHANGED <<waiter, run, undispatched>>
      BY <2>2 DEF Restamp
    <3>2. /\ req'[q].pc = "answer" /\ req'[q].settled = req[q].settled
          /\ \A o \in Requests \ {q} : req'[o] = req[o]
      BY <1>0, <3>1, GoesTo DEF Pass
    <3> QED BY <1>2, <3>1, <3>2 DEF Ahead
  <2> QED BY <1>10, <2>1, <2>2
<1>11. ASSUME NEW q \in Requests, List(q) PROVE Inv'
  <2>1. req' = [req EXCEPT ![q] = [req[q] EXCEPT !.pc = "claim", !.list = {r \in Runs : run[r] = "pending"}]]
        /\ UNCHANGED <<waiter, run, undispatched>>
    BY <1>11 DEF List, others
  <2>2. /\ req'[q].pc = "claim" /\ req'[q].settled = req[q].settled /\ req'[q].list = {r \in Runs : run[r] = "pending"}
        /\ \A o \in Requests \ {q} : req'[o] = req[o]
    BY <1>0, <2>1 DEF Request
  <2> QED BY <1>2, <2>1, <2>2 DEF Ahead
<1>12. ASSUME NEW q \in Requests, Claim(q) PROVE Inv'
  <2>1. CASE req[q].list = {}
    <3>1. Goto(q, "watch") /\ req[q].pc = "claim" /\ UNCHANGED <<waiter, run, undispatched>>
      BY <1>12, <2>1 DEF Claim
    <3>2. /\ req'[q].pc = "watch" /\ req'[q].settled = req[q].settled
          /\ \A o \in Requests \ {q} : req'[o] = req[o]
      BY <1>0, <3>1, GoesTo DEF Pass
    <3> QED BY <1>2, <2>1, <3>1, <3>2 DEF Ahead
  <2>2. CASE req[q].list # {}
    <3>1. PICK r \in req[q].list :
            LET won == run[r] = "pending" IN
            /\ run' = IF won THEN [run EXCEPT ![r] = "running"] ELSE run
            /\ req' = [req EXCEPT ![q] = [req[q] EXCEPT !.list = @ \ {r}, !.got = IF won THEN @ \cup {r} ELSE @]]
      BY <1>12, <2>2 DEF Claim
    <3>2. r \in Runs /\ req[q].pc = "claim" /\ UNCHANGED <<waiter, undispatched>>
      BY <1>0, <1>12 DEF Request, Claim
    <3>3. run'[r] # "pending" /\ \A o \in Runs \ {r} : run'[o] = run[o]
      BY <1>0, <3>1, <3>2 DEF TypeOK
    <3>4. /\ req'[q].pc = "claim" /\ req'[q].settled = req[q].settled /\ req'[q].list = req[q].list \ {r}
          /\ \A o \in Requests \ {q} : req'[o] = req[o]
      BY <1>0, <3>1, <3>2 DEF Request
    <3>5. \A u \in Runs \ {r}, o \in Requests : Ahead(o, u) => Ahead(o, u)'
      BY <3>2, <3>4 DEF Ahead
    <3>6. Foreseen'
      BY <1>0, <3>2, <3>3, <3>4, <3>5 DEF Foreseen
    <3> QED BY <1>0, <3>2, <3>4, <3>6 DEF WaiterUnsettled, IdleSettled
  <2> QED BY <2>1, <2>2
<1>13. ASSUME NEW q \in Requests, Watch(q) \/ Load(q) \/ Store(q) PROVE Inv'
  <2>1. UNCHANGED <<waiter, run, undispatched>> /\ req[q].pc \in {"watch", "load", "store"}
    BY <1>13 DEF Watch, Load, Store, others
  <2>2. /\ req'[q].pc \in {"load", "store", "park", "answer"} /\ req'[q].settled = req[q].settled
        /\ \A o \in Requests \ {q} : req'[o] = req[o]
    BY <1>0, <1>13, GoesTo DEF Watch, Load, Store, Request, Pass, AfterPass
  <2> QED BY <1>2, <2>1, <2>2 DEF Ahead
<1>14. ASSUME NEW q \in Requests, Resume(q) PROVE Inv'
  <2>1. UNCHANGED <<waiter, run, undispatched>> /\ req[q].settled # "no"
    BY <1>14 DEF Resume, others
  <2>2. /\ req'[q].pc \in {"stamp", "restamp"} /\ req'[q].settled = req[q].settled
        /\ \A o \in Requests \ {q} : req'[o] = req[o]
    BY <1>0, <1>14 DEF Resume, Request
  <2> QED BY <1>2, <2>1, <2>2
<1>15. ASSUME ServerRestart PROVE Inv'
  <2>1. waiter' = None /\ \A q \in Requests : req'[q].settled = "over"
    BY <1>15, IdleIsRequest DEF ServerRestart
  <2> QED BY <1>n, <2>1 DEF WaiterUnsettled, IdleSettled, Foreseen
<1>16. ASSUME Tick PROVE Inv'
  <2>1. UNCHANGED <<waiter, run, undispatched>>
    BY <1>16 DEF Tick
  <2>2. \A q \in Requests : req'[q].pc = req[q].pc /\ req'[q].settled = req[q].settled /\ req'[q].list = req[q].list
    BY <1>0, <1>16 DEF Tick, Request
  <2> QED BY <1>0, <2>1, <2>2 DEF WaiterUnsettled, IdleSettled, Foreseen, Ahead
<1>17. ASSUME GiveUp \/ PauseOver \/ StartDaemon \/ EditLoop \/ SweepReads \/ SweepMarks
              \/ DaemonDies \/ LoseConnection \/ UNCHANGED vars
       PROVE  Inv'
  BY <1>1, <1>17 DEF GiveUp, PauseOver, StartDaemon, EditLoop, SweepReads, SweepMarks, DaemonDies, LoseConnection,
                     others, vars
<1>18. Inv'
  BY <1>3, <1>4, <1>5, <1>6, <1>8, <1>9, <1>10, <1>11, <1>12, <1>13, <1>14, <1>15, <1>16, <1>17
     DEF Next, HandlerStep, DaemonStep
<1> QED BY <1>0, <1>18 DEF WaitInv

(* Once a pending run has been dispatched, no poll stays parked without     *)
(* having been woken (gateway/index.ts, armPollWaiter, wakePoll, pollWait), *)
(* though the run may go pending between the poll's own look and its hold.  *)
THEOREM NoWakeupIsLost == Spec => []NoLostWakeup
<1>1. Init => WaitInv
  BY WaitInit, PollConstantsOK
<1>2. WaitInv /\ [Next]_vars => WaitInv'
  BY WaitStep, PollConstantsOK
<1>3. WaitInv => NoLostWakeup
  BY DEF WaitInv, Foreseen, Ahead, NoLostWakeup
<1> QED BY <1>1, <1>2, <1>3, PTL DEF Spec

(***************************************************************************)
(* Presence.  Inductive with how old the heartbeat may be at each stage of *)
(* a request and of the daemon that waits for it: a poll that went past    *)
(* its stamp found it young, a hold adds what it has lasted, and a daemon  *)
(* whose polls are answered is between two of them for a unit at most.     *)
(***************************************************************************)
RequestHeard(q) ==
  /\ req[q].pc \in {"list", "claim", "watch", "load", "store", "answer"} => seen <= Refresh
  /\ req[q].pc = "park" => seen <= Refresh + req[q].held
  /\ req[q].pc = "restamp" => seen <= Refresh + WaitFor
DaemonHeard ==
  clean => /\ daemon.pc \in {"send", "call", "sleep"}
           /\ daemon.pc = "send" => seen <= Refresh + 1
           /\ daemon.pc = "sleep" => daemon.age \in {0, 1} /\ seen + daemon.age <= Refresh + 1
           /\ daemon.pc = "call" =>
                 /\ daemon.call \in Requests /\ req[daemon.call].pc # "idle"
                 /\ req[daemon.call].pc = "stamp" => seen <= Refresh + WaitFor

PresenceInv == TypeOK /\ (\A q \in Requests : RequestHeard(q)) /\ DaemonHeard

LEMMA Kept == PollConstantsOK /\ PresenceInv => PresenceKept
<1> SUFFICES ASSUME PollConstantsOK, PresenceInv, clean PROVE seen <= OnlineTtl
  BY DEF PresenceKept
<1>1. seen \in Nat /\ req \in [Requests -> Request] /\ daemon \in Daemon
  BY Periods DEF PresenceInv, TypeOK
<1>2. CASE daemon.pc = "send"
  BY <1>1, <1>2, Periods DEF PresenceInv, DaemonHeard
<1>3. CASE daemon.pc = "sleep"
  BY <1>1, <1>3, Periods DEF PresenceInv, DaemonHeard
<1>4. CASE daemon.pc = "call"
  <2>1. daemon.call \in Requests /\ req[daemon.call].pc # "idle" /\ RequestHeard(daemon.call)
        /\ (req[daemon.call].pc = "stamp" => seen <= Refresh + WaitFor)
    BY <1>4 DEF PresenceInv, DaemonHeard
  <2>2. req[daemon.call] \in Request
    BY <1>1, <2>1
  <2>3. req[daemon.call].held \in 0..WaitFor
        /\ req[daemon.call].pc \in {"stamp", "list", "claim", "watch", "load", "store", "park", "restamp", "answer"}
    BY <2>1, <2>2 DEF Request, Pass
  <2> QED BY <1>1, <2>1, <2>3, Periods DEF RequestHeard
<1> QED BY <1>2, <1>3, <1>4 DEF PresenceInv, DaemonHeard

LEMMA PresenceStep ==
  ASSUME PollConstantsOK, PresenceInv, [Next]_vars
  PROVE  PresenceInv'
<1> DEFINE Inv == (\A q \in Requests : RequestHeard(q)) /\ DaemonHeard
<1>0. TypeOK /\ TypeOK' /\ req \in [Requests -> Request] /\ req' \in [Requests -> Request]
      /\ daemon \in Daemon /\ Inv
  BY TypedStep DEF PresenceInv, TypeOK
<1>n. None \notin Requests
  BY DEF PollConstantsOK
<1>s. seen \in Nat /\ WaitFor \in Nat /\ Refresh \in Nat /\ 1 <= WaitFor
  BY <1>0, Periods DEF TypeOK
<1>1. ASSUME UNCHANGED <<req, seen, daemon, clean>> PROVE Inv'
  BY <1>0, <1>1 DEF RequestHeard, DaemonHeard
\* Settling a request moves it nowhere.
<1>2. ASSUME UNCHANGED <<seen, daemon, clean>>,
             \A q \in Requests : req'[q].pc = req[q].pc /\ req'[q].held = req[q].held
      PROVE  Inv'
  BY <1>0, <1>2 DEF RequestHeard, DaemonHeard
\* A request moves on.
<1>3. ASSUME UNCHANGED <<seen, daemon, clean>>, NEW q \in Requests,
             \A o \in Requests \ {q} : req'[o] = req[o],
             RequestHeard(q)', req'[q].pc # "idle", req'[q].pc = "stamp" => seen <= Refresh + WaitFor
      PROVE  Inv'
  <2>1. \A o \in Requests : RequestHeard(o)'
    BY <1>0, <1>3 DEF RequestHeard
  <2> QED BY <1>0, <1>3, <2>1 DEF DaemonHeard
\* The daemon is no longer one whose polls are answered.
<1>4. ASSUME UNCHANGED <<req, seen>>, clean' = FALSE PROVE Inv'
  BY <1>0, <1>4 DEF RequestHeard, DaemonHeard
<1>5. ASSUME NEW r \in Runs, Dispatch(r) PROVE Inv'
  <2>1. req' = Woken(req) /\ UNCHANGED <<seen, daemon, clean>>
    BY <1>5 DEF Dispatch
  <2> QED BY <1>0, <1>2, <2>1, WokenTyped
<1>6. ASSUME NEW q \in Requests, Send(q) PROVE Inv'
  <2> DEFINE wait == daemon.inFlight = {}
             s == [Idle EXCEPT !.pc = "stamp", !.wait = wait, !.echo = daemon.digest,
                               !.settled = IF wait THEN "no" ELSE "over"]
             rs == IF wait THEN Armed(q, req) ELSE req
  <2>1. s.pc = "stamp"
    BY DEF Idle
  <2>2. \A o \in Requests \ {q} : rs[o].pc = req[o].pc /\ rs[o].held = req[o].held
    BY WokenTyped, <1>0 DEF Armed
  <2>3. DOMAIN rs = Requests
    BY WokenTyped, <1>0 DEF Armed
  <2>4. req' = [rs EXCEPT ![q] = s] /\ UNCHANGED <<seen, clean>> /\ daemon.pc = "send"
    BY <1>6 DEF Send, others
  <2> HIDE DEF rs, s
  <2>5. req'[q].pc = "stamp" /\ \A o \in Requests \ {q} : req'[o].pc = req[o].pc /\ req'[o].held = req[o].held
    BY <2>1, <2>2, <2>3, <2>4
  <2>6. daemon'.pc = "call" /\ daemon'.call = q
    BY <1>0, <1>6 DEF Send, Daemon
  <2>7. \A o \in Requests : RequestHeard(o)'
    BY <1>0, <2>4, <2>5 DEF RequestHeard
  <2>8. clean => seen <= Refresh + WaitFor
    BY <1>0, <1>s, <2>4 DEF DaemonHeard
  <2> QED BY <2>4, <2>5, <2>6, <2>7, <2>8 DEF DaemonHeard
<1>7. ASSUME NEW q \in Requests, Answer(q) PROVE Inv'
  <2>1. req' = [req EXCEPT ![q] = Idle] /\ req[q].pc = "answer" /\ UNCHANGED seen
    BY <1>7 DEF Answer, others
  <2>2. req'[q].pc = "idle" /\ \A o \in Requests \ {q} : req'[o] = req[o]
    BY <1>0, <2>1, IdleIsRequest
  <2>3. \A o \in Requests : RequestHeard(o)'
    BY <1>0, <2>1, <2>2 DEF RequestHeard
  <2>4. CASE daemon.call # q
    <3>1. UNCHANGED <<daemon, clean>>
      BY <1>7, <2>4 DEF Answer
    <3> QED BY <1>0, <2>1, <2>2, <2>3, <2>4, <3>1 DEF DaemonHeard
  <2>5. CASE daemon.call = q
    <3>1. PICK pause \in Pauses : daemon' = Asleep(Applied(daemon, req[q]), pause)
      BY <1>7, <2>5 DEF Answer
    <3>2. daemon'.pc = "sleep" /\ daemon'.age = pause /\ pause \in {0, 1}
      BY <1>0, <3>1 DEF Asleep, Applied, Daemon, Pauses
    <3>3. seen' <= Refresh
      BY <1>0, <2>1 DEF RequestHeard
    <3> QED BY <1>s, <2>1, <2>3, <3>2, <3>3 DEF DaemonHeard
  <2> QED BY <2>4, <2>5
<1>8. ASSUME GiveUp \/ DaemonDies \/ LoseConnection PROVE Inv'
  BY <1>4, <1>8 DEF GiveUp, DaemonDies, LoseConnection, others
<1>9. ASSUME PauseOver PROVE Inv'
  <2>1. daemon'.pc = "send" /\ daemon.pc = "sleep" /\ daemon.age = 0 /\ UNCHANGED <<req, seen, clean>>
    BY <1>0, <1>9 DEF PauseOver, Daemon, others
  <2> QED BY <1>0, <1>s, <2>1 DEF RequestHeard, DaemonHeard
<1>10. ASSUME StartDaemon PROVE Inv'
  <2>1. ~clean /\ UNCHANGED <<req, seen, clean>>
    BY <1>0, <1>10 DEF StartDaemon, DaemonHeard, others
  <2> QED BY <1>0, <2>1 DEF RequestHeard, DaemonHeard
<1>11. ASSUME NEW r \in Runs, RunEnds(r) PROVE Inv'
  <2>1. daemon'.pc = daemon.pc /\ daemon'.age = daemon.age /\ daemon'.call = daemon.call
        /\ UNCHANGED <<req, seen, clean>>
    BY <1>0, <1>11 DEF RunEnds, Daemon
  <2> QED BY <1>0, <2>1 DEF RequestHeard, DaemonHeard
\* The heartbeat is written, or is young.
<1>12. ASSUME NEW q \in Requests, Stamp(q) \/ Restamp(q) PROVE Inv'
  <2>1. /\ req'[q].pc \in {"list", "answer"}
        /\ \A o \in Requests \ {q} : req'[o] = req[o]
        /\ UNCHANGED <<daemon, clean>>
    BY <1>0, <1>12, GoesTo DEF Stamp, Restamp, Pass
  <2>2. seen' <= Refresh /\ seen' <= seen /\ seen' \in Nat
    BY <1>s, <1>12 DEF Stamp, Restamp, Stamped
  <2>3. ASSUME NEW o \in Requests PROVE RequestHeard(o)'
    <3>1. req[o].held \in Nat
      BY <1>0, <1>s DEF Request
    <3> QED BY <1>0, <1>s, <2>1, <2>2, <3>1 DEF RequestHeard
  <2>4. DaemonHeard'
    <3>1. daemon.age \in Nat
      BY <1>0, Periods DEF Daemon
    <3> QED BY <1>0, <1>s, <2>1, <2>2, <3>1 DEF DaemonHeard
  <2> QED BY <2>3, <2>4
<1>13. ASSUME NEW q \in Requests, List(q) \/ Claim(q) \/ Watch(q) \/ Load(q) \/ Store(q) PROVE Inv'
  <2>1. UNCHANGED <<seen, daemon, clean>> /\ req[q].pc \in {"list", "claim", "watch", "load", "store"}
    BY <1>13 DEF List, Claim, Watch, Load, Store, others
  <2>2. /\ req'[q].pc \in {"claim", "watch", "load", "store", "park", "answer"} /\ req'[q].held \in Nat
        /\ \A o \in Requests \ {q} : req'[o] = req[o]
    <3>1. req'[q].held \in Nat
      BY <1>0, <1>s DEF Request
    <3>2. CASE List(q)
      BY <1>0, <3>1, <3>2 DEF List, Request
    <3>3. CASE Claim(q)
      <4>1. CASE req[q].list = {}
        BY <1>0, <3>1, <3>3, <4>1, GoesTo DEF Claim, Pass
      <4>2. CASE req[q].list # {}
        <5>1. PICK r \in req[q].list :
                LET won == run[r] = "pending" IN
                req' = [req EXCEPT ![q] = [req[q] EXCEPT !.list = @ \ {r}, !.got = IF won THEN @ \cup {r} ELSE @]]
          BY <3>3, <4>2 DEF Claim
        <5>2. req[q].pc = "claim"
          BY <3>3 DEF Claim
        <5>3. req'[q].pc = "claim" /\ \A o \in Requests \ {q} : req'[o] = req[o]
          BY <1>0, <5>1, <5>2 DEF Request
        <5> QED BY <3>1, <5>3
      <4> QED BY <4>1, <4>2
    <3>4. CASE Watch(q) \/ Load(q) \/ Store(q)
      BY <1>0, <3>1, <3>4, GoesTo DEF Watch, Load, Store, Request, Pass, AfterPass
    <3> QED BY <1>13, <3>2, <3>3, <3>4
  <2>3. seen <= Refresh
    BY <1>0, <2>1 DEF RequestHeard
  <2>4. RequestHeard(q)'
    BY <1>s, <2>1, <2>2, <2>3 DEF RequestHeard
  <2> QED BY <1>3, <2>1, <2>2, <2>4
<1>14. ASSUME NEW q \in Requests, Expire(q) PROVE Inv'
  <2>1. UNCHANGED <<seen, daemon, clean>> /\ req' = [req EXCEPT ![q] = [req[q] EXCEPT !.settled = "over"]]
    BY <1>14 DEF Expire, SettledBy, others
  <2>2. \A o \in Requests : req'[o].pc = req[o].pc /\ req'[o].held = req[o].held
    BY <1>0, <2>1 DEF Request
  <2> QED BY <1>2, <2>1, <2>2
<1>15. ASSUME NEW q \in Requests, Resume(q) PROVE Inv'
  <2>1. UNCHANGED <<seen, daemon, clean>> /\ req[q].pc = "park"
    BY <1>15 DEF Resume, others
  <2>2. /\ req'[q].pc \in {"stamp", "restamp"}
        /\ \A o \in Requests \ {q} : req'[o] = req[o]
    BY <1>0, <1>15 DEF Resume, Request
  <2>3. seen <= Refresh + WaitFor
    <3>1. req[q].held \in 0..WaitFor /\ seen <= Refresh + req[q].held
      BY <1>0, <2>1 DEF RequestHeard, Request
    <3> QED BY <1>s, <3>1
  <2>4. RequestHeard(q)'
    BY <2>1, <2>2, <2>3 DEF RequestHeard
  <2> QED BY <1>3, <2>1, <2>2, <2>3, <2>4
<1>16. ASSUME ServerRestart PROVE Inv'
  <2>1. clean' = FALSE /\ \A q \in Requests : req'[q].pc = "idle"
    BY <1>16, IdleIsRequest DEF ServerRestart
  <2> QED BY <2>1 DEF RequestHeard, DaemonHeard
\* Only a hold and the daemon's pause last.
<1>17. ASSUME Tick PROVE Inv'
  <2>1. seen' \in Nat /\ seen' <= seen + 1 /\ UNCHANGED clean
    BY <1>s, <1>17, Periods DEF Tick, UpTo
  <2>2. ASSUME NEW q \in Requests
        PROVE  /\ req'[q].pc = req[q].pc /\ req[q].pc \in {"idle", "park"}
               /\ req[q].pc = "park" => req'[q].held = req[q].held + 1
    BY <1>0, <1>17 DEF Tick, Due, Request
  <2>3. ASSUME NEW q \in Requests PROVE RequestHeard(q)'
    <3>1. req[q].held \in Nat
      BY <1>0, <1>s DEF Request
    <3> QED BY <1>0, <1>s, <2>1, <2>2, <3>1 DEF RequestHeard
  <2>4. DaemonHeard'
    <3>1. daemon.pc # "send" /\ (daemon.pc = "sleep" => daemon.age # 0) /\ daemon.age \in Nat
      BY <1>0, <1>17, Periods DEF Tick, Due, Daemon
    <3>2. /\ daemon'.pc = daemon.pc /\ daemon'.call = daemon.call
          /\ daemon.pc = "sleep" => daemon'.age = daemon.age - 1
      BY <1>0, <1>17 DEF Tick, Daemon
    <3>3. CASE daemon.pc = "sleep"
      BY <1>0, <1>s, <2>1, <3>1, <3>2, <3>3 DEF DaemonHeard
    <3>4. CASE daemon.pc # "sleep"
      BY <1>0, <2>1, <2>2, <3>1, <3>2, <3>4 DEF DaemonHeard
    <3> QED BY <3>3, <3>4
  <2> QED BY <2>3, <2>4
<1>18. ASSUME (\E r \in Runs : GoesPending(r)) \/ EditLoop \/ SweepReads \/ SweepMarks \/ UNCHANGED vars
       PROVE  Inv'
  BY <1>1, <1>18 DEF GoesPending, EditLoop, SweepReads, SweepMarks, vars
<1>19. Inv'
  BY <1>5, <1>6, <1>7, <1>8, <1>9, <1>10, <1>11, <1>12, <1>13, <1>14, <1>15, <1>16, <1>17, <1>18
     DEF Next, HandlerStep, DaemonStep
<1> QED BY <1>0, <1>19 DEF PresenceInv

(* A daemon whose polls are answered never counts as offline, though a      *)
(* young heartbeat is not written anew and a poll is held (gateway/index.ts, *)
(* poll and pollWait against ONLINE_TTL_MS).                                *)
THEOREM PresenceIsKept == Spec => []PresenceKept
<1>1. Init => PresenceInv
  BY TypedInit, PollConstantsOK, IdleIsRequest DEF Init, PresenceInv, RequestHeard, DaemonHeard
<1>2. PresenceInv /\ [Next]_vars => PresenceInv'
  BY PresenceStep, PollConstantsOK
<1>3. PresenceInv => PresenceKept
  BY Kept, PollConstantsOK
<1> QED BY <1>1, <1>2, <1>3, PTL DEF Spec

(* The shapes of the rows, of the handlers and of the daemon.               *)
THEOREM PollIsTyped == Spec => []TypeOK
<1>1. Init => TypeOK
  BY TypedInit, PollConstantsOK
<1>2. TypeOK /\ [Next]_vars => TypeOK'
  BY TypedStep, PollConstantsOK
<1> QED BY <1>1, <1>2, PTL DEF Spec
===============================================================================
