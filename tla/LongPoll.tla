------------------------------- MODULE LongPoll -------------------------------
(***************************************************************************)
(* How a run reaches the machine (gateway/index.ts poll and pollWait,      *)
(* against daemon.ts runDaemon).  An idle daemon's poll is held by the     *)
(* server: it arms the machine's waiter, makes a claim pass, and parks     *)
(* until the dispatcher wakes it or 20 s are over.  The answer also        *)
(* carries the set of folders to watch, from a cache, and leaves it out    *)
(* when the daemon's digest shows that it has it.  The heartbeat of this   *)
(* exchange is the machine's presence.                                     *)
(*                                                                         *)
(* One machine; requests of a daemon that died, or gave up waiting, live   *)
(* on in the server.  Time passes in units of 5 s: a handler's steps and   *)
(* the daemon's own take less than one.  Runs are RunLifecycle's; here one *)
(* is pending, claimed or over.  A watch set is a number, counting the     *)
(* changes to the machine's loops, and its own digest.                     *)
(***************************************************************************)
EXTENDS Naturals, FiniteSets

CONSTANTS
    Runs, Requests,     \* runs that go pending; poll requests in the server
    None,
    WaitFor,            \* LONG_POLL_WAIT_MS, 20 s
    OnlineTtl,          \* ONLINE_TTL_MS, 30 s
    Refresh,            \* LAST_SEEN_REFRESH_MS, 10 s
    CacheTtl,           \* WATCH_CACHE_TTL_MS, 15 s
    Patience,           \* POLL_TIMEOUT_MS, 30 s
    MaxEdits,           \* bound: changes to the machine's loops
    MaxFaults           \* bound: crashes of either side, lost answers

ASSUME PollConstantsOK ==
    /\ None \notin Requests /\ None \notin Nat
    /\ {WaitFor, OnlineTtl, Refresh, CacheTtl, Patience, MaxEdits, MaxFaults} \subseteq Nat
    /\ Refresh + WaitFor <= OnlineTtl /\ 0 < WaitFor /\ WaitFor < Patience

VARIABLES
    run,            \* runs.phase
    undispatched,   \* runs whose row is committed and whose dispatch is to come
    waiter,         \* pollWaiters: the request parked for the machine
    req,            \* the poll handlers in flight
    cache,          \* watchCache: the set served and its age
    bound,          \* the watch set that the loops table says
    seen, online,   \* machines.lastSeen, as an age, and machines.online
    marking,        \* the sweep has read a stale row and not yet marked it
    daemon,         \* the daemon's poll loop
    clean,          \* the daemon's last poll was answered and nothing failed since
    faults

vars == <<run, undispatched, waiter, req, cache, bound, seen, online, marking, daemon, clean, faults>>

Versions == 0..MaxEdits
Known    == Versions \cup {None}
Settled  == {"no", "woken", "over"}
Pass     == {"stamp", "list", "claim", "watch", "load", "store"}
Request  == [pc : Pass \cup {"idle", "park", "restamp", "answer"}, wait : BOOLEAN, again : BOOLEAN,
             settled : Settled, held : 0..WaitFor, list : SUBSET Runs, got : SUBSET Runs,
             echo : Known, read : Known, digest : Known]
Idle     == [pc |-> "idle", wait |-> FALSE, again |-> FALSE, settled |-> "over", held |-> 0,
             list |-> {}, got |-> {}, echo |-> None, read |-> None, digest |-> None]
Daemon   == [pc : {"down", "send", "call", "sleep"}, call : Requests \cup {None}, age : 0..Patience,
             watched : Known, digest : Known, inFlight : SUBSET Runs]
Started  == [pc |-> "send", call |-> None, age |-> 0, watched |-> None, digest |-> None, inFlight |-> {}]
NoCache  == [watch |-> None, age |-> 0]

\* TYPE: the shapes of the rows, of the handlers and of the daemon.
TypeOK == /\ run \in [Runs -> {"none", "pending", "running", "over"}]
          /\ undispatched \in SUBSET Runs
          /\ waiter \in Requests \cup {None}
          /\ req \in [Requests -> Request]
          /\ cache \in [watch : Known, age : 0..CacheTtl + 1]
          /\ bound \in Versions
          /\ seen \in 0..OnlineTtl + 1 /\ online \in BOOLEAN /\ marking \in BOOLEAN
          /\ daemon \in Daemon
          /\ clean \in BOOLEAN /\ faults \in 0..MaxFaults

Init == /\ run = [r \in Runs |-> "none"] /\ undispatched = {}
        /\ waiter = None /\ req = [q \in Requests |-> Idle]
        /\ cache = NoCache /\ bound = 0
        /\ seen = 0 /\ online = TRUE /\ marking = FALSE
        /\ daemon = Started /\ clean = FALSE /\ faults = 0

------------------------------------------------------------------------------
(* The waiter                                                              *)

\* Mutant: a settled request deletes the entry of whoever is parked now.
WithoutEntryAtAll(q, w) == None

\* settle: once only; the map entry goes if it is still this request's own.
SettledBy(q, how, rs) == IF rs[q].settled = "no" THEN [rs EXCEPT ![q].settled = how] ELSE rs
WithoutEntry(q, w) == IF w = q THEN None ELSE w

Woken(rs) == IF waiter = None THEN rs ELSE SettledBy(waiter, "woken", rs)

\* dispatcher.dispatch, after the row has been committed.
Dispatch(r) == /\ r \in undispatched
               /\ undispatched' = undispatched \ {r}
               /\ req' = Woken(req)
               /\ waiter' = None
               /\ UNCHANGED <<run, cache, bound, seen, online, marking, daemon, clean, faults>>

GoesPending(r) == /\ run[r] = "none"
                  /\ run' = [run EXCEPT ![r] = "pending"]
                  /\ undispatched' = undispatched \cup {r}
                  /\ UNCHANGED <<waiter, req, cache, bound, seen, online, marking, daemon, clean, faults>>

\* armPollWaiter: the request before it is woken, never left behind.
Armed(q, rs) == [Woken(rs) EXCEPT ![q].settled = "no"]

------------------------------------------------------------------------------
(* The daemon's poll loop                                                  *)

others == <<run, undispatched, cache, bound, seen, online, marking>>

\* The request reaches the server: a wait arms the waiter before anything else.
Send(q) ==
    /\ daemon.pc = "send" /\ req[q].pc = "idle"
    /\ LET wait == daemon.inFlight = {}
           rs   == IF wait THEN Armed(q, req) ELSE req
       IN  /\ req' = [rs EXCEPT ![q] = [Idle EXCEPT !.pc = "stamp", !.wait = wait, !.echo = daemon.digest,
                                                    !.settled = IF wait THEN "no" ELSE "over"]]
           /\ waiter' = IF wait THEN q ELSE waiter
    /\ daemon' = [daemon EXCEPT !.pc = "call", !.call = q, !.age = 0]
    /\ UNCHANGED <<others, clean, faults>>

\* nextPollDelayMs: a quick call is followed by a pause of about a unit, a held one
\* has used it up, but for the breather and the way there.
Pauses == IF daemon.age > 0 THEN {0, 1} ELSE {1}
Asleep(d, pause) == [d EXCEPT !.pc = "sleep", !.call = None, !.age = pause]
Applied(d, q) == [d EXCEPT !.watched  = IF q.digest = q.echo THEN @ ELSE q.digest,
                           !.digest   = q.digest,
                           !.inFlight = @ \cup q.got]

\* The answer; one to a daemon that no longer waits for it goes nowhere.
Answer(q) ==
    /\ req[q].pc = "answer"
    /\ req' = [req EXCEPT ![q] = Idle]
    /\ waiter' = WithoutEntry(q, waiter)          \* finally: waiter.cancel()
    /\ IF daemon.call = q
       THEN /\ \E pause \in Pauses : daemon' = Asleep(Applied(daemon, req[q]), pause)
            /\ clean' = TRUE
       ELSE UNCHANGED <<daemon, clean>>
    /\ UNCHANGED <<others, faults>>

\* The call broke, or boundedFetch aborts it.
GiveUp == /\ daemon.pc = "call"
          /\ daemon.call = None \/ daemon.age = Patience
          /\ \E pause \in Pauses : daemon' = Asleep(daemon, pause)
          /\ clean' = FALSE
          /\ UNCHANGED <<others, waiter, req, faults>>

PauseOver == /\ daemon.pc = "sleep" /\ daemon.age = 0
             /\ daemon' = [daemon EXCEPT !.pc = "send"]
             /\ UNCHANGED <<others, waiter, req, clean, faults>>

RunEnds(r) == /\ r \in daemon.inFlight
              /\ daemon' = [daemon EXCEPT !.inFlight = @ \ {r}]
              /\ run' = [run EXCEPT ![r] = "over"]
              /\ UNCHANGED <<undispatched, cache, bound, seen, online, marking, waiter, req, clean, faults>>

StartDaemon == /\ daemon.pc = "down"
               /\ daemon' = Started
               /\ UNCHANGED <<others, waiter, req, clean, faults>>

------------------------------------------------------------------------------
(* poll and pollWait                                                       *)

Goto(q, pc) == req' = [req EXCEPT ![q].pc = pc]
Stamped     == seen' = 0 /\ online' = TRUE

\* The heartbeat is written when the flag must flip or the stamp is old.
Stamp(q) == /\ req[q].pc = "stamp"
            /\ IF ~online \/ seen > Refresh THEN Stamped ELSE UNCHANGED <<seen, online>>
            /\ Goto(q, "list")
            /\ UNCHANGED <<run, undispatched, waiter, cache, bound, marking, daemon, clean, faults>>

List(q) == /\ req[q].pc = "list"
           /\ req' = [req EXCEPT ![q].pc = "claim", ![q].list = {r \in Runs : run[r] = "pending"}]
           /\ UNCHANGED <<others, waiter, daemon, clean, faults>>

\* claimPendingRun: only the poll whose conditional update hits ships the run.
Claim(q) ==
    /\ req[q].pc = "claim"
    /\ IF req[q].list = {} THEN Goto(q, "watch") /\ UNCHANGED run
       ELSE \E r \in req[q].list :
              LET won == run[r] = "pending" IN
              /\ run' = IF won THEN [run EXCEPT ![r] = "running"] ELSE run
              /\ req' = [req EXCEPT ![q].list = @ \ {r}, ![q].got = IF won THEN @ \cup {r} ELSE @]
    /\ UNCHANGED <<undispatched, cache, bound, seen, online, marking, waiter, daemon, clean, faults>>

\* Mutant: the cache has no age, every change is trusted to drop it.
StaleWhenDropped(c) == c.watch = None

Stale(c) == c.watch = None \/ c.age > CacheTtl

\* Where a pass ends: parked if it is the first of a wait and claimed nothing.
AfterPass(q) == IF req[q].wait /\ ~req[q].again /\ req[q].got = {} THEN "park" ELSE "answer"
Watch(q) ==
    /\ req[q].pc = "watch"
    /\ IF Stale(cache) \/ req[q].got # {} THEN Goto(q, "load")
       ELSE req' = [req EXCEPT ![q].pc = AfterPass(q), ![q].digest = cache.watch]
    /\ UNCHANGED <<others, waiter, daemon, clean, faults>>
Load(q) == /\ req[q].pc = "load"
           /\ req' = [req EXCEPT ![q].pc = "store", ![q].read = bound]
           /\ UNCHANGED <<others, waiter, daemon, clean, faults>>
Store(q) == /\ req[q].pc = "store"
            /\ cache' = [watch |-> req[q].read, age |-> 0]
            /\ req' = [req EXCEPT ![q].pc = AfterPass(q), ![q].digest = req[q].read]
            /\ UNCHANGED <<run, undispatched, bound, seen, online, marking, waiter, daemon, clean, faults>>

\* Parked: woken it polls again, timed out it answers what the first pass found.
Expire(q) == /\ req[q].pc = "park" /\ req[q].settled = "no" /\ req[q].held = WaitFor
             /\ req' = SettledBy(q, "over", req)
             /\ waiter' = WithoutEntry(q, waiter)
             /\ UNCHANGED <<others, daemon, clean, faults>>
Resume(q) == /\ req[q].pc = "park" /\ req[q].settled # "no"
             /\ req' = IF req[q].settled = "woken"
                       THEN [req EXCEPT ![q].pc = "stamp", ![q].again = TRUE]
                       ELSE [req EXCEPT ![q].pc = "restamp"]
             /\ UNCHANGED <<others, waiter, daemon, clean, faults>>
\* Mutant: a timed-out hold answers without a fresh heartbeat.
RestampNot(q) == /\ req[q].pc = "restamp"
                 /\ Goto(q, "answer")
                 /\ UNCHANGED <<run, undispatched, waiter, cache, bound, seen, online, marking, daemon, clean, faults>>

Restamp(q) == /\ req[q].pc = "restamp"
              /\ Stamped
              /\ Goto(q, "answer")
              /\ UNCHANGED <<run, undispatched, waiter, cache, bound, marking, daemon, clean, faults>>

------------------------------------------------------------------------------
(* The rest of the server                                                  *)

\* createLoop and editLoop drop the cached set; the dashboard's changes and a
\* deleted loop leave it to its age.
EditLoop == /\ bound < MaxEdits
            /\ bound' = bound + 1
            /\ \E drop \in BOOLEAN : cache' = IF drop THEN NoCache ELSE cache
            /\ UNCHANGED <<run, undispatched, seen, online, marking, waiter, req, daemon, clean, faults>>

\* sweep: the rows are read, and marked one await later.
SweepReads == /\ ~marking /\ online /\ seen > OnlineTtl
              /\ marking' = TRUE
              /\ UNCHANGED <<run, undispatched, cache, bound, seen, online, waiter, req, daemon, clean, faults>>
SweepMarks == /\ marking
              /\ marking' = FALSE /\ online' = FALSE
              /\ UNCHANGED <<run, undispatched, cache, bound, seen, waiter, req, daemon, clean, faults>>

\* Waiters, cache and handlers are memory; the daemon's call breaks.
ServerRestart ==
    /\ faults < MaxFaults /\ faults' = faults + 1
    /\ undispatched' = {} /\ waiter' = None /\ cache' = NoCache /\ marking' = FALSE
    /\ req' = [q \in Requests |-> Idle]
    /\ daemon' = [daemon EXCEPT !.call = None] /\ clean' = FALSE
    /\ UNCHANGED <<run, bound, seen, online>>

DaemonDies == /\ faults < MaxFaults /\ faults' = faults + 1
              /\ daemon.pc # "down"
              /\ daemon' = [Started EXCEPT !.pc = "down"] /\ clean' = FALSE
              /\ UNCHANGED <<others, waiter, req>>

\* The connection breaks; the server goes on with the request.
LoseConnection == /\ faults < MaxFaults /\ faults' = faults + 1
                  /\ daemon.call # None
                  /\ daemon' = [daemon EXCEPT !.call = None] /\ clean' = FALSE
                  /\ UNCHANGED <<others, waiter, req>>

------------------------------------------------------------------------------
(* Time                                                                    *)

\* What is due happens before the unit is over.
Due == \/ \E q \in Requests : \/ req[q].pc \notin {"idle", "park"}
                              \/ req[q].pc = "park" /\ (req[q].settled # "no" \/ req[q].held = WaitFor)
       \/ undispatched # {} \/ marking
       \/ daemon.pc = "send"
       \/ daemon.pc = "sleep" /\ daemon.age = 0
       \/ daemon.pc = "call" /\ daemon.age = Patience

UpTo(bnd, n) == IF n < bnd THEN n + 1 ELSE bnd
Tick ==
    /\ ~Due
    /\ req' = [q \in Requests |-> IF req[q].pc = "park" THEN [req[q] EXCEPT !.held = @ + 1] ELSE req[q]]
    /\ seen' = UpTo(OnlineTtl + 1, seen)
    /\ cache' = IF cache.watch = None THEN cache ELSE [cache EXCEPT !.age = UpTo(CacheTtl + 1, @)]
    /\ daemon' = CASE daemon.pc = "call"  -> [daemon EXCEPT !.age = @ + 1]
                   [] daemon.pc = "sleep" -> [daemon EXCEPT !.age = @ - 1]
                   [] OTHER               -> daemon
    /\ UNCHANGED <<run, undispatched, waiter, bound, online, marking, clean, faults>>

HandlerStep(q) == \/ Stamp(q) \/ List(q) \/ Claim(q) \/ Watch(q) \/ Load(q) \/ Store(q)
                  \/ Expire(q) \/ Resume(q) \/ Restamp(q) \/ Answer(q)
DaemonStep == (\E q \in Requests : Send(q)) \/ GiveUp \/ PauseOver \/ StartDaemon

Next == \/ \E q \in Requests : HandlerStep(q)
        \/ DaemonStep
        \/ \E r \in Runs : GoesPending(r) \/ Dispatch(r) \/ RunEnds(r)
        \/ EditLoop \/ SweepReads \/ SweepMarks
        \/ ServerRestart \/ DaemonDies \/ LoseConnection
        \/ Tick

\* The event loop runs what it has begun, timers fire, the daemon's loop goes on and
\* a dead one is started again.  No run needs to end and no owner to edit.
Spec == /\ Init /\ [][Next]_vars
        /\ \A q \in Requests : WF_vars(HandlerStep(q))
        /\ \A r \in Runs : WF_vars(Dispatch(r))
        /\ WF_vars(DaemonStep) /\ WF_vars(SweepMarks) /\ WF_vars(Tick)

------------------------------------------------------------------------------
(* Properties                                                              *)

\* NO LOST WAKE-UP: once a pending run has been dispatched, no poll of its machine
\* stays parked without having been woken, whatever was superseded or cut off.
NoLostWakeup == \A r \in Runs \ undispatched, q \in Requests :
                   run[r] = "pending" /\ req[q].pc = "park" => req[q].settled # "no"

\* PRESENCE: a daemon whose polls are answered is at no time older than the TTL,
\* though a heartbeat is skipped while the last is young and a poll is held for 20 s.
PresenceKept == clean => seen <= OnlineTtl

\* WATCH SET: when the loops change no more, the daemon ends up watching what the
\* table says, over skipped arrays, a cache filled from an old read, and restarts.
WatchConverges == <>[](daemon.watched = bound)
==============================================================================
