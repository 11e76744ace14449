---------------------------- MODULE AgentProcess -----------------------------
(***************************************************************************)
(* One child of the daemon, a coding agent or a workflow, from its spawn   *)
(* to the result its caller gets (packages/daemon/src/spawn.ts), with the  *)
(* consumer of its event stream (runner.ts, makeStreamConsumer).           *)
(*                                                                         *)
(* The child leads a process group; a process of its own may ignore        *)
(* SIGTERM, leave the group, outlive the child and hold its pipe open.     *)
(* The abort signal, the timeout, the kill timer, the drain timer and the  *)
(* end of the pipe come in any order.  What the child writes reaches the   *)
(* consumer in chunks that respect no line.                                *)
(***************************************************************************)
EXTENDS Naturals, Sequences, SequencesExt

CONSTANTS
  Sessions,   \* session ids an event may carry
  MaxEvents   \* bound: events the child writes

None == "none"
Events == [session: Sessions \cup {None}, kind: {"assistant", "result"}]
(* An event travels as two halves and a line end: a chunk may end after any.  *)
NoEvent == [session |-> None, kind |-> "none"]
Newline == [event |-> NoEvent, half |-> 0]
Symbols == [event: Events, half: {1, 2}] \cup {Newline}

VARIABLES
  leader,    \* "run", "exited" or "failed" (could not be spawned)
  deaf,      \* who ignores SIGTERM: a subset of {"leader", "kid"}
  kid,       \* the child's own process: alive, in the group, with the pipe, started late
  written,   \* what the child has written so far
  pipe,      \* the part the daemon has not read
  buf,       \* the consumer's unfinished line
  out,       \* what the consumer made of the lines: session, result, steps
  aborted,   \* the caller's signal fired
  timer,     \* the wall-clock timeout: "off", "armed", "fired"
  term,      \* SIGTERM was sent
  killTimer, \* "off", "armed", "fired", "cleared"
  drain,     \* the 1 s wait after the exit: "off", "armed"
  settled    \* None, "close", "drain" or "rejected"

agentVars == <<leader, deaf, kid, written, pipe, buf, out, aborted, timer, term, killTimer, drain, settled>>
procs == <<leader, deaf, kid>>
stream == <<written, pipe, buf, out>>
timers == <<timer, term, killTimer>>

NoKid == [alive |-> FALSE, group |-> FALSE, pipe |-> FALSE, late |-> FALSE]
Kid == [alive: BOOLEAN, group: BOOLEAN, pipe: BOOLEAN, late: BOOLEAN]
Out == [session: Sessions \cup {None}, result: Events \cup {NoEvent}, steps: 0..MaxEvents]

AgentTypeOK ==
  /\ leader \in {"run", "exited", "failed"}
  /\ deaf \subseteq {"leader", "kid"}
  /\ kid \in Kid
  /\ {written, pipe, buf} \subseteq Seq(Symbols)
  /\ out \in Out
  /\ {aborted, term} \subseteq BOOLEAN
  /\ timer \in {"off", "armed", "fired"}
  /\ killTimer \in {"off", "armed", "fired", "cleared"}
  /\ drain \in {"off", "armed"}
  /\ settled \in {None, "close", "drain", "rejected"}

(***************************************************************************)
(* The stream: JSON.parse accepts a line that is one whole event.          *)
(***************************************************************************)
Halves(e) == <<[event |-> e, half |-> 1], [event |-> e, half |-> 2]>>
Parses(line) == \E e \in Events : line = Halves(e)

HandleLine(o, line) ==
  IF ~Parses(line) THEN o
  ELSE LET e == line[1].event
       IN [session |-> IF o.session = None THEN e.session ELSE o.session,
           result |-> IF e.kind = "result" THEN e ELSE o.result,
           steps |-> IF e.kind = "assistant" THEN o.steps + 1 ELSE o.steps]

(* feed: append the chunk, then handle every line that is complete.  *)
Lines == [out: Out, buf: Seq(Symbols)]
FeedOne(symbol, l) ==
  IF symbol = Newline THEN [out |-> HandleLine(l.out, l.buf), buf |-> <<>>]
  ELSE [l EXCEPT !.buf = Append(@, symbol)]
Feed(chunk) == FoldLeft(LAMBDA l, symbol : FeedOne(symbol, l), [out |-> out, buf |-> buf], chunk)

(* result: a last line without its newline counts too. *)
Flush(o, b) == HandleLine(o, b)

AgentInit ==
  /\ leader = "run" /\ deaf \in SUBSET {"leader", "kid"} /\ kid = NoKid
  /\ written = <<>> /\ pipe = <<>> /\ buf = <<>>
  /\ out = [session |-> None, result |-> NoEvent, steps |-> 0]
  /\ timer \in {"off", "armed"}
  /\ aborted = FALSE /\ term = FALSE /\ killTimer = "off" /\ drain = "off"
  /\ settled = None

(***************************************************************************)
(* The child and its own process.                                          *)
(***************************************************************************)
Texts(e) == {Halves(e) \o <<Newline>>, Halves(e), SubSeq(Halves(e), 1, 1)}
Write ==
  /\ leader = "run" /\ settled = None
  /\ written # <<>> => Last(written) = Newline
  /\ Len(SelectSeq(written, LAMBDA s : s = Newline)) < MaxEvents
  /\ \E e \in Events : \E text \in Texts(e) :
       written' = written \o text /\ pipe' = pipe \o text
  /\ UNCHANGED <<procs, buf, out, aborted, timers, drain, settled>>

StartKid ==
  /\ leader = "run" /\ settled = None /\ kid = NoKid
  /\ \E group, holds \in BOOLEAN : kid' = [alive |-> TRUE, group |-> group, pipe |-> holds, late |-> term]
  /\ UNCHANGED <<leader, deaf, stream, aborted, timers, drain, settled>>

KidEnds ==
  /\ kid.alive /\ settled = None
  /\ kid' = [kid EXCEPT !.alive = FALSE]
  /\ UNCHANGED <<leader, deaf, stream, aborted, timers, drain, settled>>

(* The exit event arms the wait for the streams. *)
Exit ==
  /\ leader = "run" /\ settled = None
  /\ leader' = "exited" /\ drain' = "armed"
  /\ UNCHANGED <<deaf, kid, stream, aborted, timers, settled>>

(* The spawn itself fails: the error event rejects. *)
SpawnFails ==
  /\ leader = "run" /\ settled = None /\ written = <<>> /\ kid = NoKid
  /\ leader' = "failed" /\ settled' = "rejected"
  /\ killTimer' = IF killTimer = "armed" THEN "cleared" ELSE killTimer
  /\ UNCHANGED <<deaf, kid, stream, aborted, timer, term, drain>>

(***************************************************************************)
(* signalTree and terminate.                                               *)
(***************************************************************************)
Signalled(victims) ==
  /\ leader' = IF leader = "run" /\ "leader" \in victims THEN "exited" ELSE leader
  /\ drain' = IF leader = "run" /\ "leader" \in victims THEN "armed" ELSE drain
  /\ kid' = IF kid.group /\ "kid" \in victims THEN [kid EXCEPT !.alive = FALSE] ELSE kid

(* Without a process group only the child itself is told. *)
TerminateChild ==
  /\ Signalled({"leader"} \ deaf)
  /\ term' = TRUE
  /\ killTimer' = IF killTimer = "off" THEN "armed" ELSE killTimer

(* Where there are process groups, that is anywhere but on win32 (spawn.ts:37). *)
Terminate ==
  /\ Signalled({"leader", "kid"} \ deaf)
  /\ term' = TRUE
  /\ killTimer' = IF killTimer = "off" THEN "armed" ELSE killTimer

Abort ==
  /\ ~aborted /\ settled = None
  /\ aborted' = TRUE
  /\ Terminate
  /\ UNCHANGED <<deaf, stream, timer, settled>>

TimesOut ==
  /\ timer = "armed" /\ settled = None
  /\ timer' = "fired"
  /\ Terminate
  /\ UNCHANGED <<deaf, stream, aborted, settled>>

KillTimerFires ==
  /\ killTimer = "armed"
  /\ killTimer' = "fired"
  /\ Signalled({"leader", "kid"})
  /\ UNCHANGED <<deaf, stream, aborted, timer, term, settled>>

(***************************************************************************)
(* The daemon's end of the pipe, and the two ways to settle.               *)
(***************************************************************************)
Read ==
  /\ pipe # <<>> /\ settled = None
  /\ \E n \in 1..Len(pipe) :
       LET l == Feed(SubSeq(pipe, 1, n))
       IN /\ out' = l.out /\ buf' = l.buf
          /\ pipe' = SubSeq(pipe, n + 1, Len(pipe))
  /\ UNCHANGED <<procs, written, aborted, timers, drain, settled>>

(* settle, cleanup, and the caller asks the consumer for its result. *)
SettleBy(event) ==
  /\ settled = None
  /\ settled' = event
  /\ killTimer' = IF killTimer = "armed" THEN "cleared" ELSE killTimer
  /\ out' = Flush(out, buf) /\ buf' = <<>>
  /\ UNCHANGED <<procs, written, pipe, aborted, timer, term, drain>>

(* Every end of the pipe is closed and everything in it was read. *)
Close ==
  /\ leader = "exited" /\ pipe = <<>> /\ ~(kid.alive /\ kid.pipe)
  /\ SettleBy("close")

DrainFires == drain = "armed" /\ SettleBy("drain")

AgentNext ==
  \/ Write \/ StartKid \/ KidEnds \/ Exit \/ SpawnFails
  \/ Abort \/ TimesOut \/ KillTimerFires
  \/ Read \/ Close \/ DrainFires

(* Timers fire; a child need not end, nor a process of its own. *)
Fairness == WF_agentVars(KillTimerFires) /\ WF_agentVars(DrainFires)
AgentSpec == AgentInit /\ [][AgentNext]_agentVars /\ Fairness

(***************************************************************************)
(* A child that was told to stop is over for its caller in the end, even   *)
(* if it ignores SIGTERM and leaves a process behind that holds its pipe   *)
(* open (spawn.ts, killTimer and STREAM_DRAIN_MS).                         *)
(***************************************************************************)
StopSettles == term ~> (settled # None)

(***************************************************************************)
(* Whoever outlives a stopped child left its process group, or is deaf to  *)
(* SIGTERM, or was started after it; and no SIGKILL was sent, because the  *)
(* child was gone by then and settling disarms the kill timer (spawn.ts,   *)
(* signalTree, cleanup).                                                   *)
(***************************************************************************)
SurvivorsAreNamed ==
  term /\ settled # None /\ kid.alive =>
    ~kid.group \/ (("kid" \in deaf \/ kid.late) /\ killTimer # "fired")

(***************************************************************************)
(* When the pipe was read to its end, the caller has what one reading of   *)
(* the whole text would give, however it was cut into chunks: the first    *)
(* session, the last result, every step, an unfinished last line included  *)
(* (runner.ts, makeStreamConsumer).                                        *)
(***************************************************************************)
Whole(text) ==
  LET ends == SelectSeq(text, LAMBDA s : s.half = 2)
  IN [i \in DOMAIN ends |-> ends[i].event]
StreamIsWhole ==
  settled = "close" =>
    LET events == Whole(written)
        results == SelectSeq(events, LAMBDA e : e.kind = "result")
        named == SelectSeq(events, LAMBDA e : e.session # None)
    IN out = [session |-> IF named = <<>> THEN None ELSE Head(named).session,
              result |-> IF results = <<>> THEN NoEvent ELSE Last(results),
              steps |-> Len(events) - Len(results)]
=============================================================================
