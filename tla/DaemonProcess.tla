---------------------------- MODULE DaemonProcess ----------------------------
(***************************************************************************)
(* The daemon of one machine as the operating system sees it: the pidfile, *)
(* the processes that write, trust and remove it, and the commands that    *)
(* start and stop the daemon (packages/daemon/src: pidfile.ts, daemon.ts,  *)
(* ensure.ts, control.ts, update.ts).                                      *)
(*                                                                         *)
(* Nothing but the pidfile keeps two daemons apart, and nothing makes a    *)
(* look at it and the write or removal that follows one step: they are     *)
(* two here, in the daemon's boot, in its exit and in every command.  A    *)
(* pid is reused once its process is gone, by a daemon or by a stranger;   *)
(* births number the processes, as the start times that ps prints do.      *)
(***************************************************************************)
EXTENDS Naturals

CONSTANTS
  Pids,        \* process ids the operating system hands out
  Commands,    \* invocations of `up`, `down`, `update` and `status` ("show")
  MaxBirths    \* bound: processes started

(* "none" is the pid of no file. *)
DaemonBounds == "none" \notin Pids /\ MaxBirths \in Nat

Unknown == 0     \* a start time that ps could not tell
Births == 1..MaxBirths

VARIABLES
  proc,     \* proc[p]: the process behind pid p
  file,     \* the pidfile: a record, or NoFile
  heard,    \* the server counts the machine online (ONLINE_TTL)
  cmd,      \* cmd[c]: the progress of a command
  births    \* processes started so far

daemonVars == <<proc, file, heard, cmd, births>>

NoFile == [pid |-> "none", birth |-> Unknown]
PidRecord == [pid: Pids, birth: Births \cup {Unknown}] \cup {NoFile}
Gone == [kind |-> "none", at |-> "gone", birth |-> Unknown, raced |-> FALSE]
Idle == [verb |-> "none", at |-> "idle", rec |-> NoFile, live |-> Unknown, child |-> NoFile]

(* Stages of a daemon: boot (runDaemon before its look at the file), clear (a  *)
(* stale record found), claim (before writePidFile), poll, drain (aborted),    *)
(* rm (its own record found at exit).                                          *)
Process ==
  [kind: {"none", "daemon", "stranger"},
   at: {"gone", "boot", "clear", "claim", "poll", "drain", "rm"},
   birth: Births \cup {Unknown},
   raced: BOOLEAN]      \* history: its claim of the file met an open window
Command ==
  [verb: {"none", "up", "down", "update", "show"},
   at: {"idle", "look", "clear", "stop", "stopClear", "kill", "rm",
        "status", "spawn", "wait", "failed"},
   rec: PidRecord, live: Births \cup {Unknown}, child: PidRecord]

DaemonTypeOK ==
  /\ proc \in [Pids -> Process]
  /\ file \in PidRecord
  /\ heard \in BOOLEAN
  /\ cmd \in [Commands -> Command]
  /\ births \in 0..MaxBirths

DaemonInit ==
  /\ proc = [p \in Pids |-> Gone]
  /\ file = NoFile
  /\ heard = FALSE
  /\ cmd = [c \in Commands |-> Idle]
  /\ births = 0

Alive(p) == proc[p].kind # "none"
Daemon(p) == proc[p].kind = "daemon"
To(p, stage) == proc' = [proc EXCEPT ![p].at = stage]
Die(p) == proc' = [proc EXCEPT ![p] = Gone]

(***************************************************************************)
(* verifiedRunningPid, up to the removal of a stale record.  ps may fail:  *)
(* then the live start time is Unknown and being alive is enough.          *)
(* The two texts of ps are compared as the times they stand for: both are  *)
(* written under one locale and time zone.                                 *)
(***************************************************************************)
Times(rec) == IF rec = NoFile THEN {Unknown} ELSE {Unknown, proc[rec.pid].birth}
Mismatch(rec, live) == Unknown \notin {rec.birth, live} /\ rec.birth # live
Stale(rec, live) == rec # NoFile /\ (~Alive(rec.pid) \/ Mismatch(rec, live))
Running(rec, live) == rec # NoFile /\ Alive(rec.pid) /\ ~Mismatch(rec, live)
StaleAlive(rec, live) == rec # NoFile /\ ~Alive(rec.pid)
RunningAlive(rec, live) == rec # NoFile /\ Alive(rec.pid)

(* Somebody else is between its look at the file and what it does about it.  *)
WindowOpen(p) ==
  \/ \E q \in Pids \ {p} : Daemon(q) /\ proc[q].at \in {"clear", "claim", "rm"}
  \/ \E c \in Commands : cmd[c].at \in {"clear", "stopClear", "kill", "rm"}

(***************************************************************************)
(* The daemon.                                                             *)
(***************************************************************************)
Born(p, kind) ==
  /\ ~Alive(p) /\ births < MaxBirths
  /\ births' = births + 1
  /\ proc' = [proc EXCEPT ![p] = [kind |-> kind, at |-> IF kind = "daemon" THEN "boot" ELSE "gone",
                                  birth |-> births + 1, raced |-> FALSE]]

(* A bare `loopany` in a terminal; the commands start daemons with Born too. *)
LaunchByHand(p) == Born(p, "daemon") /\ UNCHANGED <<file, heard, cmd>>

(* The boot's guard: refuse when a verified daemon owns the file. *)
BootLook(p) ==
  /\ Daemon(p) /\ proc[p].at = "boot"
  /\ \E live \in Times(file) :
       \/ Running(file, live) /\ Die(p)
       \/ Stale(file, live) /\ To(p, "clear")
       \/ file = NoFile /\ To(p, "claim")
  /\ UNCHANGED <<file, heard, cmd, births>>

BootClear(p) ==
  /\ Daemon(p) /\ proc[p].at = "clear"
  /\ file' = NoFile
  /\ To(p, "claim")
  /\ UNCHANGED <<heard, cmd, births>>

(* writePidFile, and the poll loop begins. *)
Claim(p) ==
  /\ Daemon(p) /\ proc[p].at = "claim"
  /\ \E time \in {Unknown, proc[p].birth} : file' = [pid |-> p, birth |-> time]
  /\ proc' = [proc EXCEPT ![p].at = "poll", ![p].raced = WindowOpen(p)]
  /\ UNCHANGED <<heard, cmd, births>>

Poll(p) ==
  /\ Daemon(p) /\ proc[p].at = "poll"
  /\ heard' = TRUE
  /\ UNCHANGED <<proc, file, cmd, births>>

(* An exit that removes whatever record there is. *)
ExitLookNever(p) ==
  /\ Daemon(p) /\ proc[p].at = "drain"
  /\ file' = NoFile
  /\ Die(p)
  /\ UNCHANGED <<heard, cmd, births>>

(* The drain is over, closeAll done: clearPidFile(process.pid), in two steps. *)
ExitLook(p) ==
  /\ Daemon(p) /\ proc[p].at = "drain"
  /\ IF file.pid = p THEN To(p, "rm") ELSE Die(p)
  /\ UNCHANGED <<file, heard, cmd, births>>

ExitClear(p) ==
  /\ Daemon(p) /\ proc[p].at = "rm"
  /\ file' = NoFile
  /\ Die(p)
  /\ UNCHANGED <<heard, cmd, births>>

(* SIGINT or SIGTERM: a handler drains a daemon that polls; one still booting  *)
(* has no handler yet, and a stranger simply ends.                             *)
Signal(p) ==
  IF Daemon(p) /\ proc[p].at \in {"poll", "drain", "rm"}
    THEN To(p, IF proc[p].at = "rm" THEN "rm" ELSE "drain")
    ELSE Die(p)

(* A crash, kill -9 or the end of a stranger: the pidfile stays as it is. *)
Crash(p) == Alive(p) /\ Die(p) /\ UNCHANGED <<file, heard, cmd, births>>

Stranger(p) == Born(p, "stranger") /\ UNCHANGED <<file, heard, cmd>>

(* The machine was silent for longer than ONLINE_TTL. *)
HeardExpires == heard /\ heard' = FALSE /\ UNCHANGED <<proc, file, cmd, births>>

(***************************************************************************)
(* The commands.  A command remembers the record it looked at and the      *)
(* start time ps printed for it.                                           *)
(***************************************************************************)
Step(c, stage) == cmd' = [cmd EXCEPT ![c].at = stage]
Saw(c, rec, live) == cmd' = [cmd EXCEPT ![c].at = "kill", ![c].rec = rec, ![c].live = live]
Struck(c) == cmd' = [cmd EXCEPT ![c].at = "rm", ![c].rec = NoFile, ![c].live = Unknown]
Leave(c, stage) ==
  cmd' = [cmd EXCEPT ![c] = [Idle EXCEPT !.at = stage,
                                         !.child = IF stage = "failed" THEN cmd[c].child ELSE NoFile]]

Invoke(c) ==
  /\ cmd[c].at \in {"idle", "failed"}
  /\ \E verb \in {"up", "down", "update", "show"} :
       cmd' = [cmd EXCEPT ![c] = [Idle EXCEPT !.verb = verb,
                                              !.at = IF verb = "down" THEN "stop" ELSE "look"]]
  /\ UNCHANGED <<proc, file, heard, births>>

(* `up` that finds no daemon asks the server, `update` goes on as an `up`. *)
NoneFound(c) ==
  \/ cmd[c].verb = "up" /\ Step(c, "status")
  \/ cmd[c].verb = "update" /\ cmd' = [cmd EXCEPT ![c] = [Idle EXCEPT !.verb = "up", !.at = "look"]]
  \/ cmd[c].verb = "show" /\ Leave(c, "idle")

(* The look of `status`, `up` and `update`: `up` is content with a daemon it   *)
(* finds, `update` turns to `down`.                                            *)
Look(c) ==
  /\ cmd[c].at = "look"
  /\ \E live \in Times(file) :
       \/ Running(file, live) /\ cmd[c].verb = "update" /\ Step(c, "stop")
       \/ Running(file, live) /\ cmd[c].verb # "update" /\ Leave(c, "idle")
       \/ Stale(file, live) /\ Step(c, "clear")
       \/ file = NoFile /\ NoneFound(c)
  /\ UNCHANGED <<proc, file, heard, births>>

LookClear(c) ==
  /\ cmd[c].at = "clear"
  /\ file' = NoFile
  /\ NoneFound(c)
  /\ UNCHANGED <<proc, heard, births>>

(* What follows `down`: nothing, or the forced start of `update`. *)
AfterStop(c) == IF cmd[c].verb = "update" THEN "spawn" ELSE "idle"

(* The look without the start times: whoever has the pid counts as the daemon. *)
StopLookAlive(c) ==
  /\ cmd[c].at = "stop"
  /\ \E live \in Times(file) :
       \/ RunningAlive(file, live) /\ Saw(c, file, live)
       \/ StaleAlive(file, live) /\ Step(c, "stopClear")
       \/ file = NoFile /\ Leave(c, AfterStop(c))
  /\ UNCHANGED <<proc, file, heard, births>>

StopLook(c) ==
  /\ cmd[c].at = "stop"
  /\ \E live \in Times(file) :
       \/ Running(file, live) /\ Saw(c, file, live)
       \/ Stale(file, live) /\ Step(c, "stopClear")
       \/ file = NoFile /\ Leave(c, AfterStop(c))
  /\ UNCHANGED <<proc, file, heard, births>>

(* The removal of a stale record, or the one after the kill: of any record.  *)
StopClear(c) ==
  /\ cmd[c].at \in {"stopClear", "rm"}
  /\ file' = NoFile
  /\ Leave(c, AfterStop(c))
  /\ UNCHANGED <<proc, heard, births>>

(* SIGTERM, ESRCH when the process is gone, EPERM when a stranger is not ours.  *)
Kill(c) ==
  /\ cmd[c].at = "kill"
  /\ LET p == cmd[c].rec.pid
     IN \/ Alive(p) /\ Signal(p) /\ Struck(c)
        \/ ~Alive(p) /\ Struck(c) /\ UNCHANGED proc
        \/ proc[p].kind = "stranger" /\ Leave(c, "failed") /\ UNCHANGED proc
  /\ UNCHANGED <<file, heard, births>>

(* fetchMachineStatus before the spawn: offline and unreachable are the same. *)
Status(c) ==
  /\ cmd[c].at = "status"
  /\ \/ heard /\ Leave(c, "idle")
     \/ Leave(c, "spawn")
  /\ UNCHANGED <<proc, file, heard, births>>

Spawn(c) ==
  /\ cmd[c].at = "spawn"
  /\ \E p \in Pids :
       /\ Born(p, "daemon")
       /\ cmd' = [cmd EXCEPT ![c].at = "wait", ![c].child = [pid |-> p, birth |-> births + 1]]
  /\ UNCHANGED <<file, heard>>

(* The readiness probe: online, or the attempts are used up and the child, if  *)
(* it is still there, is told to stop.                                         *)
Ready(c) ==
  /\ cmd[c].at = "wait" /\ heard
  /\ Leave(c, "idle")
  /\ UNCHANGED <<proc, file, heard, births>>

TimeOut(c) ==
  /\ cmd[c].at = "wait"
  /\ LET p == cmd[c].child.pid
     IN IF Alive(p) THEN Signal(p) ELSE UNCHANGED proc
  /\ Leave(c, "failed")
  /\ UNCHANGED <<file, heard, births>>

DaemonNext ==
  \/ \E p \in Pids :
       \/ LaunchByHand(p) \/ BootLook(p) \/ BootClear(p) \/ Claim(p) \/ Poll(p)
       \/ ExitLook(p) \/ ExitClear(p) \/ Crash(p) \/ Stranger(p)
  \/ \E c \in Commands :
       \/ Invoke(c) \/ Look(c) \/ LookClear(c) \/ StopLook(c) \/ StopClear(c) \/ Kill(c)
       \/ Status(c) \/ Spawn(c) \/ Ready(c) \/ TimeOut(c)
  \/ HeardExpires

DaemonSpec == DaemonInit /\ [][DaemonNext]_daemonVars

Polling == {p \in Pids : Daemon(p) /\ proc[p].at = "poll"}

(***************************************************************************)
(* A daemon that polls is the one the pidfile names, where `status` and    *)
(* `down` will find it, unless it claimed the file while somebody else was *)
(* between a look at the file and the write or removal that followed; so a *)
(* second daemon polls only after such a race (daemon.ts, boot and exit).  *)
(***************************************************************************)
DaemonIsRecorded == \A p \in Polling : file.pid = p \/ proc[p].raced

(***************************************************************************)
(* `down` and `update` signal no stranger that had the recorded pid when   *)
(* they looked: it took the pid after the look, or ps could not tell one   *)
(* of the two start times (control.ts, runDown).                           *)
(***************************************************************************)
StrangersAreSpared ==
  \A c \in Commands :
    cmd[c].at = "kill" /\ proc[cmd[c].rec.pid].kind = "stranger" =>
      \/ Unknown \in {cmd[c].rec.birth, cmd[c].live}
      \/ proc[cmd[c].rec.pid].birth # cmd[c].live

=============================================================================
