---------------------------- MODULE ProcessProofs ----------------------------
(***************************************************************************)
(* Processes, on the machine and of the server.  The pidfile names the     *)
(* daemon that polls and the commands signal no stranger, for any pids,    *)
(* commands and number of births; who outlives a child that was told to    *)
(* stop, for any sessions and any number of events; what the token buckets *)
(* grant, and how many silent pings the database watchdog lives through;   *)
(* that the timeline draws no fire twice, that server and daemon take a    *)
(* directory for the same loops, and that the home page, read one loop     *)
(* after the other, leaves out no run for an older one.                    *)
(***************************************************************************)
EXTENDS MCProcesses, WellFoundedInduction, FiniteSetTheorems, TLAPS

(***************************************************************************)
(* While a daemon polls that claimed the file with nobody in between, the  *)
(* file is its own and nobody is about to write or remove it: whoever      *)
(* looks finds it alive and its start time, if ps tells it, agrees.        *)
(***************************************************************************)
Undisturbed(p) ==
  /\ file.pid = p
  /\ file.birth \in {Unknown, proc[p].birth}
  /\ \A q \in Pids : Daemon(q) => proc[q].at \notin {"clear", "claim", "rm"}
  /\ \A c \in Commands : /\ cmd[c].at \notin {"clear", "stopClear", "rm"}
                         /\ cmd[c].at = "kill" => cmd[c].rec.pid = p
RecordKept == \A p \in Polling : ~proc[p].raced => Undisturbed(p)

(* No two processes are of one birth, and none is of a birth to come. *)
BirthsApart ==
  /\ \A p \in Pids : proc[p].birth <= births /\ (Alive(p) => proc[p].birth # Unknown)
  /\ \A p, q \in Pids : Alive(p) /\ Alive(q) /\ proc[p].birth = proc[q].birth => p = q

(* A record is of a daemon's birth: no stranger is of it, or will be. *)
OfADaemon(rec) ==
  /\ rec.birth <= births
  /\ \A p \in Pids : proc[p].kind = "stranger" => proc[p].birth # rec.birth
RecordsOfDaemons ==
  /\ OfADaemon(file)
  /\ \A c \in Commands : cmd[c].at = "kill" =>
       /\ OfADaemon(cmd[c].rec)
       /\ Unknown \in {cmd[c].rec.birth, cmd[c].live} \/ cmd[c].rec.birth = cmd[c].live

(* Whoever a command is about to signal is a process. *)
TargetsKnown ==
  \A c \in Commands : /\ cmd[c].at = "kill" => cmd[c].rec.pid \in Pids
                      /\ cmd[c].at = "wait" => cmd[c].child.pid \in Pids

DaemonInv == DaemonTypeOK /\ RecordKept /\ BirthsApart /\ RecordsOfDaemons /\ TargetsKnown

LEMMA InitDaemonInv == ASSUME DaemonBounds, DaemonInit PROVE DaemonInv
<1> USE DEF DaemonInit, DaemonBounds
<1>1. NoFile \in PidRecord /\ Gone \in Process /\ Idle \in Command
  BY DEF PidRecord, NoFile, Gone, Process, Idle, Command, Births, Unknown
<1>2. births \in 0..MaxBirths
  <2>1. births = 0 /\ MaxBirths \in Nat  OBVIOUS
  <2> QED  BY <2>1
<1>8. heard \in BOOLEAN  OBVIOUS
<1>3. proc \in [Pids -> Process] /\ cmd \in [Commands -> Command] /\ file \in PidRecord
  BY <1>1
<1>4. DaemonTypeOK  BY <1>2, <1>3, <1>8 DEF DaemonTypeOK
<1>5. RecordKept  BY DEF RecordKept, Polling, Daemon, Gone
<1>6. BirthsApart  BY DEF BirthsApart, Alive, Gone, Unknown
<1>7. RecordsOfDaemons  BY DEF RecordsOfDaemons, OfADaemon, NoFile, Gone, Idle, Unknown
<1>9. TargetsKnown  BY DEF TargetsKnown, Idle
<1> QED  BY <1>4, <1>5, <1>6, <1>7, <1>9 DEF DaemonInv

(***************************************************************************)
(* What the steps are made of, typed.                                      *)
(***************************************************************************)
Stages == {"gone", "boot", "clear", "claim", "poll", "drain", "rm"}
LEMMA ToTyped ==
  ASSUME DaemonTypeOK, NEW p \in Pids, NEW stage \in Stages, To(p, stage)
  PROVE  /\ proc' \in [Pids -> Process]
         /\ proc'[p].at = stage /\ proc'[p].kind = proc[p].kind
         /\ proc'[p].birth = proc[p].birth /\ proc'[p].raced = proc[p].raced
         /\ \A q \in Pids \ {p} : proc'[q] = proc[q]
  BY DEF DaemonTypeOK, Process, Stages, To

LEMMA DieTyped ==
  ASSUME DaemonTypeOK, NEW p \in Pids, Die(p)
  PROVE  /\ proc' \in [Pids -> Process]
         /\ proc'[p] = Gone
         /\ \A q \in Pids \ {p} : proc'[q] = proc[q]
<1>1. Gone \in Process  BY DEF Gone, Process, Unknown
<1> QED  BY <1>1 DEF DaemonTypeOK, Die

LEMMA BornTyped ==
  ASSUME DaemonBounds, DaemonTypeOK, NEW p \in Pids, NEW kind \in {"daemon", "stranger"}, Born(p, kind)
  PROVE  /\ proc' \in [Pids -> Process]
         /\ births' = births + 1 /\ births' \in 0..MaxBirths /\ births' # Unknown
         /\ ~Alive(p)
         /\ proc'[p].kind = kind /\ proc'[p].at \in {"boot", "gone"} /\ proc'[p].birth = births'
         /\ \A q \in Pids \ {p} : proc'[q] = proc[q]
<1> DEFINE baby == [kind |-> kind, at |-> IF kind = "daemon" THEN "boot" ELSE "gone",
                    birth |-> births + 1, raced |-> FALSE]
<1>1. /\ births' = births + 1 /\ births' \in 0..MaxBirths /\ births' # Unknown
      /\ births + 1 \in Births
  BY DEF DaemonBounds, DaemonTypeOK, Born, Births, Unknown
<1>2. baby \in Process  BY <1>1 DEF Process
<1>3. proc' = [proc EXCEPT ![p] = baby] /\ ~Alive(p)  BY DEF Born
<1>4. baby.kind = kind /\ baby.at \in {"boot", "gone"} /\ baby.birth = births + 1  OBVIOUS
<1> HIDE DEF baby
<1> QED  BY <1>1, <1>2, <1>3, <1>4 DEF DaemonTypeOK

LEMMA SignalTyped ==
  ASSUME DaemonTypeOK, NEW p \in Pids, Signal(p)
  PROVE  /\ proc' \in [Pids -> Process]
         /\ \/ proc'[p] = Gone
            \/ /\ Daemon(p) /\ proc'[p].kind = proc[p].kind
               /\ proc'[p].birth = proc[p].birth
               /\ proc'[p].at = IF proc[p].at = "rm" THEN "rm" ELSE "drain"
         /\ \A q \in Pids \ {p} : proc'[q] = proc[q]
<1>1. CASE Daemon(p) /\ proc[p].at \in {"poll", "drain", "rm"}
  <2> DEFINE stage == IF proc[p].at = "rm" THEN "rm" ELSE "drain"
  <2>1. To(p, stage) /\ stage \in Stages  BY <1>1 DEF Signal, Stages
  <2> HIDE DEF stage
  <2>2. /\ proc' \in [Pids -> Process] /\ proc'[p].at = stage /\ proc'[p].kind = proc[p].kind
        /\ proc'[p].birth = proc[p].birth /\ \A q \in Pids \ {p} : proc'[q] = proc[q]
    BY <2>1, ToTyped
  <2> QED  BY <1>1, <2>2 DEF stage
<1>2. CASE ~(Daemon(p) /\ proc[p].at \in {"poll", "drain", "rm"})
  BY <1>2, DieTyped DEF Signal
<1> QED  BY <1>1, <1>2

(***************************************************************************)
(* What a step may do to one process, to the file and to one command.      *)
(***************************************************************************)
NewStage(p) ==
  \/ proc'[p].at = "clear" /\ \E live \in Times(file) : Stale(file, live)
  \/ proc'[p].at = "claim" /\ (file = NoFile \/ proc[p].at = "clear")
  \/ proc'[p].at = "rm" /\ (file.pid = p \/ proc[p].at = "rm")
  \/ proc'[p].at = "drain"
  \/ Claim(p)
Became(p) ==
  \/ proc'[p] = proc[p]
  \/ proc'[p] = Gone
  \/ /\ ~Alive(p) /\ proc'[p].birth = births'
     /\ births' = births + 1 /\ births' # Unknown
     /\ \A q \in Pids \ {p} : proc'[q] = proc[q]
     /\ proc'[p].kind \in {"daemon", "stranger"} /\ proc'[p].at \in {"boot", "gone"}
  \/ /\ Daemon(p) /\ proc'[p].kind = proc[p].kind /\ proc'[p].birth = proc[p].birth
     /\ NewStage(p)

LEMMA ClaimTyped ==
  ASSUME DaemonTypeOK, NEW p \in Pids, Claim(p)
  PROVE  /\ proc' \in [Pids -> Process] /\ file' \in PidRecord
         /\ proc'[p].kind = proc[p].kind /\ proc'[p].birth = proc[p].birth
         /\ proc'[p].at = "poll" /\ proc'[p].raced = WindowOpen(p)
         /\ file'.pid = p /\ file'.birth \in {Unknown, proc[p].birth}
         /\ \A q \in Pids \ {p} : proc'[q] = proc[q]
<1> DEFINE open == WindowOpen(p)
           up == [proc[p] EXCEPT !.at = "poll", !.raced = open]
<1>1. open \in BOOLEAN  BY DEF WindowOpen
<1>2. proc' = [proc EXCEPT ![p] = up] /\ Daemon(p)  BY DEF Claim
<1>3. proc[p] \in Process  BY DEF DaemonTypeOK
<1> HIDE DEF open
<1>4. up \in Process /\ up.kind = proc[p].kind /\ up.birth = proc[p].birth /\ up.at = "poll" /\ up.raced = open
  BY <1>1, <1>3 DEF Process
<1>5. PICK time \in {Unknown, proc[p].birth} : file' = [pid |-> p, birth |-> time]  BY DEF Claim
<1>6. time \in Births \cup {Unknown}  BY <1>3, <1>5 DEF Process
<1>7. file' \in PidRecord /\ file'.pid = p /\ file'.birth \in {Unknown, proc[p].birth}
  BY <1>5, <1>6 DEF PidRecord
<1> HIDE DEF up
<1> QED  BY <1>2, <1>4, <1>7 DEF DaemonTypeOK, open

LEMMA ProcStep ==
  ASSUME DaemonBounds, DaemonTypeOK, TargetsKnown, [DaemonNext]_daemonVars
  PROVE  proc' \in [Pids -> Process] /\ \A p \in Pids : Became(p)
<1> DEFINE Good == proc' \in [Pids -> Process] /\ \A p \in Pids : Became(p)
<1>1. ASSUME proc' = proc PROVE Good  BY <1>1 DEF DaemonTypeOK, Became
<1>2. ASSUME NEW p \in Pids, Die(p) PROVE Good  BY <1>2, DieTyped DEF Became
<1>3. ASSUME NEW p \in Pids, NEW kind \in {"daemon", "stranger"}, Born(p, kind) PROVE Good
  <2>1. Became(p)  BY <1>3, BornTyped DEF Became
  <2> QED  BY <1>3, <2>1, BornTyped DEF Became
<1>4. ASSUME NEW p \in Pids, Signal(p) PROVE Good
  <2>1. CASE proc'[p] = Gone  BY <1>4, <2>1, SignalTyped DEF Became
  <2>2. CASE proc'[p] # Gone
    <3>1. /\ Daemon(p) /\ proc'[p].kind = proc[p].kind /\ proc'[p].birth = proc[p].birth
          /\ proc'[p].at = IF proc[p].at = "rm" THEN "rm" ELSE "drain"
      BY <1>4, <2>2, SignalTyped
    <3>2. Became(p)  BY <3>1 DEF Became, NewStage
    <3> QED  BY <1>4, <3>2, SignalTyped DEF Became
  <2> QED  BY <2>1, <2>2
<1>5. ASSUME NEW p \in Pids, NEW stage \in Stages, Daemon(p), To(p, stage),
             stage = proc'[p].at => NewStage(p)
      PROVE Good
  <2>1. Became(p)  BY <1>5, ToTyped DEF Became
  <2> QED  BY <1>5, <2>1, ToTyped DEF Became
<1>6. ASSUME NEW p \in Pids, BootLook(p) PROVE Good
  <2>1. Daemon(p)  BY <1>6 DEF BootLook
  <2>2. PICK live \in Times(file) : \/ Running(file, live) /\ Die(p)
                                    \/ Stale(file, live) /\ To(p, "clear")
                                    \/ file = NoFile /\ To(p, "claim")
    BY <1>6 DEF BootLook
  <2>3. CASE Stale(file, live) /\ To(p, "clear")
    BY <1>5, <2>1, <2>2, <2>3 DEF NewStage, Stages
  <2>4. CASE file = NoFile /\ To(p, "claim")
    BY <1>5, <2>1, <2>4 DEF NewStage, Stages
  <2> QED  BY <1>2, <2>2, <2>3, <2>4
<1>7. ASSUME NEW p \in Pids, BootClear(p) PROVE Good
  <2>1. Daemon(p) /\ proc[p].at = "clear" /\ To(p, "claim")  BY <1>7 DEF BootClear
  <2> QED  BY <1>5, <2>1 DEF NewStage, Stages
<1>8. ASSUME NEW p \in Pids, Claim(p) PROVE Good
  <2>1. Daemon(p)  BY <1>8 DEF Claim
  <2>2. Became(p)  BY <1>8, <2>1, ClaimTyped DEF Became, NewStage
  <2> QED  BY <1>8, <2>2, ClaimTyped DEF Became
<1>9. ASSUME NEW p \in Pids, ExitLook(p) PROVE Good
  <2>1. CASE file.pid = p
    <3>1. Daemon(p) /\ To(p, "rm")  BY <1>9, <2>1 DEF ExitLook
    <3> QED  BY <1>5, <2>1, <3>1 DEF NewStage, Stages
  <2>2. CASE file.pid # p  BY <1>2, <1>9, <2>2 DEF ExitLook
  <2> QED  BY <2>1, <2>2
<1>10. ASSUME NEW p \in Pids, ExitClear(p) \/ Crash(p) PROVE Good
  BY <1>2, <1>10 DEF ExitClear, Crash
<1>11. ASSUME NEW p \in Pids, LaunchByHand(p) \/ Stranger(p) PROVE Good
  BY <1>3, <1>11 DEF LaunchByHand, Stranger
<1>12. ASSUME NEW c \in Commands, Kill(c) PROVE Good
  <2>1. cmd[c].rec.pid \in Pids  BY <1>12 DEF Kill, TargetsKnown
  <2>2. proc' = proc \/ Signal(cmd[c].rec.pid)  BY <1>12, Zenon DEF Kill
  <2> QED  BY <1>1, <1>4, <2>1, <2>2
<1>13. ASSUME NEW c \in Commands, TimeOut(c) PROVE Good
  <2>1. cmd[c].child.pid \in Pids  BY <1>13 DEF TimeOut, TargetsKnown
  <2>2. proc' = proc \/ Signal(cmd[c].child.pid)  BY <1>13, Zenon DEF TimeOut
  <2> QED  BY <1>1, <1>4, <2>1, <2>2
<1>14. ASSUME NEW c \in Commands, Spawn(c) PROVE Good
  <2>1. PICK p \in Pids : Born(p, "daemon")  BY <1>14 DEF Spawn
  <2> QED  BY <1>3, <2>1
<1>15. ASSUME NEW c \in Commands,
              Invoke(c) \/ Look(c) \/ LookClear(c) \/ StopLook(c) \/ StopClear(c) \/ Status(c) \/ Ready(c)
       PROVE proc' = proc
  BY <1>15, Zenon DEF Invoke, Look, LookClear, StopLook, StopClear, Status, Ready
<1>16. ASSUME NEW p \in Pids, Poll(p) PROVE proc' = proc  BY <1>16 DEF Poll
<1>17. ASSUME HeardExpires \/ UNCHANGED daemonVars PROVE proc' = proc  BY <1>17 DEF HeardExpires, daemonVars
<1> HIDE DEF Good
<1>18. ASSUME NEW p \in Pids,
              \/ LaunchByHand(p) \/ BootLook(p) \/ BootClear(p) \/ Claim(p) \/ Poll(p)
              \/ ExitLook(p) \/ ExitClear(p) \/ Crash(p) \/ Stranger(p)
       PROVE Good
  BY <1>1, <1>6, <1>7, <1>8, <1>9, <1>10, <1>11, <1>16, <1>18, Zenon
<1>19. ASSUME NEW c \in Commands,
              \/ Invoke(c) \/ Look(c) \/ LookClear(c) \/ StopLook(c) \/ StopClear(c) \/ Kill(c)
              \/ Status(c) \/ Spawn(c) \/ Ready(c) \/ TimeOut(c)
       PROVE Good
  BY <1>1, <1>12, <1>13, <1>14, <1>15, <1>19, Zenon
<1>20. Good  BY <1>1, <1>17, <1>18, <1>19, Zenon DEF DaemonNext
<1> QED  BY <1>20 DEF Good

(* Records are written by a claim, and removed by whoever looked before. *)
LEMMA FileStep ==
  ASSUME DaemonTypeOK, [DaemonNext]_daemonVars
  PROVE  \/ file' = file
         \/ /\ file' = NoFile
            /\ \/ \E q \in Pids : Daemon(q) /\ proc[q].at \in {"clear", "rm"}
               \/ \E c \in Commands : cmd[c].at \in {"clear", "stopClear", "rm"}
         \/ \E q \in Pids : Claim(q)
<1>1. ASSUME NEW p \in Pids, BootClear(p) \/ ExitClear(p)
      PROVE  file' = NoFile /\ Daemon(p) /\ proc[p].at \in {"clear", "rm"}
  BY <1>1 DEF BootClear, ExitClear
<1>2. ASSUME NEW c \in Commands, LookClear(c) \/ StopClear(c)
      PROVE  file' = NoFile /\ cmd[c].at \in {"clear", "stopClear", "rm"}
  BY <1>2 DEF LookClear, StopClear
<1>3. ASSUME NEW p \in Pids, LaunchByHand(p) \/ BootLook(p) \/ Poll(p) \/ ExitLook(p) \/ Crash(p) \/ Stranger(p)
      PROVE  file' = file
  BY <1>3, Zenon DEF LaunchByHand, BootLook, Poll, ExitLook, Crash, Stranger
<1>4. ASSUME NEW c \in Commands,
             Invoke(c) \/ Look(c) \/ StopLook(c) \/ Kill(c) \/ Status(c) \/ Spawn(c) \/ Ready(c) \/ TimeOut(c)
      PROVE  file' = file
  BY <1>4, Zenon DEF Invoke, Look, StopLook, Kill, Status, Spawn, Ready, TimeOut
<1>5. ASSUME HeardExpires \/ UNCHANGED daemonVars PROVE file' = file  BY <1>5 DEF HeardExpires, daemonVars
<1> QED  BY <1>1, <1>2, <1>3, <1>4, <1>5 DEF DaemonNext

Phases == {"idle", "look", "clear", "stop", "stopClear", "kill", "rm", "status", "spawn", "wait", "failed"}
Turned(c) ==
  \/ cmd'[c] = cmd[c]
  \/ cmd'[c].at \in Phases \ {"clear", "stopClear", "kill", "rm", "wait"}
  \/ cmd'[c].at = "wait" /\ cmd'[c].child.pid \in Pids
  \/ /\ cmd'[c].at \in {"clear", "stopClear"}
     /\ \E live \in Times(file) : Stale(file, live)
  \/ /\ cmd'[c].at = "kill" /\ cmd'[c].rec = file /\ cmd'[c].live \in Times(file)
     /\ Running(file, cmd'[c].live) /\ proc' = proc /\ file' = file /\ births' = births
  \/ cmd'[c].at = "rm" /\ Kill(c)

LEMMA TimesTyped == ASSUME DaemonTypeOK PROVE Times(file) \subseteq Births \cup {Unknown}
<1>1. CASE file = NoFile  BY <1>1 DEF Times
<1>2. CASE file # NoFile
  <2>1. file.pid \in Pids  BY <1>2 DEF DaemonTypeOK, PidRecord
  <2> QED  BY <1>2, <2>1 DEF DaemonTypeOK, Times, Process
<1> QED  BY <1>1, <1>2

LEMMA CommandStep ==
  ASSUME DaemonBounds, DaemonTypeOK, TargetsKnown, [DaemonNext]_daemonVars
  PROVE  cmd' \in [Commands -> Command] /\ \A c \in Commands : Turned(c)
<1> DEFINE Good == cmd' \in [Commands -> Command] /\ \A c \in Commands : Turned(c)
<1>0. cmd \in [Commands -> Command] /\ file \in PidRecord /\ NoFile \in PidRecord
  BY DEF DaemonTypeOK, PidRecord
<1>1. ASSUME cmd' = cmd PROVE Good  BY <1>0, <1>1 DEF Turned
<1>2. ASSUME NEW c \in Commands, NEW new \in Command, cmd' = [cmd EXCEPT ![c] = new], Turned(c) PROVE Good
  BY <1>0, <1>2 DEF Turned
<1>3. ASSUME NEW c \in Commands, NEW stage \in Phases, Step(c, stage),
             cmd'[c].at = stage => Turned(c)
      PROVE Good
  <2> DEFINE new == [cmd[c] EXCEPT !.at = stage]
  <2>1. new \in Command /\ new.at = stage  BY <1>0 DEF Command, Phases
  <2>2. cmd' = [cmd EXCEPT ![c] = new]  BY <1>3 DEF Step
  <2> HIDE DEF new
  <2>3. cmd'[c] = new  BY <1>0, <2>2
  <2> QED  BY <1>2, <1>3, <2>1, <2>2, <2>3
<1>4. ASSUME NEW c \in Commands, NEW stage \in {"idle", "failed", "spawn"}, Leave(c, stage) PROVE Good
  <2> DEFINE kept == IF stage = "failed" THEN cmd[c].child ELSE NoFile
             new == [Idle EXCEPT !.at = stage, !.child = kept]
  <2>1. kept \in PidRecord  BY <1>0 DEF Command
  <2>2. cmd' = [cmd EXCEPT ![c] = new]  BY <1>4 DEF Leave
  <2> HIDE DEF kept
  <2>3. new \in Command /\ new.at = stage  BY <1>0, <2>1 DEF Command, Idle
  <2> HIDE DEF new
  <2>4. cmd'[c] = new  BY <1>0, <2>2
  <2>5. Turned(c)  BY <2>3, <2>4 DEF Turned, Phases
  <2> QED  BY <1>2, <2>2, <2>3, <2>5
<1>5. ASSUME NEW c \in Commands, NEW verb \in {"up", "down", "update", "show"}, NEW stage \in {"look", "stop"},
             cmd' = [cmd EXCEPT ![c] = [Idle EXCEPT !.verb = verb, !.at = stage]]
      PROVE Good
  <2> DEFINE new == [Idle EXCEPT !.verb = verb, !.at = stage]
  <2>1. new \in Command /\ new.at = stage  BY <1>0 DEF Command, Idle
  <2> HIDE DEF new
  <2>2. cmd' = [cmd EXCEPT ![c] = new]  BY <1>5 DEF new
  <2>3. cmd'[c] = new  BY <1>0, <2>2
  <2>4. Turned(c)  BY <2>1, <2>3 DEF Turned, Phases
  <2> QED  BY <1>2, <2>1, <2>2, <2>4
<1>6. ASSUME NEW c \in Commands, NEW stage \in {"status", "stop", "spawn"}, Step(c, stage) PROVE Good
  <2>1. stage \in Phases \ {"clear", "stopClear", "kill", "rm", "wait"}  BY DEF Phases
  <2>2. cmd'[c].at = stage => Turned(c)  BY <2>1 DEF Turned
  <2> QED  BY <1>3, <1>6, <2>1, <2>2
<1>7. ASSUME NEW c \in Commands, NEW stage \in {"clear", "stopClear"}, Step(c, stage),
             NEW live \in Times(file), Stale(file, live)
      PROVE Good
  <2>1. cmd'[c].at = stage => Turned(c)  BY <1>7 DEF Turned
  <2>2. stage \in Phases  BY DEF Phases
  <2> QED  BY <1>3, <1>7, <2>1, <2>2
<1>8. ASSUME NEW c \in Commands, NoneFound(c) PROVE Good
  <2>1. CASE Step(c, "status")  BY <1>6, <2>1
  <2>2. CASE cmd' = [cmd EXCEPT ![c] = [Idle EXCEPT !.verb = "up", !.at = "look"]]  BY <1>5, <2>2
  <2>3. CASE Leave(c, "idle")  BY <1>4, <2>3
  <2> QED  BY <1>8, <2>1, <2>2, <2>3 DEF NoneFound
<1>9. ASSUME NEW c \in Commands PROVE AfterStop(c) \in {"idle", "spawn"}  BY DEF AfterStop
<1>10. ASSUME NEW c \in Commands, Invoke(c) PROVE Good
  <2>1. PICK verb \in {"up", "down", "update", "show"} :
          cmd' = [cmd EXCEPT ![c] = [Idle EXCEPT !.verb = verb, !.at = IF verb = "down" THEN "stop" ELSE "look"]]
    BY <1>10 DEF Invoke
  <2>2. CASE verb = "down"  BY <1>5, <2>1, <2>2
  <2>3. CASE verb # "down"  BY <1>5, <2>1, <2>3
  <2> QED  BY <2>2, <2>3
<1>11. ASSUME NEW c \in Commands, Look(c) PROVE Good
  <2>1. PICK live \in Times(file) : \/ Running(file, live) /\ cmd[c].verb = "update" /\ Step(c, "stop")
                                    \/ Running(file, live) /\ cmd[c].verb # "update" /\ Leave(c, "idle")
                                    \/ Stale(file, live) /\ Step(c, "clear")
                                    \/ file = NoFile /\ NoneFound(c)
    BY <1>11 DEF Look
  <2> QED  BY <1>4, <1>6, <1>7, <1>8, <2>1
<1>12. ASSUME NEW c \in Commands, LookClear(c) PROVE Good  BY <1>8, <1>12 DEF LookClear
<1>13. ASSUME NEW c \in Commands, StopLook(c) PROVE Good
  <2>1. PICK live \in Times(file) : \/ Running(file, live) /\ Saw(c, file, live)
                                    \/ Stale(file, live) /\ Step(c, "stopClear")
                                    \/ file = NoFile /\ Leave(c, AfterStop(c))
    BY <1>13 DEF StopLook
  <2>2. CASE Running(file, live) /\ Saw(c, file, live)
    <3> DEFINE new == [cmd[c] EXCEPT !.at = "kill", !.rec = file, !.live = live]
    <3>1. live \in Births \cup {Unknown}  BY TimesTyped
    <3>2. new \in Command /\ new.at = "kill" /\ new.rec = file /\ new.live = live
      BY <1>0, <3>1 DEF Command
    <3>3. cmd' = [cmd EXCEPT ![c] = new]  BY <1>0, <2>2 DEF Saw, Command
    <3> HIDE DEF new
    <3>4. cmd'[c] = new  BY <1>0, <3>3
    <3>5. proc' = proc /\ file' = file /\ births' = births  BY <1>13 DEF StopLook
    <3>6. Turned(c)  BY <2>2, <3>2, <3>4, <3>5 DEF Turned
    <3> QED  BY <1>2, <3>2, <3>3, <3>6
  <2> QED  BY <1>4, <1>7, <1>9, <2>1, <2>2
<1>14. ASSUME NEW c \in Commands, StopClear(c) PROVE Good  BY <1>4, <1>9, <1>14 DEF StopClear
<1>15. ASSUME NEW c \in Commands, Kill(c) PROVE Good
  <2>1. CASE Struck(c)
    <3> DEFINE new == [cmd[c] EXCEPT !.at = "rm", !.rec = NoFile, !.live = Unknown]
    <3>1. new \in Command /\ new.at = "rm"  BY <1>0 DEF Command
    <3>2. cmd' = [cmd EXCEPT ![c] = new]  BY <1>0, <2>1 DEF Struck, Command
    <3> HIDE DEF new
    <3>3. cmd'[c] = new  BY <1>0, <3>2
    <3>4. Turned(c)  BY <1>15, <3>1, <3>3 DEF Turned
    <3> QED  BY <1>2, <3>1, <3>2, <3>4
  <2>2. CASE Leave(c, "failed")  BY <1>4, <2>2
  <2> QED  BY <1>15, <2>1, <2>2, Zenon DEF Kill
<1>16. ASSUME NEW c \in Commands, Status(c) PROVE Good  BY <1>4, <1>16 DEF Status
<1>17. ASSUME NEW c \in Commands, Spawn(c) PROVE Good
  <2>1. PICK p \in Pids : /\ Born(p, "daemon")
                          /\ cmd' = [cmd EXCEPT ![c].at = "wait", ![c].child = [pid |-> p, birth |-> births + 1]]
    BY <1>17 DEF Spawn
  <2> DEFINE child == [pid |-> p, birth |-> births + 1]
             new == [cmd[c] EXCEPT !.at = "wait", !.child = child]
  <2>2. births + 1 \in Births  BY <2>1 DEF Born, DaemonTypeOK, DaemonBounds, Births
  <2>3. child \in PidRecord /\ child.pid \in Pids  BY <2>2 DEF PidRecord
  <2>4. cmd' = [cmd EXCEPT ![c] = new]  BY <1>0, <2>1 DEF Command
  <2> HIDE DEF child
  <2>5. new \in Command /\ new.at = "wait" /\ new.child = child  BY <1>0, <2>3 DEF Command
  <2> HIDE DEF new
  <2>6. cmd'[c] = new  BY <1>0, <2>4
  <2>7. Turned(c)  BY <2>3, <2>5, <2>6 DEF Turned
  <2> QED  BY <1>2, <2>4, <2>5, <2>7
<1>18. ASSUME NEW c \in Commands, Ready(c) \/ TimeOut(c) PROVE Good  BY <1>4, <1>18, Zenon DEF Ready, TimeOut
<1>19. ASSUME NEW p \in Pids,
              \/ LaunchByHand(p) \/ BootLook(p) \/ BootClear(p) \/ Claim(p) \/ Poll(p)
              \/ ExitLook(p) \/ ExitClear(p) \/ Crash(p) \/ Stranger(p)
       PROVE cmd' = cmd
  BY <1>19, Zenon DEF LaunchByHand, BootLook, BootClear, Claim, Poll, ExitLook, ExitClear, Crash, Stranger
<1>20. ASSUME HeardExpires \/ UNCHANGED daemonVars PROVE cmd' = cmd  BY <1>20 DEF HeardExpires, daemonVars
<1> HIDE DEF Good
<1>21. ASSUME NEW c \in Commands,
              \/ Invoke(c) \/ Look(c) \/ LookClear(c) \/ StopLook(c) \/ StopClear(c) \/ Kill(c)
              \/ Status(c) \/ Spawn(c) \/ Ready(c) \/ TimeOut(c)
       PROVE Good
  BY <1>10, <1>11, <1>12, <1>13, <1>14, <1>15, <1>16, <1>17, <1>18, <1>21, Zenon
<1>22. Good  BY <1>1, <1>19, <1>20, <1>21, Zenon DEF DaemonNext
<1> QED  BY <1>22 DEF Good

LEMMA BirthsStep ==
  ASSUME DaemonBounds, DaemonTypeOK, [DaemonNext]_daemonVars
  PROVE  births' \in 0..MaxBirths /\ births <= births'
<1>0. births \in 0..MaxBirths /\ births <= births  BY DEF DaemonTypeOK, DaemonBounds
<1>1. ASSUME NEW p \in Pids, NEW kind, Born(p, kind) PROVE births' \in 0..MaxBirths /\ births <= births'
  <2>1. births' = births + 1 /\ births < MaxBirths  BY <1>1 DEF Born
  <2> QED  BY <1>0, <2>1 DEF DaemonBounds
<1>2. ASSUME NEW p \in Pids, LaunchByHand(p) \/ Stranger(p) PROVE births' \in 0..MaxBirths /\ births <= births'
  BY <1>1, <1>2 DEF LaunchByHand, Stranger
<1>3. ASSUME NEW c \in Commands, Spawn(c) PROVE births' \in 0..MaxBirths /\ births <= births'
  BY <1>1, <1>3 DEF Spawn
<1>4. ASSUME NEW p \in Pids,
             BootLook(p) \/ BootClear(p) \/ Claim(p) \/ Poll(p) \/ ExitLook(p) \/ ExitClear(p) \/ Crash(p)
      PROVE births' = births
  BY <1>4, Zenon DEF BootLook, BootClear, Claim, Poll, ExitLook, ExitClear, Crash
<1>5. ASSUME NEW c \in Commands,
             \/ Invoke(c) \/ Look(c) \/ LookClear(c) \/ StopLook(c) \/ StopClear(c) \/ Kill(c)
             \/ Status(c) \/ Ready(c) \/ TimeOut(c)
      PROVE births' = births
  BY <1>5, Zenon DEF Invoke, Look, LookClear, StopLook, StopClear, Kill, Status, Ready, TimeOut
<1>6. ASSUME HeardExpires \/ UNCHANGED daemonVars PROVE births' = births  BY <1>6 DEF HeardExpires, daemonVars
<1> QED  BY <1>0, <1>2, <1>3, <1>4, <1>5, <1>6 DEF DaemonNext

LEMMA HeardStep == ASSUME DaemonTypeOK, [DaemonNext]_daemonVars PROVE heard' \in BOOLEAN
<1>1. ASSUME NEW p \in Pids, Poll(p) PROVE heard' \in BOOLEAN
  <2>1. heard' = TRUE  BY <1>1 DEF Poll
  <2> QED  BY <2>1
<1>2. CASE HeardExpires
  <2>1. heard' = FALSE  BY <1>2 DEF HeardExpires
  <2> QED  BY <2>1
<1>3. ASSUME NEW p \in Pids,
             \/ LaunchByHand(p) \/ BootLook(p) \/ BootClear(p) \/ Claim(p)
             \/ ExitLook(p) \/ ExitClear(p) \/ Crash(p) \/ Stranger(p)
      PROVE heard' = heard
  BY <1>3, Zenon DEF LaunchByHand, BootLook, BootClear, Claim, ExitLook, ExitClear, Crash, Stranger
<1>4. ASSUME NEW c \in Commands,
             \/ Invoke(c) \/ Look(c) \/ LookClear(c) \/ StopLook(c) \/ StopClear(c) \/ Kill(c)
             \/ Status(c) \/ Spawn(c) \/ Ready(c) \/ TimeOut(c)
      PROVE heard' = heard
  BY <1>4, Zenon DEF Invoke, Look, LookClear, StopLook, StopClear, Kill, Status, Spawn, Ready, TimeOut
<1>5. ASSUME UNCHANGED daemonVars PROVE heard' = heard  BY <1>5 DEF daemonVars
<1>6. ASSUME heard' = heard PROVE heard' \in BOOLEAN  BY <1>6 DEF DaemonTypeOK
<1> QED  BY <1>1, <1>2, <1>3, <1>4, <1>5, <1>6, Zenon DEF DaemonNext

LEMMA TypeStep == ASSUME DaemonBounds, DaemonTypeOK, TargetsKnown, [DaemonNext]_daemonVars PROVE DaemonTypeOK'
<1>1. NoFile \in PidRecord  BY DEF PidRecord
<1>2. file' \in PidRecord
  <2>1. ASSUME NEW q \in Pids, Claim(q) PROVE file' \in PidRecord  BY <2>1, ClaimTyped
  <2>2. file \in PidRecord  BY DEF DaemonTypeOK
  <2> QED  BY <1>1, <2>1, <2>2, FileStep
<1> QED  BY <1>2, ProcStep, CommandStep, BirthsStep, HeardStep DEF DaemonTypeOK

(***************************************************************************)
(* The conjuncts, one by one.                                              *)
(***************************************************************************)
LEMMA TargetsStep == ASSUME DaemonBounds, DaemonInv, [DaemonNext]_daemonVars PROVE TargetsKnown'
<1> SUFFICES ASSUME NEW c \in Commands
             PROVE  /\ cmd'[c].at = "kill" => cmd'[c].rec.pid \in Pids
                    /\ cmd'[c].at = "wait" => cmd'[c].child.pid \in Pids
  BY DEF TargetsKnown
<1>0. DaemonTypeOK /\ TargetsKnown /\ Turned(c)  BY CommandStep DEF DaemonInv
<1>1. ASSUME NEW live, Running(file, live) PROVE file.pid \in Pids
  BY <1>0, <1>1 DEF Running, DaemonTypeOK, PidRecord
<1> QED  BY <1>0, <1>1 DEF Turned, TargetsKnown, Phases

LEMMA BirthsApartStep == ASSUME DaemonBounds, DaemonInv, [DaemonNext]_daemonVars PROVE BirthsApart'
<1>0. /\ DaemonTypeOK /\ TargetsKnown /\ BirthsApart
      /\ births \in Nat /\ births' \in Nat /\ births <= births'
      /\ \A p \in Pids : Became(p) /\ proc[p].birth \in Nat
  BY ProcStep, BirthsStep DEF DaemonInv, DaemonTypeOK, Process, DaemonBounds, Births, Unknown
<1>1. ASSUME NEW p \in Pids PROVE proc'[p].birth <= births' /\ (Alive(p)' => proc'[p].birth # Unknown)
  <2>1. CASE proc'[p] = proc[p]  BY <1>0, <2>1 DEF BirthsApart, Alive
  <2>2. CASE proc'[p] = Gone  BY <1>0, <2>2 DEF Gone, Alive, Unknown
  <2>3. CASE proc'[p].birth = births' /\ births' # Unknown  BY <1>0, <2>3
  <2>4. CASE Daemon(p) /\ proc'[p].birth = proc[p].birth  BY <1>0, <2>4 DEF BirthsApart, Alive, Daemon
  <2> QED  BY <1>0, <2>1, <2>2, <2>3, <2>4 DEF Became
<1>2. ASSUME NEW p \in Pids, Alive(p)'
      PROVE  \/ Alive(p) /\ proc'[p].birth = proc[p].birth
             \/ /\ proc'[p].birth = births' /\ births' = births + 1
                /\ \A q \in Pids \ {p} : proc'[q] = proc[q]
  <2>1. proc'[p] # Gone  BY <1>2 DEF Alive, Gone
  <2> QED  BY <1>0, <1>2, <2>1 DEF Became, Alive, Daemon
<1>3. ASSUME NEW p \in Pids, NEW q \in Pids, Alive(p)', Alive(q)', proc'[p].birth = proc'[q].birth, p # q PROVE FALSE
  <2>1. ASSUME NEW x \in Pids, NEW y \in Pids, x # y, Alive(y)', proc'[x].birth = proc'[y].birth,
               proc'[x].birth = births', births' = births + 1, \A z \in Pids \ {x} : proc'[z] = proc[z]
        PROVE FALSE
    <3>1. proc[y].birth = births + 1  BY <2>1
    <3>2. proc[y].birth <= births  BY <1>0 DEF BirthsApart
    <3> QED  BY <1>0, <3>1, <3>2
  <2>2. CASE Alive(p) /\ proc'[p].birth = proc[p].birth /\ Alive(q) /\ proc'[q].birth = proc[q].birth
    BY <1>0, <1>3, <2>2 DEF BirthsApart
  <2> QED  BY <1>2, <1>3, <2>1, <2>2
<1> QED  BY <1>1, <1>3 DEF BirthsApart

\* A record that was of a daemon's birth stays one.
LEMMA OfADaemonStays ==
  ASSUME DaemonBounds, DaemonInv, [DaemonNext]_daemonVars, NEW rec \in PidRecord, OfADaemon(rec)
  PROVE  rec.birth <= births' /\ \A p \in Pids : proc'[p].kind = "stranger" => proc'[p].birth # rec.birth
<1>0. /\ births \in Nat /\ births' \in Nat /\ births <= births' /\ rec.birth \in Nat
      /\ \A p \in Pids : Became(p)
  BY ProcStep, BirthsStep DEF DaemonInv, DaemonTypeOK, DaemonBounds, PidRecord, NoFile, Births, Unknown
<1>1. rec.birth <= births'  BY <1>0 DEF OfADaemon
<1>2. ASSUME NEW p \in Pids, proc'[p].kind = "stranger", proc'[p].birth = rec.birth PROVE FALSE
  <2>1. proc'[p] # Gone  BY <1>2 DEF Gone
  <2>2. CASE proc'[p] = proc[p]  BY <1>2, <2>2 DEF OfADaemon
  <2>3. CASE proc'[p].birth = births' /\ births' = births + 1  BY <1>0, <1>2, <2>3 DEF OfADaemon
  <2>4. CASE Daemon(p) /\ proc'[p].kind = proc[p].kind  BY <1>2, <2>4 DEF Daemon
  <2> QED  BY <1>0, <2>1, <2>2, <2>3, <2>4 DEF Became
<1> QED  BY <1>1, <1>2

LEMMA RecordsStep == ASSUME DaemonBounds, DaemonInv, [DaemonNext]_daemonVars PROVE RecordsOfDaemons'
<1>0. /\ DaemonTypeOK /\ TargetsKnown /\ BirthsApart /\ RecordsOfDaemons
      /\ BirthsApart' /\ DaemonTypeOK'
      /\ births \in Nat /\ births' \in Nat /\ births <= births'
  BY BirthsApartStep, BirthsStep, TypeStep DEF DaemonInv, DaemonTypeOK, DaemonBounds
<1>1. OfADaemon(file)'
  <2>1. CASE file' = file
    BY <1>0, <2>1, OfADaemonStays DEF DaemonTypeOK, RecordsOfDaemons, OfADaemon
  <2>2. CASE file' = NoFile
    <3>1. NoFile.birth = Unknown  BY DEF NoFile
    <3>2. \A p \in Pids : proc'[p].kind = "stranger" => proc'[p].birth # Unknown  BY <1>0 DEF BirthsApart, Alive
    <3> QED  BY <1>0, <2>2, <3>1, <3>2 DEF OfADaemon, Unknown
  <2>3. ASSUME NEW q \in Pids, Claim(q) PROVE OfADaemon(file)'
    <3>1. /\ proc'[q].kind = "daemon" /\ proc'[q].birth = proc[q].birth
          /\ file'.birth \in {Unknown, proc[q].birth}
      BY <1>0, <2>3, ClaimTyped DEF Claim, Daemon
    <3>2. ASSUME NEW p \in Pids, proc'[p].kind = "stranger" PROVE proc'[p].birth # file'.birth
      <4>1. p # q /\ Alive(p)' /\ Alive(q)'  BY <3>1, <3>2 DEF Alive
      <4> QED  BY <1>0, <3>1, <4>1 DEF BirthsApart
    <3>3. file'.birth <= births'  BY <1>0, <3>1 DEF BirthsApart, Unknown
    <3> QED  BY <3>2, <3>3 DEF OfADaemon
  <2> QED  BY <1>0, <2>1, <2>2, <2>3, FileStep
<1>2. ASSUME NEW c \in Commands, cmd'[c].at = "kill"
      PROVE  /\ OfADaemon(cmd[c].rec)'
             /\ Unknown \in {cmd'[c].rec.birth, cmd'[c].live} \/ cmd'[c].rec.birth = cmd'[c].live
  <2>1. Turned(c)  BY <1>0, CommandStep
  <2>2. CASE cmd'[c] = cmd[c]
    <3>1. cmd[c].rec \in PidRecord /\ OfADaemon(cmd[c].rec)
      BY <1>0, <1>2, <2>2 DEF DaemonTypeOK, Command, RecordsOfDaemons
    <3> QED  BY <1>0, <1>2, <2>2, <3>1, OfADaemonStays DEF OfADaemon, RecordsOfDaemons
  <2>3. CASE /\ cmd'[c].rec = file /\ file' = file
             /\ cmd'[c].live \in Times(file) /\ Running(file, cmd'[c].live)
    <3>1. OfADaemon(cmd[c].rec)'  BY <1>1, <2>3 DEF OfADaemon
    <3>2. Unknown \in {file.birth, cmd'[c].live} \/ file.birth = cmd'[c].live
      BY <2>3 DEF Running, Mismatch
    <3> QED  BY <2>3, <3>1, <3>2
  <2> QED  BY <1>2, <2>1, <2>2, <2>3 DEF Turned, Phases
<1> QED  BY <1>1, <1>2 DEF RecordsOfDaemons

LEMMA RecordKeptStep == ASSUME DaemonBounds, DaemonInv, [DaemonNext]_daemonVars PROVE RecordKept'
<1>0. DaemonTypeOK /\ TargetsKnown /\ RecordKept  BY DEF DaemonInv
<1> SUFFICES ASSUME NEW p \in Pids, Daemon(p)', proc'[p].at = "poll", ~proc'[p].raced
             PROVE  Undisturbed(p)'
  BY DEF RecordKept, Polling
<1>1. CASE Claim(p)
  <2>1. /\ proc'[p].raced = WindowOpen(p) /\ proc'[p].at = "poll"
        /\ file'.pid = p /\ file'.birth \in {Unknown, proc[p].birth} /\ proc'[p].birth = proc[p].birth
        /\ \A q \in Pids \ {p} : proc'[q] = proc[q]
    BY <1>0, <1>1, ClaimTyped
  <2>2. ~WindowOpen(p) /\ cmd' = cmd  BY <1>1, <2>1 DEF Claim
  <2> QED  BY <2>1, <2>2 DEF Undisturbed, WindowOpen, Daemon
<1>2. CASE ~Claim(p)
  <2>1. proc'[p] = proc[p]
    <3>1. Became(p)  BY <1>0, ProcStep
    <3>2. proc'[p] # Gone  BY DEF Gone
    <3> QED  BY <1>2, <3>1, <3>2 DEF Became, NewStage
  <2>2. Daemon(p) /\ proc[p].at = "poll" /\ Undisturbed(p)
    BY <1>0, <2>1 DEF RecordKept, Polling, Daemon
  <2>3. \A live \in Times(file) : ~Stale(file, live)
    <3>1. file # NoFile /\ Alive(p) /\ file.pid = p  BY <2>2 DEF Undisturbed, DaemonBounds, NoFile, Alive, Daemon
    <3> QED  BY <2>2, <3>1 DEF Times, Stale, Mismatch, Undisturbed
  <2>4. \A q \in Pids : ~Claim(q)  BY <2>2 DEF Undisturbed, Claim
  <2>5. file' = file  BY <1>0, <2>2, <2>4, FileStep DEF Undisturbed
  <2>6. ASSUME NEW q \in Pids, Daemon(q)' PROVE proc'[q].at \notin {"clear", "claim", "rm"}
    <3>1. Became(q)  BY <1>0, ProcStep
    <3>2. proc'[q] # Gone  BY <2>6 DEF Gone, Daemon
    <3>3. CASE proc'[q] = proc[q]  BY <2>2, <2>6, <3>3 DEF Undisturbed, Daemon
    <3>4. CASE Daemon(q) /\ NewStage(q)
      <4>1. proc[q].at \notin {"clear", "rm"}  BY <2>2, <3>4 DEF Undisturbed
      <4>2. file # NoFile /\ (q # p => file.pid # q)  BY <2>2 DEF Undisturbed, DaemonBounds, NoFile
      <4>3. proc'[q].at = "rm" => q # p  BY <2>1, <2>2
      <4> QED  BY <2>3, <2>4, <3>4, <4>1, <4>2, <4>3 DEF NewStage
    <3> QED  BY <3>1, <3>2, <3>3, <3>4 DEF Became
  <2>7. ASSUME NEW c \in Commands
        PROVE  /\ cmd'[c].at \notin {"clear", "stopClear", "rm"}
               /\ cmd'[c].at = "kill" => cmd'[c].rec.pid = p
    <3>1. Turned(c)  BY <1>0, CommandStep
    <3>2. ~Kill(c)
      <4> SUFFICES ASSUME Kill(c) PROVE FALSE  OBVIOUS
      <4>1. cmd[c].rec.pid = p  BY <2>2 DEF Kill, Undisturbed
      <4>2. Alive(p) /\ proc[p].kind # "stranger"  BY <2>2 DEF Alive, Daemon
      <4>3. Signal(p)  BY <4>1, <4>2 DEF Kill
      <4>4. proc'[p] = Gone \/ proc'[p].at = "drain"  BY <1>0, <2>2, <4>3, SignalTyped
      <4> QED  BY <2>1, <2>2, <4>4 DEF Gone
    <3> QED  BY <2>2, <2>3, <3>1, <3>2 DEF Turned, Undisturbed, Phases
  <2> QED  BY <2>1, <2>2, <2>5, <2>6, <2>7 DEF Undisturbed
<1> QED  BY <1>1, <1>2

LEMMA DaemonInvariance == DaemonBounds => (DaemonSpec => []DaemonInv)
<1> SUFFICES ASSUME DaemonBounds PROVE DaemonSpec => []DaemonInv  OBVIOUS
<1>1. DaemonInit => DaemonInv  BY InitDaemonInv
<1>2. DaemonInv /\ [DaemonNext]_daemonVars => DaemonInv'
  BY TypeStep, TargetsStep, BirthsApartStep, RecordsStep, RecordKeptStep DEF DaemonInv
<1> QED  BY <1>1, <1>2, PTL DEF DaemonSpec

(* The processes, the pidfile and the commands keep their types. *)
THEOREM DaemonTyped == DaemonBounds => (DaemonSpec => []DaemonTypeOK)
<1>1. DaemonInv => DaemonTypeOK  BY DEF DaemonInv
<1> QED  BY <1>1, DaemonInvariance, PTL

(* runDaemon, writePidFile and clearPidFile: a daemon that polls is the one that the *)
(* pidfile names, unless its claim met somebody between a look and a write.          *)
THEOREM DaemonIsRecordedHolds == DaemonBounds => (DaemonSpec => []DaemonIsRecorded)
<1>1. DaemonInv => DaemonIsRecorded
  BY DEF DaemonInv, RecordKept, Undisturbed, DaemonIsRecorded
<1> QED  BY <1>1, DaemonInvariance, PTL

(* runDown: no stranger is signalled that had the pid when the command looked, if ps *)
(* told both start times.                                                            *)
THEOREM StrangersAreSparedHolds == DaemonBounds => (DaemonSpec => []StrangersAreSpared)
<1>1. DaemonInv => StrangersAreSpared
  <2> SUFFICES ASSUME DaemonInv, NEW c \in Commands, cmd[c].at = "kill",
                      proc[cmd[c].rec.pid].kind = "stranger",
                      Unknown \notin {cmd[c].rec.birth, cmd[c].live}
               PROVE  proc[cmd[c].rec.pid].birth # cmd[c].live
    BY DEF StrangersAreSpared
  <2>1. cmd[c].rec.pid \in Pids /\ OfADaemon(cmd[c].rec) /\ cmd[c].rec.birth = cmd[c].live
    BY DEF DaemonInv, TargetsKnown, RecordsOfDaemons
  <2> QED  BY <2>1 DEF OfADaemon
<1> QED  BY <1>1, DaemonInvariance, PTL

(***************************************************************************)
(* AgentProcess.                                                           *)
(***************************************************************************)
(* The processes alone: what the stream carries does not matter to them. *)
ProcsOK ==
  /\ leader \in {"run", "exited", "failed"}
  /\ kid \in Kid
  /\ term \in BOOLEAN
  /\ killTimer \in {"off", "armed", "fired", "cleared"}

(* Signals are sent in the order SIGTERM, SIGKILL; a member of the group that *)
(* lives on was not reached by the first, and nobody outlives the second: the *)
(* leader is gone, and with it whoever could start a process.                 *)
Signals ==
  /\ killTimer = "off" <=> ~term
  /\ kid.alive /\ kid.group /\ term => "kid" \in deaf \/ kid.late
  /\ killTimer = "fired" => leader # "run" /\ ~(kid.alive /\ kid.group)

AgentInv == ProcsOK /\ Signals

(* A signal kills who is in the group and is not deaf to it. *)
LEMMA SignalledStep ==
  ASSUME ProcsOK, NEW victims, Signalled(victims)
  PROVE  /\ leader' \in {"run", "exited", "failed"} /\ kid' \in Kid
         /\ "leader" \in victims => leader' # "run"
         /\ leader # "run" => leader' # "run"
         /\ kid'.group = kid.group /\ kid'.late = kid.late /\ (kid'.alive => kid.alive)
         /\ "kid" \in victims /\ kid.group => ~kid'.alive
<1>1. leader' \in {"run", "exited", "failed"} /\ (leader # "run" => leader' # "run")
      /\ ("leader" \in victims => leader' # "run")
  BY DEF ProcsOK, Signalled
<1>2. CASE kid.group /\ "kid" \in victims
  <2>1. kid' = [kid EXCEPT !.alive = FALSE]  BY <1>2 DEF Signalled
  <2>2. kid' \in Kid /\ kid'.alive = FALSE /\ kid'.group = kid.group /\ kid'.late = kid.late
    BY <2>1 DEF ProcsOK, Kid
  <2> QED  BY <1>1, <1>2, <2>2
<1>3. CASE ~(kid.group /\ "kid" \in victims)
  <2>1. kid' = kid  BY <1>3 DEF Signalled
  <2> QED  BY <1>1, <1>3, <2>1 DEF ProcsOK
<1> QED  BY <1>2, <1>3

LEMMA TerminateStep == ASSUME AgentInv, Terminate, deaf' = deaf PROVE AgentInv'
<1>1. Signalled({"leader", "kid"} \ deaf) /\ term' = TRUE
      /\ killTimer' = IF killTimer = "off" THEN "armed" ELSE killTimer
  BY DEF Terminate
<1>2. /\ leader' \in {"run", "exited", "failed"} /\ kid' \in Kid
      /\ leader # "run" => leader' # "run"
      /\ kid'.group = kid.group /\ kid'.late = kid.late /\ (kid'.alive => kid.alive)
      /\ "kid" \notin deaf /\ kid.group => ~kid'.alive
  BY <1>1, SignalledStep DEF AgentInv
<1>3. ProcsOK'  BY <1>1, <1>2 DEF AgentInv, ProcsOK
<1>4. Signals'
  <2>1. killTimer' # "off" /\ (killTimer' = "fired" => killTimer = "fired")
    BY <1>1
  <2> QED  BY <1>1, <1>2, <2>1 DEF AgentInv, Signals
<1> QED  BY <1>3, <1>4 DEF AgentInv

LEMMA KillTimerStep == ASSUME AgentInv, KillTimerFires PROVE AgentInv'
<1>1. killTimer = "armed" /\ killTimer' = "fired" /\ term' = term /\ deaf' = deaf
      /\ Signalled({"leader", "kid"})
  BY DEF KillTimerFires
<1>2. leader' # "run" /\ leader' \in {"run", "exited", "failed"} /\ kid' \in Kid
      /\ ~(kid'.alive /\ kid'.group)
  BY <1>1, SignalledStep DEF AgentInv
<1>3. term  BY <1>1 DEF AgentInv, Signals
<1> QED  BY <1>1, <1>2, <1>3 DEF AgentInv, ProcsOK, Signals

LEMMA StartKidStep == ASSUME AgentInv, StartKid PROVE AgentInv'
<1>1. PICK group \in BOOLEAN, holds \in BOOLEAN :
        kid' = [alive |-> TRUE, group |-> group, pipe |-> holds, late |-> term]
  BY DEF StartKid
<1>2. /\ leader = "run" /\ leader' = leader /\ deaf' = deaf /\ term' = term /\ killTimer' = killTimer
  BY DEF StartKid, timers
<1>3. kid' \in Kid /\ kid'.group = group /\ kid'.late = term
  BY <1>1 DEF AgentInv, ProcsOK, Kid
<1>4. ProcsOK'  BY <1>2, <1>3 DEF AgentInv, ProcsOK
<1>5. Signals'  BY <1>2, <1>3 DEF AgentInv, Signals
<1> QED  BY <1>4, <1>5 DEF AgentInv

LEMMA InitAgentInv == ASSUME AgentInit PROVE AgentInv
<1>1. kid = NoKid /\ leader = "run" /\ term = FALSE /\ killTimer = "off"  BY DEF AgentInit
<1>2. NoKid \in Kid /\ NoKid.alive = FALSE  BY DEF NoKid, Kid
<1> QED  BY <1>1, <1>2 DEF AgentInv, ProcsOK, Signals

LEMMA StepAgentInv == ASSUME AgentInv, [AgentNext]_agentVars PROVE AgentInv'
<1>1. CASE StartKid  BY <1>1, StartKidStep
<1>2. CASE KidEnds
  <2>1. /\ kid' = [kid EXCEPT !.alive = FALSE]
        /\ leader' = leader /\ term' = term /\ killTimer' = killTimer
    BY <1>2 DEF KidEnds, timers
  <2>2. kid' \in Kid /\ ~kid'.alive  BY <2>1 DEF AgentInv, ProcsOK, Kid
  <2> QED  BY <2>1, <2>2 DEF AgentInv, ProcsOK, Signals
<1>3. CASE Exit
  <2>1. leader' = "exited" /\ kid' = kid /\ deaf' = deaf /\ term' = term /\ killTimer' = killTimer
    BY <1>3 DEF Exit, timers
  <2> QED  BY <2>1 DEF AgentInv, ProcsOK, Signals
<1>4. CASE SpawnFails
  <2>1. /\ leader' = "failed" /\ kid' = kid /\ deaf' = deaf /\ term' = term
        /\ killTimer' = IF killTimer = "armed" THEN "cleared" ELSE killTimer
    BY <1>4 DEF SpawnFails
  <2> QED  BY <2>1 DEF AgentInv, ProcsOK, Signals
<1>5. CASE Abort  BY <1>5, TerminateStep DEF Abort
<1>6. CASE TimesOut  BY <1>6, TerminateStep DEF TimesOut
<1>7. CASE KillTimerFires  BY <1>7, KillTimerStep
<1>8. ASSUME NEW event, SettleBy(event) PROVE AgentInv'
  <2>1. /\ leader' = leader /\ kid' = kid /\ deaf' = deaf /\ term' = term
        /\ killTimer' = IF killTimer = "armed" THEN "cleared" ELSE killTimer
    BY <1>8 DEF SettleBy, procs
  <2> QED  BY <2>1 DEF AgentInv, ProcsOK, Signals
<1>9. CASE Close \/ DrainFires  BY <1>8, <1>9 DEF Close, DrainFires
<1>10. CASE Write \/ Read \/ UNCHANGED agentVars
  <2>1. UNCHANGED <<leader, kid, deaf, term, killTimer>>
    BY <1>10, Zenon DEF Write, Read, agentVars, procs, timers
  <2> QED  BY <2>1 DEF AgentInv, ProcsOK, Signals
<1> QED  BY <1>1, <1>2, <1>3, <1>4, <1>5, <1>6, <1>7, <1>9, <1>10 DEF AgentNext

(* signalTree, terminate and cleanup: whoever outlives a stopped child left its group, *)
(* or is deaf to SIGTERM or came after it, and then no SIGKILL was sent.               *)
THEOREM SurvivorsAreNamedHolds == AgentSpec => []SurvivorsAreNamed
<1>1. AgentInit => AgentInv  BY InitAgentInv
<1>2. AgentInv /\ [AgentNext]_agentVars => AgentInv'  BY StepAgentInv
<1>3. AgentInv => SurvivorsAreNamed  BY DEF AgentInv, Signals, SurvivorsAreNamed
<1> QED  BY <1>1, <1>2, <1>3, PTL DEF AgentSpec

(***************************************************************************)
(* RateLimit.  Each pair of a bucket and its tally is a row; a request     *)
(* replaces rows, the clock moves under all of them.                       *)
(***************************************************************************)
Gap(b, t) == IF t >= b.last THEN t - b.last ELSE 0

(* What is true of one bucket and its tally at clock t, after f forward moves. *)
Row(l, b, g, t, f) ==
  /\ b \in Bucket(l)
  /\ g \in [count: Nat, since: Nat]
  /\ b # Absent =>
       /\ g.since <= f
       /\ Cost * g.count + b.tokens + Refill[l] * Gap(b, t) <= Capacity[l] + Refill[l] * (f - g.since)

IInv ==
  /\ now \in 0..MaxTime
  /\ forward \in Nat
  /\ buckets \in [Limiters -> [Keys -> [tokens: Int, last: Int]]]
  /\ granted \in [Limiters -> [Keys -> [count: Nat, since: Nat]]]
  /\ \A l \in Limiters : \A k \in Keys : Row(l, buckets[l][k], granted[l][k], now, forward)

(* The constants of one limiter. *)
LEMMA LimiterBounds ==
  ASSUME RateBounds, NEW l \in Limiters
  PROVE  /\ Capacity[l] \in Nat /\ Refill[l] \in Nat
         /\ Cost \in Nat /\ Cost > 0 /\ MaxTime \in Nat
  BY DEF RateBounds

(* A bucket that is there holds no more than its burst. *)
LEMMA HeldBucket ==
  ASSUME RateBounds, NEW l \in Limiters, NEW b \in Bucket(l), b # Absent
  PROVE  b \in [tokens: 0..Capacity[l], last: 0..MaxTime]
  BY DEF Bucket

(* A made or spent bucket is not Absent. *)
LEMMA MadeBucket ==
  ASSUME RateBounds, NEW l \in Limiters,
         NEW n \in 0..Capacity[l], NEW t \in 0..MaxTime
  PROVE  /\ [tokens |-> n, last |-> t] \in Bucket(l)
         /\ [tokens |-> n, last |-> t] # Absent
         /\ [tokens |-> n, last |-> t] \in [tokens: Int, last: Int]
<1> DEFINE b == [tokens |-> n, last |-> t]
<1>1. n \in Int /\ t \in Int /\ n # -1
  BY LimiterBounds
<1>2. b \in [tokens: 0..Capacity[l], last: 0..MaxTime]
  OBVIOUS
<1>3. b.tokens = n /\ Absent.tokens = -1
  BY DEF Absent
<1> QED BY <1>1, <1>2, <1>3 DEF Bucket

(* Products of naturals, as the solver needs them. *)
LEMMA Products ==
  ASSUME NEW a \in Nat, NEW b \in Nat
  PROVE  /\ a * b \in Nat /\ a * (b + 1) = a * b + a /\ a * 0 = 0
  OBVIOUS

LEMMA ProductGrows ==
  ASSUME NEW a \in Nat, NEW b \in Nat, NEW c \in Nat, c <= b
  PROVE  a * c <= a * b
<1> DEFINE d == b - c
<1>1. d \in Nat /\ b = c + d
  OBVIOUS
<1>2. a * (c + d) = a * c + a * d
  BY <1>1
<1>3. a * d \in Nat /\ a * c \in Nat
  BY <1>1, Products
<1> QED BY <1>1, <1>2, <1>3

(***************************************************************************)
(* One request on bucket k of limiter l: what is left, and the row.        *)
(***************************************************************************)
NewTally(l, k) ==
  [count |-> (IF k \in Held(l) THEN granted[l][k].count ELSE 0) + (IF Allowed(l, k) THEN 1 ELSE 0),
   since |-> IF k \in Held(l) THEN granted[l][k].since ELSE forward]

LEMMA HeldRow ==
  ASSUME RateBounds, IInv, NEW l \in Limiters, NEW k \in Held(l)
  PROVE  /\ k \in Keys
         /\ buckets[l][k] \in [tokens: 0..Capacity[l], last: 0..MaxTime]
         /\ granted[l][k].count \in Nat /\ granted[l][k].since \in Nat
         /\ granted[l][k].since <= forward
         /\ Elapsed(buckets[l][k]) \in Nat
         /\ Elapsed(buckets[l][k]) = Gap(buckets[l][k], now)
         /\ Cost * granted[l][k].count + buckets[l][k].tokens + Refill[l] * Elapsed(buckets[l][k])
              <= Capacity[l] + Refill[l] * (forward - granted[l][k].since)
<1>1. k \in Keys /\ buckets[l][k] # Absent
  BY DEF Held
<1>2. Row(l, buckets[l][k], granted[l][k], now, forward)
  BY <1>1 DEF IInv
<1>3. buckets[l][k] \in [tokens: 0..Capacity[l], last: 0..MaxTime]
  BY <1>1, <1>2, HeldBucket DEF Row
<1>4. granted[l][k].count \in Nat /\ granted[l][k].since \in Nat /\ granted[l][k].since <= forward
  BY <1>1, <1>2 DEF Row
<1>5. Elapsed(buckets[l][k]) = Gap(buckets[l][k], now)
  BY DEF Elapsed, Gap
<1>6. now \in Nat /\ buckets[l][k].last \in Nat
  BY <1>3, LimiterBounds DEF IInv
<1>7. Elapsed(buckets[l][k]) \in Nat
  BY <1>6 DEF Elapsed
<1> QED BY <1>1, <1>2, <1>3, <1>4, <1>5, <1>7 DEF Row

LEMMA LevelBounds ==
  ASSUME RateBounds, IInv, NEW l \in Limiters, NEW k \in Keys
  PROVE  /\ Level(l, k) \in 0..Capacity[l]
         /\ Spent(l, k) \in 0..Capacity[l]
         /\ Allowed(l, k) => Spent(l, k) + Cost = Level(l, k)
         /\ ~Allowed(l, k) => Spent(l, k) = Level(l, k)
<1>1. Capacity[l] \in Nat /\ Refill[l] \in Nat /\ Cost \in Nat /\ Cost > 0
  BY LimiterBounds
<1>2. Level(l, k) \in 0..Capacity[l]
  <2>1. CASE k \in Held(l)
    <3> DEFINE e == Elapsed(buckets[l][k])
               n == buckets[l][k].tokens
    <3>1. e \in Nat /\ n \in Nat /\ n <= Capacity[l]
      BY <2>1, <1>1, HeldRow
    <3>2. e * Refill[l] \in Nat
      BY <3>1, <1>1, Products
    <3>3. Level(l, k) = Least(Capacity[l], n + e * Refill[l])
      BY <2>1 DEF Level
    <3> HIDE DEF e, n
    <3> QED BY <3>1, <3>2, <3>3, <1>1 DEF Least
  <2>2. CASE k \notin Held(l)
    BY <2>2, <1>1 DEF Level
  <2> QED BY <2>1, <2>2
<1>3. Allowed(l, k) => Level(l, k) >= Cost /\ Spent(l, k) = Level(l, k) - Cost
  BY DEF Allowed, Spent
<1>4. ~Allowed(l, k) => Spent(l, k) = Level(l, k)
  BY <1>2, <1>1 DEF Spent
<1> QED BY <1>1, <1>2, <1>3, <1>4

LEMMA SpentRow ==
  ASSUME RateBounds, IInv, NEW l \in Limiters, NEW k \in Keys
  PROVE  Row(l, [tokens |-> Spent(l, k), last |-> now], NewTally(l, k), now, forward)
<1> DEFINE b == [tokens |-> Spent(l, k), last |-> now]
           g == NewTally(l, k)
           C == Capacity[l]
           R == Refill[l]
           one == IF Allowed(l, k) THEN 1 ELSE 0
<1>1. C \in Nat /\ R \in Nat /\ Cost \in Nat /\ Cost > 0
  BY LimiterBounds
<1>2. now \in 0..MaxTime /\ now \in Nat /\ forward \in Nat
  BY LimiterBounds DEF IInv
<1>3. b \in Bucket(l)
  BY <1>2, LevelBounds, MadeBucket
<1>4. one \in Nat /\ Spent(l, k) \in Nat /\ Spent(l, k) + Cost * one = Level(l, k)
  <2>1. CASE Allowed(l, k)
    BY <2>1, <1>1, LevelBounds
  <2>2. CASE ~Allowed(l, k)
    BY <2>2, <1>1, LevelBounds
  <2> QED BY <2>1, <2>2
<1>5. R * Gap(b, now) = 0
  BY <1>1, <1>2 DEF Gap
<1>6. /\ g.count \in Nat /\ g.since \in Nat /\ g.since <= forward
      /\ Cost * g.count + Spent(l, k) <= C + R * (forward - g.since)
  <2>1. CASE k \in Held(l)
    <3> DEFINE c == granted[l][k].count
               s == granted[l][k].since
               n == buckets[l][k].tokens
               e == Elapsed(buckets[l][k])
    <3>1. /\ c \in Nat /\ s \in Nat /\ s <= forward /\ n \in Nat /\ e \in Nat
          /\ Cost * c + n + R * e <= C + R * (forward - s)
      BY <2>1, <1>1, HeldRow
    <3>2. g.count = c + one /\ g.since = s
      BY <2>1 DEF NewTally
    <3>3. Level(l, k) = Least(C, n + e * R)
      BY <2>1 DEF Level
    <3>4. e * R = R * e /\ R * e \in Nat /\ R * (forward - s) \in Nat
      BY <3>1, <1>1, <1>2, Products
    <3>5. Level(l, k) <= n + R * e
      BY <3>1, <3>3, <3>4, <1>1 DEF Least
    <3>6. Cost * (c + one) = Cost * c + Cost * one
      BY <3>1, <1>1, <1>4
    <3>7. Cost * c \in Nat /\ Cost * one \in Nat
      BY <3>1, <1>1, <1>4, Products
    <3>8. Level(l, k) \in Nat
      BY LevelBounds, <1>1
    <3> HIDE DEF c, s, n, e, g, one, C, R
    <3>9. Cost * (c + one) + Spent(l, k) <= C + R * (forward - s)
      BY <3>1, <3>4, <3>5, <3>6, <3>7, <3>8, <1>1, <1>4
    <3> QED BY <3>1, <3>2, <3>9, <1>4
  <2>2. CASE k \notin Held(l)
    <3>1. g.count = one /\ g.since = forward
      BY <2>2, <1>4 DEF NewTally
    <3>2. Level(l, k) = C
      BY <2>2 DEF Level
    <3>3. R * (forward - forward) = 0
      BY <1>1, <1>2
    <3>4. Cost * one \in Nat
      BY <1>1, <1>4, Products
    <3> HIDE DEF g, one, C, R
    <3> QED BY <3>1, <3>2, <3>3, <3>4, <1>1, <1>2, <1>4
  <2> QED BY <2>1, <2>2
<1>7. g \in [count: Nat, since: Nat]
  BY <1>6 DEF NewTally
<1>8. b.tokens = Spent(l, k)
  OBVIOUS
<1> HIDE DEF b, g, one
<1>9. Cost * g.count \in Nat
  BY <1>6, <1>1, Products
<1>10. Cost * g.count + b.tokens + R * Gap(b, now) <= C + R * (forward - g.since)
  BY <1>4, <1>5, <1>6, <1>8, <1>9
<1> QED BY <1>3, <1>6, <1>7, <1>10 DEF Row, b, g

(* The whole map after a request: one row is spent, some are evicted. *)
LEMMA AfterRows ==
  ASSUME RateBounds, IInv, NEW l \in Limiters, NEW k \in Keys, NEW e
  PROVE  /\ After(l, k, e) \in [Keys -> [tokens: Int, last: Int]]
         /\ Tally(l, k, e) \in [Keys -> [count: Nat, since: Nat]]
         /\ \A x \in Keys : Row(l, After(l, k, e)[x], Tally(l, k, e)[x], now, forward)
<1>1. /\ [tokens |-> Spent(l, k), last |-> now] \in [tokens: Int, last: Int]
      /\ Row(l, [tokens |-> Spent(l, k), last |-> now], NewTally(l, k), now, forward)
      /\ NewTally(l, k) \in [count: Nat, since: Nat]
  <2>1. now \in 0..MaxTime
    BY DEF IInv
  <2>2. Spent(l, k) \in 0..Capacity[l]
    BY LevelBounds
  <2> QED BY <2>1, <2>2, SpentRow, MadeBucket DEF Row
<1>2. /\ Absent \in [tokens: Int, last: Int]
      /\ [count |-> 0, since |-> 0] \in [count: Nat, since: Nat]
      /\ Row(l, Absent, [count |-> 0, since |-> 0], now, forward)
  BY DEF Absent, Row, Bucket
<1>3. \A x \in Keys :
        /\ buckets[l][x] \in [tokens: Int, last: Int]
        /\ granted[l][x] \in [count: Nat, since: Nat]
        /\ Row(l, buckets[l][x], granted[l][x], now, forward)
  BY DEF IInv
<1>4. \A x \in Keys :
        /\ After(l, k, e)[x] \in [tokens: Int, last: Int]
        /\ Tally(l, k, e)[x] \in [count: Nat, since: Nat]
        /\ Row(l, After(l, k, e)[x], Tally(l, k, e)[x], now, forward)
  <2> SUFFICES ASSUME NEW x \in Keys
               PROVE  /\ After(l, k, e)[x] \in [tokens: Int, last: Int]
                      /\ Tally(l, k, e)[x] \in [count: Nat, since: Nat]
                      /\ Row(l, After(l, k, e)[x], Tally(l, k, e)[x], now, forward)
    OBVIOUS
  <2>1. CASE x = k
    <3>1. After(l, k, e)[x] = [tokens |-> Spent(l, k), last |-> now]
      BY <2>1 DEF After
    <3>2. Tally(l, k, e)[x] = NewTally(l, k)
      BY <2>1 DEF Tally, NewTally
    <3> QED BY <3>1, <3>2, <1>1
  <2>2. CASE x # k /\ x \in e
    <3>1. After(l, k, e)[x] = Absent /\ Tally(l, k, e)[x] = [count |-> 0, since |-> 0]
      BY <2>2 DEF After, Tally
    <3> QED BY <3>1, <1>2
  <2>3. CASE x # k /\ x \notin e
    <3>1. After(l, k, e)[x] = buckets[l][x] /\ Tally(l, k, e)[x] = granted[l][x]
      BY <2>3 DEF After, Tally
    <3> QED BY <3>1, <1>3
  <2> QED BY <2>1, <2>2, <2>3
<1>5. /\ After(l, k, e) = [x \in Keys |-> After(l, k, e)[x]]
      /\ Tally(l, k, e) = [x \in Keys |-> Tally(l, k, e)[x]]
  BY DEF After, Tally
<1> QED BY <1>4, <1>5

(* The clock moves under a row, at most one unit forward. *)
LEMMA ClockRow ==
  ASSUME RateBounds, NEW l \in Limiters, NEW b, NEW g,
         NEW t \in Nat, NEW f \in Nat, NEW u \in Nat, NEW h \in Nat,
         Row(l, b, g, t, f),
         \/ u = t + 1 /\ h = f + 1
         \/ u < t /\ h = f
  PROVE  Row(l, b, g, u, h)
<1> SUFFICES ASSUME b # Absent
             PROVE  /\ g.since <= h
                    /\ Cost * g.count + b.tokens + Refill[l] * Gap(b, u)
                         <= Capacity[l] + Refill[l] * (h - g.since)
  BY DEF Row
<1> DEFINE R == Refill[l]
           C == Capacity[l]
<1>1. C \in Nat /\ R \in Nat /\ Cost \in Nat
  BY LimiterBounds
<1>2. /\ b \in [tokens: 0..Capacity[l], last: 0..MaxTime]
      /\ g.since \in Nat /\ g.count \in Nat /\ g.since <= f
      /\ Cost * g.count + b.tokens + R * Gap(b, t) <= C + R * (f - g.since)
  BY HeldBucket DEF Row
<1>3. b.tokens \in Nat /\ b.last \in Nat
  BY <1>2, LimiterBounds
<1>4. Gap(b, t) \in Nat /\ Gap(b, u) \in Nat
  BY <1>3 DEF Gap
<1>5. /\ Cost * g.count \in Nat /\ R * Gap(b, t) \in Nat /\ R * Gap(b, u) \in Nat
      /\ R * (f - g.since) \in Nat
  BY <1>1, <1>2, <1>4, Products
<1>6. CASE u = t + 1 /\ h = f + 1
  <2>1. Gap(b, u) <= Gap(b, t) + 1
    BY <1>3, <1>6 DEF Gap
  <2>2. R * Gap(b, u) <= R * (Gap(b, t) + 1)
    <3> HIDE DEF R
    <3>1. Gap(b, t) + 1 \in Nat
      BY <1>4
    <3> QED BY <2>1, <3>1, <1>1, <1>4, ProductGrows
  <2>3. R * (Gap(b, t) + 1) = R * Gap(b, t) + R
    BY <1>1, <1>4, Products
  <2>4. R * ((f - g.since) + 1) = R * (f - g.since) + R
    BY <1>1, <1>2, Products
  <2>5. h - g.since = (f - g.since) + 1
    BY <1>2, <1>6
  <2> HIDE DEF R, C
  <2>6. R * (h - g.since) = R * (f - g.since) + R
    BY <2>4, <2>5
  <2> QED BY <2>2, <2>3, <2>6, <1>1, <1>2, <1>3, <1>5, <1>6 DEF R, C
<1>7. CASE u < t /\ h = f
  <2>1. Gap(b, u) <= Gap(b, t)
    BY <1>3, <1>7 DEF Gap
  <2>2. R * Gap(b, u) <= R * Gap(b, t)
    BY <2>1, <1>1, <1>4, ProductGrows
  <2> HIDE DEF R, C
  <2> QED BY <2>2, <1>1, <1>2, <1>3, <1>5, <1>7 DEF R, C
<1> QED BY <1>6, <1>7

LEMMA InitIInv ==
  ASSUME RateBounds, Init
  PROVE  IInv
<1>1. now \in 0..MaxTime /\ forward \in Nat
  BY DEF Init, RateBounds
<1>2. \A l \in Limiters : \A k \in Keys :
        /\ buckets[l][k] = Absent
        /\ granted[l][k] = [count |-> 0, since |-> 0]
  BY DEF Init
<1>3. /\ Absent \in [tokens: Int, last: Int]
      /\ [count |-> 0, since |-> 0] \in [count: Nat, since: Nat]
  BY DEF Absent
<1>4. /\ buckets \in [Limiters -> [Keys -> [tokens: Int, last: Int]]]
      /\ granted \in [Limiters -> [Keys -> [count: Nat, since: Nat]]]
  BY <1>3 DEF Init
<1>5. \A l \in Limiters : \A k \in Keys : Row(l, buckets[l][k], granted[l][k], now, forward)
  BY <1>2, <1>3 DEF Row, Bucket
<1> QED BY <1>1, <1>4, <1>5 DEF IInv

LEMMA AllowIInv ==
  ASSUME RateBounds, IInv, NEW l \in Limiters, NEW k \in Keys, Allow(l, k),
         UNCHANGED <<now, forward>>
  PROVE  IInv'
<1>1. PICK e : /\ buckets' = [buckets EXCEPT ![l] = After(l, k, e)]
               /\ granted' = [granted EXCEPT ![l] = Tally(l, k, e)]
  BY DEF Allow
<1>2. /\ After(l, k, e) \in [Keys -> [tokens: Int, last: Int]]
      /\ Tally(l, k, e) \in [Keys -> [count: Nat, since: Nat]]
      /\ \A x \in Keys : Row(l, After(l, k, e)[x], Tally(l, k, e)[x], now, forward)
  BY AfterRows
<1>3. /\ buckets' \in [Limiters -> [Keys -> [tokens: Int, last: Int]]]
      /\ granted' \in [Limiters -> [Keys -> [count: Nat, since: Nat]]]
  BY <1>1, <1>2 DEF IInv
<1>4. ASSUME NEW m \in Limiters, NEW x \in Keys
      PROVE  Row(m, buckets[m][x], granted[m][x], now, forward)'
  <2>1. CASE m = l
    <3>1. buckets'[m] = After(l, k, e) /\ granted'[m] = Tally(l, k, e)
      BY <1>1, <2>1 DEF IInv
    <3>2. Row(l, After(l, k, e)[x], Tally(l, k, e)[x], now, forward)
      BY <1>2
    <3> QED BY <2>1, <3>1, <3>2 DEF Row, Bucket, Gap
  <2>2. CASE m # l
    <3>1. buckets'[m] = buckets[m] /\ granted'[m] = granted[m]
      BY <1>1, <2>2 DEF IInv
    <3>2. Row(m, buckets[m][x], granted[m][x], now, forward)
      BY DEF IInv
    <3> QED BY <3>1, <3>2 DEF Row, Bucket, Gap
  <2> QED BY <2>1, <2>2
<1>5. now' \in 0..MaxTime /\ forward' \in Nat
  BY DEF IInv
<1> QED BY <1>3, <1>4, <1>5 DEF IInv

LEMMA BothIInv ==
  ASSUME RateBounds, IInv, NEW i \in Keys, NEW t \in Keys, Both(i, t),
         UNCHANGED <<now, forward>>
  PROVE  IInv'
<1>1. PICK ei, et :
        /\ buckets' = [l \in Limiters |-> IF l = "ip" THEN After(l, i, ei) ELSE After(l, t, et)]
        /\ granted' = [l \in Limiters |-> IF l = "ip" THEN Tally(l, i, ei) ELSE Tally(l, t, et)]
  BY DEF Both
<1>2. ASSUME NEW l \in Limiters
      PROVE  \E k \in Keys : \E e : buckets'[l] = After(l, k, e) /\ granted'[l] = Tally(l, k, e)
  <2>1. CASE l = "ip"
    BY <1>1, <2>1
  <2>2. CASE l # "ip"
    BY <1>1, <2>2
  <2> QED BY <2>1, <2>2
<1>3. ASSUME NEW l \in Limiters
      PROVE  /\ buckets'[l] \in [Keys -> [tokens: Int, last: Int]]
             /\ granted'[l] \in [Keys -> [count: Nat, since: Nat]]
             /\ \A x \in Keys : Row(l, buckets[l][x], granted[l][x], now, forward)'
  <2>1. PICK k \in Keys : \E e : buckets'[l] = After(l, k, e) /\ granted'[l] = Tally(l, k, e)
    BY <1>2
  <2>2. PICK e : buckets'[l] = After(l, k, e) /\ granted'[l] = Tally(l, k, e)
    BY <2>1
  <2>3. /\ After(l, k, e) \in [Keys -> [tokens: Int, last: Int]]
        /\ Tally(l, k, e) \in [Keys -> [count: Nat, since: Nat]]
        /\ \A x \in Keys : Row(l, After(l, k, e)[x], Tally(l, k, e)[x], now, forward)
    BY AfterRows
  <2> QED BY <2>2, <2>3 DEF Row, Bucket, Gap
<1>4. /\ buckets' \in [Limiters -> [Keys -> [tokens: Int, last: Int]]]
      /\ granted' \in [Limiters -> [Keys -> [count: Nat, since: Nat]]]
  BY <1>1, <1>3
<1>5. now' \in 0..MaxTime /\ forward' \in Nat
  BY DEF IInv
<1> QED BY <1>3, <1>4, <1>5 DEF IInv

LEMMA ClockIInv ==
  ASSUME RateBounds, IInv, now' \in 0..MaxTime, forward' \in Nat, UNCHANGED <<buckets, granted>>,
         \/ now' = now + 1 /\ forward' = forward + 1
         \/ now' < now /\ forward' = forward
  PROVE  IInv'
<1>1. now \in Nat /\ now' \in Nat /\ forward \in Nat
  BY DEF IInv, RateBounds
<1>2. ASSUME NEW l \in Limiters, NEW k \in Keys
      PROVE  Row(l, buckets[l][k], granted[l][k], now, forward)'
  <2>1. Row(l, buckets[l][k], granted[l][k], now, forward)
    BY DEF IInv
  <2>2. Row(l, buckets[l][k], granted[l][k], now', forward')
    BY <1>1, <2>1, ClockRow
  <2> QED BY <2>2 DEF Row, Bucket, Gap
<1> QED BY <1>2 DEF IInv

LEMMA StepIInv ==
  ASSUME RateBounds, IInv, [Next]_vars
  PROVE  IInv'
<1>1. ASSUME NEW i \in Ips, NEW t \in Tokens \cup {NoToken}, Request(i, t)
      PROVE  IInv'
  <2>1. "ip" \in Limiters /\ i \in Keys
    BY DEF Limiters, Keys
  <2>2. CASE Allowed("ip", i) /\ t # NoToken
    <3>1. t \in Keys
      BY <2>2 DEF Keys
    <3> QED BY <1>1, <2>1, <2>2, <3>1, BothIInv DEF Request
  <2>3. CASE ~(Allowed("ip", i) /\ t # NoToken)
    BY <1>1, <2>1, <2>3, AllowIInv DEF Request
  <2> QED BY <2>2, <2>3
<1>2. ASSUME NEW t \in Tokens, Credential(t)
      PROVE  IInv'
  <2>1. "token" \in Limiters /\ t \in Keys
    BY DEF Limiters, Keys
  <2> QED BY <1>2, <2>1, AllowIInv DEF Credential
<1>3. CASE Advance
  <2>1. now' = now + 1 /\ forward' = forward + 1 /\ now < MaxTime /\ UNCHANGED <<buckets, granted>>
    BY <1>3 DEF Advance
  <2>2. now' \in 0..MaxTime /\ forward' \in Nat
    BY <2>1 DEF IInv, RateBounds
  <2> QED BY <2>1, <2>2, ClockIInv
<1>4. CASE SetBack
  <2>1. now' < now /\ now' \in 0..MaxTime /\ forward' = forward /\ UNCHANGED <<buckets, granted>>
    BY <1>4 DEF SetBack
  <2>2. forward' \in Nat
    BY <2>1 DEF IInv
  <2> QED BY <2>1, <2>2, ClockIInv
<1>5. CASE UNCHANGED vars
  BY <1>5 DEF vars, IInv, Row, Bucket, Gap
<1> QED BY <1>1, <1>2, <1>3, <1>4, <1>5 DEF Next

LEMMA IInvBounds ==
  ASSUME RateBounds, IInv
  PROVE  TypeOK /\ RateIsBounded
<1>1. TypeOK
  BY DEF IInv, TypeOK, Row
<1>2. ASSUME NEW l \in Limiters, NEW k \in Held(l)
      PROVE  /\ buckets[l][k].tokens <= Capacity[l]
             /\ Cost * granted[l][k].count + buckets[l][k].tokens + Refill[l] * Elapsed(buckets[l][k])
                  <= Capacity[l] + Refill[l] * (forward - granted[l][k].since)
  BY HeldRow, LimiterBounds
<1> QED BY <1>1, <1>2 DEF RateIsBounded

(***************************************************************************)
(* The clock, the buckets and the tallies keep their types.                *)
(***************************************************************************)
THEOREM RateTypeCorrect == RateBounds => (Spec => []TypeOK)
<1> SUFFICES ASSUME RateBounds PROVE Spec => []TypeOK
  OBVIOUS
<1>1. Init => IInv
  BY InitIInv
<1>2. IInv /\ [Next]_vars => IInv'
  BY StepIInv
<1>3. IInv => TypeOK
  BY IInvBounds
<1> QED BY <1>1, <1>2, <1>3, PTL DEF Spec

(***************************************************************************)
(* However a clock is set back, no bucket ever grants more than its burst  *)
(* and the refill of the clock's forward moves.                            *)
(***************************************************************************)
THEOREM RateIsBoundedHolds == RateBounds => (Spec => []RateIsBounded)
<1> SUFFICES ASSUME RateBounds PROVE Spec => []RateIsBounded
  OBVIOUS
<1>1. Init => IInv
  BY InitIInv
<1>2. IInv /\ [Next]_vars => IInv'
  BY StepIInv
<1>3. IInv => RateIsBounded
  BY IInvBounds
<1> QED BY <1>1, <1>2, <1>3, PTL DEF Spec

(***************************************************************************)
(* DbWatchdog.  A failure ends a stretch of fewer than StarvedCeiling      *)
(* starved pings, so each counted failure stands for at most               *)
(* StarvedCeiling pings.                                                   *)
(***************************************************************************)

(* One more block of C pings. *)
LEMMA OneBlockMore ==
  ASSUME NEW a \in Nat, NEW C \in Nat
  PROVE  a * C \in Nat /\ (a + 1) * C = a * C + C
  OBVIOUS

(* Fewer blocks are fewer pings. *)
LEMMA BlocksGrow ==
  ASSUME NEW a \in Nat, NEW F \in Nat, NEW C \in Nat, a < F
  PROVE  a * C + C <= F * C
<1> DEFINE d == F - 1 - a
<1>1. d \in Nat
  OBVIOUS
<1>2. F * C = (a + 1 + d) * C
  OBVIOUS
<1>3. (a + 1 + d) * C = a * C + C + d * C
  BY <1>1
<1>4. d * C \in Nat
  BY <1>1
<1> QED BY <1>1, <1>2, <1>3, <1>4, OneBlockMore

(* What the counters say of the outage so far. *)
Blocks ==
  /\ Len(silence) <= consecutive * StarvedCeiling + starvedTicks
  /\ done <=> (consecutive = FailureThreshold \/ starvedTicks = StarvedCeiling)
  /\ consecutive = FailureThreshold => starvedTicks = 0
  /\ running => ~done

WatchdogIInv == WatchdogTypeOK /\ Blocks

LEMMA WatchdogInitIInv == WatchdogInit => WatchdogIInv
<1> SUFFICES ASSUME WatchdogInit PROVE WatchdogIInv OBVIOUS
<1> USE WatchdogBounds
<1>1. silence \in Seq({"failed", "starved"}) /\ Len(silence) = 0
  BY DEF WatchdogInit
<1>2. WatchdogTypeOK
  <2>1. running \in BOOLEAN /\ done \in BOOLEAN
    BY Zenon DEF WatchdogInit
  <2>2. consecutive \in 0..FailureThreshold /\ starvedTicks \in 0..StarvedCeiling
    BY DEF WatchdogInit
  <2> QED BY <1>1, <2>1, <2>2 DEF WatchdogTypeOK
<1>3. consecutive * StarvedCeiling \in Nat
  BY OneBlockMore DEF WatchdogInit
<1>4. Blocks
  BY <1>1, <1>3 DEF WatchdogInit, Blocks
<1> QED BY <1>2, <1>4 DEF WatchdogIInv

(* A step that counts a ping adds one to the silence. *)
LEMMA OnePingMore ==
  ASSUME WatchdogTypeOK, NEW how \in {"failed", "starved"}, silence' = Append(silence, how)
  PROVE  silence' \in Seq({"failed", "starved"}) /\ Len(silence') = Len(silence) + 1 /\ Len(silence) \in Nat
  BY DEF WatchdogTypeOK

LEMMA WatchdogStepIInv == WatchdogIInv /\ [WatchdogNext]_watchdogVars => WatchdogIInv'
<1> SUFFICES ASSUME WatchdogIInv, [WatchdogNext]_watchdogVars PROVE WatchdogIInv'
  OBVIOUS
<1> USE WatchdogBounds
<1>a. /\ consecutive \in Nat /\ consecutive <= FailureThreshold
      /\ starvedTicks \in Nat /\ starvedTicks <= StarvedCeiling
      /\ FailureThreshold \in Nat /\ StarvedCeiling \in Nat
  BY DEF WatchdogIInv, WatchdogTypeOK
<1>b. ~done => consecutive < FailureThreshold /\ starvedTicks < StarvedCeiling
  BY <1>a DEF WatchdogIInv, Blocks
<1>1. CASE Tick
  BY <1>1 DEF WatchdogIInv, WatchdogTypeOK, Blocks, Tick
<1>2. CASE Answered
  <2>1. silence' \in Seq({"failed", "starved"}) /\ Len(silence') = 0
    BY <1>2 DEF Answered
  <2>2. WatchdogTypeOK'
    <3>1. running' \in BOOLEAN /\ done' \in BOOLEAN
      BY <1>2, Zenon DEF Answered, WatchdogIInv, WatchdogTypeOK
    <3>2. consecutive' \in 0..FailureThreshold /\ starvedTicks' \in 0..StarvedCeiling
      BY <1>2 DEF Answered
    <3> QED BY <2>1, <3>1, <3>2 DEF WatchdogTypeOK
  <2>3. consecutive' * StarvedCeiling = 0
    BY <1>2, <1>a DEF Answered
  <2>4. ~done'
    BY <1>2 DEF WatchdogIInv, Blocks, Answered
  <2>5. Blocks'
    BY <1>2, <2>1, <2>3, <2>4 DEF Blocks, Answered
  <2> QED BY <2>2, <2>5 DEF WatchdogIInv
<1>3. CASE Failed
  <2>1. ~done /\ ~running'
    BY <1>3 DEF WatchdogIInv, Blocks, Failed
  <2>2. /\ consecutive' = consecutive + 1 /\ starvedTicks' = 0
        /\ silence' = Append(silence, "failed")
    BY <1>3 DEF Failed
  <2>3. /\ silence' \in Seq({"failed", "starved"})
        /\ Len(silence') = Len(silence) + 1 /\ Len(silence) \in Nat
    BY <2>2, OnePingMore DEF WatchdogIInv
  <2>4. done' \in BOOLEAN /\ (done' <=> consecutive' = FailureThreshold)
    <3>1. done' = (consecutive + 1 >= FailureThreshold)
      BY <1>3 DEF Failed
    <3>2. done' \in BOOLEAN
      BY <3>1, <1>a
    <3>3. consecutive + 1 >= FailureThreshold <=> consecutive + 1 = FailureThreshold
      BY <1>a, <1>b, <2>1
    <3> QED BY <2>2, <3>1, <3>2, <3>3
  <2>5. WatchdogTypeOK'
    <3>1. running' \in BOOLEAN
      BY <1>3, Zenon DEF Failed
    <3>2. consecutive' \in 0..FailureThreshold /\ starvedTicks' \in 0..StarvedCeiling
      BY <1>a, <1>b, <2>1, <2>2
    <3> QED BY <2>3, <2>4, <3>1, <3>2 DEF WatchdogTypeOK
  <2>6. (consecutive + 1) * StarvedCeiling = consecutive * StarvedCeiling + StarvedCeiling
    BY <1>a, OneBlockMore
  <2>7. consecutive * StarvedCeiling \in Nat
    BY <1>a, OneBlockMore
  <2>8. Len(silence) <= consecutive * StarvedCeiling + starvedTicks
    BY DEF WatchdogIInv, Blocks
  <2>9. Len(silence') <= consecutive' * StarvedCeiling + starvedTicks'
    BY <1>a, <1>b, <2>1, <2>2, <2>3, <2>6, <2>7, <2>8
  <2>10. Blocks'
    BY <1>a, <2>1, <2>2, <2>4, <2>9 DEF Blocks
  <2> QED BY <2>5, <2>10 DEF WatchdogIInv
<1>4. CASE Starved
  <2>1. ~done /\ ~running'
    BY <1>4 DEF WatchdogIInv, Blocks, Starved
  <2>2. /\ starvedTicks' = starvedTicks + 1 /\ consecutive' = consecutive
        /\ silence' = Append(silence, "starved")
    BY <1>4 DEF Starved
  <2>3. /\ silence' \in Seq({"failed", "starved"})
        /\ Len(silence') = Len(silence) + 1 /\ Len(silence) \in Nat
    BY <2>2, OnePingMore DEF WatchdogIInv
  <2>4. done' \in BOOLEAN /\ (done' <=> starvedTicks' = StarvedCeiling)
    <3>1. done' = (starvedTicks + 1 >= StarvedCeiling)
      BY <1>4 DEF Starved
    <3>2. done' \in BOOLEAN
      BY <3>1, <1>a
    <3>3. starvedTicks + 1 >= StarvedCeiling <=> starvedTicks + 1 = StarvedCeiling
      BY <1>a, <1>b, <2>1
    <3> QED BY <2>2, <3>1, <3>2, <3>3
  <2>5. WatchdogTypeOK'
    <3>1. running' \in BOOLEAN
      BY <1>4, Zenon DEF Starved
    <3>2. consecutive' \in 0..FailureThreshold /\ starvedTicks' \in 0..StarvedCeiling
      BY <1>a, <1>b, <2>1, <2>2
    <3> QED BY <2>3, <2>4, <3>1, <3>2 DEF WatchdogTypeOK
  <2>6. consecutive * StarvedCeiling \in Nat
    BY <1>a, OneBlockMore
  <2>7. Len(silence) <= consecutive * StarvedCeiling + starvedTicks
    BY DEF WatchdogIInv, Blocks
  <2>8. Len(silence') <= consecutive' * StarvedCeiling + starvedTicks'
    BY <1>a, <2>2, <2>3, <2>6, <2>7
  <2>9. Blocks'
    BY <1>a, <1>b, <2>1, <2>2, <2>4, <2>8 DEF Blocks
  <2> QED BY <2>5, <2>9 DEF WatchdogIInv
<1>5. CASE UNCHANGED watchdogVars
  BY <1>5 DEF WatchdogIInv, WatchdogTypeOK, Blocks, watchdogVars
<1> QED BY <1>1, <1>2, <1>3, <1>4, <1>5 DEF WatchdogNext

LEMMA WatchdogIInvBounds == WatchdogIInv => OutageIsBounded
<1> SUFFICES ASSUME WatchdogIInv PROVE OutageIsBounded OBVIOUS
<1> USE WatchdogBounds
<1>a. /\ consecutive \in Nat /\ consecutive <= FailureThreshold
      /\ starvedTicks \in Nat /\ starvedTicks <= StarvedCeiling
      /\ FailureThreshold \in Nat /\ StarvedCeiling \in Nat /\ StarvedCeiling > 0
      /\ Len(silence) \in Nat
  BY DEF WatchdogIInv, WatchdogTypeOK
<1>b. consecutive * StarvedCeiling \in Nat
  BY <1>a, OneBlockMore
<1>c. Len(silence) <= consecutive * StarvedCeiling + starvedTicks
  BY DEF WatchdogIInv, Blocks
<1>d. FailureThreshold * StarvedCeiling \in Nat
  BY <1>a, OneBlockMore
<1>1. CASE consecutive = FailureThreshold
  <2>1. starvedTicks = 0 /\ done
    BY <1>1 DEF WatchdogIInv, Blocks
  <2> QED BY <1>1, <1>a, <1>b, <1>c, <2>1 DEF OutageIsBounded
<1>2. CASE consecutive < FailureThreshold
  <2>1. consecutive * StarvedCeiling + StarvedCeiling <= FailureThreshold * StarvedCeiling
    BY <1>2, <1>a, BlocksGrow
  <2>2. Len(silence) <= FailureThreshold * StarvedCeiling
    BY <1>a, <1>b, <1>c, <1>d, <2>1
  <2>3. Len(silence) = FailureThreshold * StarvedCeiling => starvedTicks = StarvedCeiling
    BY <1>a, <1>b, <1>c, <1>d, <2>1
  <2> QED BY <2>2, <2>3 DEF OutageIsBounded, WatchdogIInv, Blocks
<1> QED BY <1>1, <1>2, <1>a

(***************************************************************************)
(* The counters keep their types.                                          *)
(***************************************************************************)
THEOREM WatchdogTypeCorrect == WatchdogSpec => []WatchdogTypeOK
<1>1. WatchdogIInv => WatchdogTypeOK
  BY DEF WatchdogIInv
<1> QED BY <1>1, WatchdogInitIInv, WatchdogStepIInv, PTL DEF WatchdogSpec

(***************************************************************************)
(* The process never outlives FailureThreshold * StarvedCeiling pings      *)
(* without an answer, whatever the two constants are.                      *)
(***************************************************************************)
THEOREM OutageIsBoundedHolds == WatchdogSpec => []OutageIsBounded
  BY WatchdogInitIInv, WatchdogStepIInv, WatchdogIInvBounds, PTL DEF WatchdogSpec

(***************************************************************************)
(* Timeline.  A fire has the change that set it (none: the cron).  A fire  *)
(* of the cron that a run answers is not later than the run; a one-shot    *)
(* that waits is no run's of its loop, so that what was read as waiting    *)
(* went into no run that was there by then.                                *)
(***************************************************************************)
LEMMA LaneNumbers ==
  /\ Fires \subseteq Nat /\ Day \in Nat \ {0} /\ Back \in Nat /\ Ahead \in Nat /\ Start \in Nat /\ LastTime \in Nat
  /\ MaxFires \in Nat /\ Slack \in Nat /\ All \notin Loops
BY TimelineConstants DEF Lanes!TimelineConstantsOK

FireOK(f, made, e) == f.at \in Int /\ f.by \in Nat /\ f.by <= e /\ (f.by = 0 => f.at <= made)

FiredOK(row, t, e) ==
  /\ DOMAIN row = {"loop", "phase", "made", "ts", "start", "fires"}
  /\ row.made \in Nat /\ row.made <= t
  /\ \A f \in row.fires : FireOK(f, row.made, e)

PinOK(p, e) == p.at \in Int /\ p.by \in Nat /\ p.by <= e /\ (p # Lanes!NoPin => p.by # 0)

(* A waiting one-shot is not among the fires. *)
Waits(p, fires) == p.by # 0 => p \notin fires

LaneOK(l, row, rs, e) ==
  /\ DOMAIN row = {"there", "enabled", "pin"} /\ PinOK(row.pin, e)
  /\ \A n \in 1..MaxFires : rs[n].loop = l => Waits(row.pin, rs[n].fires)

(* No fire of an answer is in a run and in a projection, but for the early ones. *)
Apart(d) ==
  \A m, g \in d.marks :
    m.kind = "run" /\ g.kind = "projected" /\ g.loop = m.loop /\ m.fires \cap g.fires # {} => m.run \in d.early

KnownOK(c, rs) ==
  \A n \in c.known : /\ n \in 1..MaxFires /\ rs[n].phase # "none"
                     /\ \A s \in c.seen : rs[n].loop = s.id => Waits(s.row.pin, rs[n].fires)

RowOK(c, r, t) ==
  /\ r.row.made \in Nat /\ r.row.made <= t
  /\ \A f \in r.row.fires :
       /\ f.at \in Int /\ (f.by = 0 => f.at <= r.row.made)
       /\ \A s \in c.seen : r.row.loop = s.id /\ f = s.row.pin => r.n \in c.early \/ f.at <= r.row.made

CallOK(c, t) ==
  /\ DOMAIN c = {"at", "win", "rows", "seen", "known", "early", "slip", "reply"}
  /\ c.win.from \in Int /\ c.win.to \in Int /\ (c.at = "sent" => c.rows = {})
  /\ \A s \in c.seen : s.id \in Loops /\ s.row.pin.at \in Int
  /\ \A r \in c.rows : RowOK(c, r, t)
  /\ Apart(c.reply)

LaneInv == /\ clock \in Nat /\ edits \in Nat
           /\ DOMAIN fired = 1..MaxFires /\ \A n \in 1..MaxFires : FiredOK(fired[n], clock, edits)
           /\ DOMAIN lane = Loops /\ \A l \in Loops : LaneOK(l, lane[l], fired, edits)
           /\ DOMAIN ask = Asks /\ \A i \in Asks : CallOK(ask[i], clock) /\ KnownOK(ask[i], fired)
           /\ Apart(data)

LEMMA WindowIsWhole == ASSUME NEW z, NEW t \in Nat PROVE Lanes!WindowFor(z, t).from \in Int /\ Lanes!WindowFor(z, t).to \in Int
<1>1. CASE z = "day"
  <2> DEFINE from == Day * (t \div Day)
  <2>1. t \div Day \in Int  BY LaneNumbers
  <2>2. from \in Int  BY <2>1, LaneNumbers
  <2> HIDE DEF from
  <2> QED  BY <1>1, <2>2, LaneNumbers DEF Lanes!WindowFor, from
<1>2. CASE z # "day"  BY <1>2, LaneNumbers DEF Lanes!WindowFor
<1> QED  BY <1>1, <1>2

LEMMA LaterOfTwo == ASSUME NEW a \in Int, NEW b \in Int PROVE Lanes!Max({a, b}) \in Int /\ Lanes!Max({a, b}) >= a
<1>1. \E x \in {a, b} : \A y \in {a, b} : x >= y
  <2>1. CASE a >= b  BY <2>1
  <2>2. CASE ~(a >= b)  BY <2>2
  <2> QED  BY <2>1, <2>2
<1>2. Lanes!Max({a, b}) \in {a, b} /\ \A y \in {a, b} : Lanes!Max({a, b}) >= y  BY <1>1 DEF Lanes!Max
<1> QED  BY <1>2

LEMMA FiredLater ==
  ASSUME NEW row, NEW s \in Nat, NEW t \in Nat, s <= t, NEW d \in Nat, NEW e \in Nat, d <= e, FiredOK(row, s, d)
  PROVE  FiredOK(row, t, e)
BY DEF FiredOK, FireOK

LEMMA PinLater == ASSUME NEW p, NEW d \in Nat, NEW e \in Nat, d <= e, PinOK(p, d) PROVE PinOK(p, e)
BY DEF PinOK

LEMMA LaneStart == Lanes!Init => LaneInv
<1> SUFFICES ASSUME Lanes!Init PROVE LaneInv  OBVIOUS
<1>1. clock = Start /\ clock \in Nat /\ edits = 0  BY LaneNumbers DEF Lanes!Init
<1>2. FiredOK(Lanes!NoRun, clock, edits)  BY <1>1 DEF FiredOK, Lanes!NoRun
<1>3. \A l \in Loops : LaneOK(l, lane[l], fired, edits)
  <2> SUFFICES ASSUME NEW l \in Loops PROVE LaneOK(l, lane[l], fired, edits)  OBVIOUS
  <2>1. lane[l] = [there |-> l \in Created, enabled |-> TRUE, pin |-> Lanes!NoPin]  BY DEF Lanes!Init
  <2>2. PinOK(Lanes!NoPin, edits) /\ Lanes!NoPin.by = 0  BY <1>1 DEF PinOK, Lanes!NoPin, Lanes!None
  <2> QED  BY <2>1, <2>2 DEF LaneOK, Waits
<1>4. Apart(Lanes!NoData)  BY DEF Apart, Lanes!NoData
<1>5. CallOK(Lanes!NoCall, clock) /\ KnownOK(Lanes!NoCall, fired)  BY <1>4 DEF CallOK, KnownOK, Lanes!NoCall
<1>6. /\ DOMAIN fired = 1..MaxFires /\ \A n \in 1..MaxFires : fired[n] = Lanes!NoRun
      /\ DOMAIN lane = Loops /\ DOMAIN ask = Asks /\ \A i \in Asks : ask[i] = Lanes!NoCall
      /\ data = Lanes!NoData
  BY DEF Lanes!Init
<1> QED  BY <1>1, <1>2, <1>3, <1>4, <1>5, <1>6 DEF LaneInv

(* The rows.  A run that is there keeps its fires. *)
Kept(old, new) == old.phase # "none" => new.phase # "none" /\ new.fires = old.fires /\ new.loop \in {old.loop, All}

LEMMA RowsKeep ==
  ASSUME LaneInv, UNCHANGED <<clock, data, ask>>, edits' \in Nat, edits <= edits', DOMAIN fired' = 1..MaxFires,
         \A n \in 1..MaxFires : FiredOK(fired'[n], clock, edits') /\ Kept(fired[n], fired'[n]),
         DOMAIN lane' = Loops, \A l \in Loops : LaneOK(l, lane'[l], fired', edits')
  PROVE  LaneInv'
<1>1. \A i \in Asks : KnownOK(ask[i], fired')
  <2> SUFFICES ASSUME NEW i \in Asks, NEW n \in ask[i].known
               PROVE /\ n \in 1..MaxFires /\ fired'[n].phase # "none"
                     /\ \A s \in ask[i].seen : fired'[n].loop = s.id => Waits(s.row.pin, fired'[n].fires)
    BY DEF KnownOK
  <2>1. /\ n \in 1..MaxFires /\ fired[n].phase # "none"
        /\ \A s \in ask[i].seen : fired[n].loop = s.id => Waits(s.row.pin, fired[n].fires)
    BY DEF LaneInv, KnownOK
  <2>2. fired'[n].phase # "none" /\ fired'[n].fires = fired[n].fires /\ fired'[n].loop \in {fired[n].loop, All}
    BY <2>1 DEF Kept
  <2>3. \A s \in ask[i].seen : s.id # All  BY LaneNumbers DEF LaneInv, CallOK
  <2> QED  BY <2>1, <2>2, <2>3
<1>2. clock' = clock /\ data' = data /\ ask' = ask  OBVIOUS
<1> QED  BY <1>1, <1>2 DEF LaneInv

LEMMA StillThere == ASSUME NEW row PROVE Kept(row, row)
BY DEF Kept

LEMMA LaneTick == ASSUME LaneInv, Lanes!Tick PROVE LaneInv'
<1>1. clock \in Nat /\ clock' = clock + 1 /\ UNCHANGED <<fired, lane, edits, ask, data>>
  BY DEF Lanes!Tick, LaneInv, Lanes!rows, Lanes!page
<1>2. clock' \in Nat /\ clock <= clock' /\ edits \in Nat  BY <1>1 DEF LaneInv
<1>3. \A n \in 1..MaxFires : FiredOK(fired[n], clock', edits)  BY <1>1, <1>2, FiredLater DEF LaneInv
<1>4. \A c : CallOK(c, clock) => CallOK(c, clock')
  <2>1. \A c, r : RowOK(c, r, clock) => RowOK(c, r, clock')  BY <1>1, <1>2 DEF RowOK
  <2> QED  BY <2>1 DEF CallOK
<1> QED  BY <1>1, <1>2, <1>3, <1>4 DEF LaneInv

LEMMA RunLoopMakes ==
  ASSUME LaneInv, NEW l \in Loops, NEW fires, \A f \in fires : FireOK(f, clock, 0), Lanes!RunLoop(l, fires),
         UNCHANGED <<clock, data, ask, edits>>
  PROVE  LaneInv'
<1> DEFINE pin == lane[l].pin
           due == pin # Lanes!NoPin /\ pin.at <= clock + Slack
           left == IF due THEN Lanes!NoPin ELSE pin
           fs == fires \cup (IF due THEN {pin} ELSE {})
           new == [loop |-> l, phase |-> "pending", made |-> clock, ts |-> clock, start |-> Lanes!None, fires |-> fs]
           Made(n) == [m \in 1..MaxFires |->
             IF m = n THEN new
             ELSE IF m \in Lanes!Of(l) /\ fired[m].phase = "pending" THEN Lanes!Superseded(m) ELSE fired[m]]
<1>1. \/ UNCHANGED <<lane, fired>>
      \/ /\ lane' = [lane EXCEPT ![l].pin = left]
         /\ \E n \in Lanes!Unwritten : fired' = Made(n)
  BY Zenon DEF Lanes!RunLoop
<1>2. CASE UNCHANGED <<lane, fired>>
  BY <1>2, RowsKeep, StillThere DEF LaneInv
<1>3. ASSUME NEW n \in Lanes!Unwritten, lane' = [lane EXCEPT ![l].pin = left], fired' = Made(n)
      PROVE  LaneInv'
  <2>1. clock \in Nat /\ edits \in Nat /\ PinOK(pin, edits) /\ DOMAIN lane = Loops  BY DEF LaneInv, LaneOK
  <2>2. \A f \in fs : FireOK(f, clock, edits)
    <3>1. \A f \in fires : FireOK(f, clock, edits)  BY <2>1 DEF FireOK
    <3>2. due => FireOK(pin, clock, edits)  BY <2>1 DEF FireOK, PinOK
    <3> QED  BY <3>1, <3>2
  <2>3. fired[n] = Lanes!NoRun /\ n \in 1..MaxFires  BY DEF Lanes!Unwritten
  <2>4. FiredOK(new, clock, edits) /\ new.loop = l /\ new.fires = fs /\ new.phase = "pending"
    <3> HIDE DEF fs
    <3> QED  BY <2>1, <2>2 DEF FiredOK
  <2>5. (~due => fs = fires /\ left = pin) /\ (due => left = Lanes!NoPin)  OBVIOUS
  <2> HIDE DEF fs, new, left, due
  <2>6. \A m \in 1..MaxFires : FiredOK(fired'[m], clock, edits) /\ Kept(fired[m], fired'[m])
    <3> SUFFICES ASSUME NEW m \in 1..MaxFires PROVE FiredOK(fired'[m], clock, edits) /\ Kept(fired[m], fired'[m])
      OBVIOUS
    <3>1. FiredOK(fired[m], clock, edits)  BY DEF LaneInv
    <3>2. CASE m = n
      <4>1. fired'[m] = new  BY <1>3, <3>2
      <4>2. fired[m].phase = "none"  BY <2>3, <3>2 DEF Lanes!NoRun
      <4> QED  BY <2>4, <4>1, <4>2 DEF Kept
    <3>3. CASE m # n /\ m \in Lanes!Of(l) /\ fired[m].phase = "pending"
      <4>1. fired'[m] = Lanes!Superseded(m)  BY <1>3, <3>3
      <4> QED  BY <3>1, <4>1 DEF FiredOK, Kept, Lanes!Superseded
    <3>4. CASE m # n /\ ~(m \in Lanes!Of(l) /\ fired[m].phase = "pending")
      <4>1. fired'[m] = fired[m]  BY <1>3, <3>4
      <4> QED  BY <3>1, <4>1, StillThere
    <3> QED  BY <3>2, <3>3, <3>4
  <2>7. \A k \in Loops : LaneOK(k, lane'[k], fired', edits)
    <3> SUFFICES ASSUME NEW k \in Loops PROVE LaneOK(k, lane'[k], fired', edits)  OBVIOUS
    <3>1. LaneOK(k, lane[k], fired, edits)  BY DEF LaneInv
    <3>2. lane'[k] = IF k = l THEN [lane[l] EXCEPT !.pin = left] ELSE lane[k]  BY <1>3, <2>1
    <3>3. PinOK(Lanes!NoPin, edits) /\ Lanes!NoPin.by = 0  BY <2>1 DEF PinOK, Lanes!NoPin, Lanes!None
    <3>4. DOMAIN lane'[k] = {"there", "enabled", "pin"} /\ lane'[k].pin = IF k = l /\ due THEN Lanes!NoPin ELSE lane[k].pin
      BY <2>5, <3>1, <3>2 DEF LaneOK
    <3>5. \A m \in 1..MaxFires : fired'[m].loop = k => Waits(lane'[k].pin, fired'[m].fires)
      <4> SUFFICES ASSUME NEW m \in 1..MaxFires, fired'[m].loop = k PROVE Waits(lane'[k].pin, fired'[m].fires)
        OBVIOUS
      <4>1. CASE k = l /\ due  BY <4>1, <3>3, <3>4 DEF Waits
      <4>2. CASE ~(k = l /\ due) /\ m = n
        <5>1. fired'[m] = new  BY <1>3, <4>2
        <5>2. k = l /\ ~due /\ fired'[m].fires = fires  BY <2>4, <2>5, <4>2, <5>1
        <5>3. \A f \in fires : f.by = 0  BY DEF FireOK
        <5> QED  BY <5>2, <5>3 DEF Waits
      <4>3. CASE ~(k = l /\ due) /\ m # n
        <5>1. fired[m].loop = k /\ fired'[m].fires = fired[m].fires
          <6>1. DOMAIN fired[m] = {"loop", "phase", "made", "ts", "start", "fires"}  BY DEF LaneInv, FiredOK
          <6>2. fired'[m] = fired[m] \/ fired'[m] = Lanes!Superseded(m)  BY <1>3, <4>3
          <6> QED  BY <6>1, <6>2 DEF Lanes!Superseded
        <5>2. lane'[k].pin = lane[k].pin  BY <3>4, <4>3
        <5> QED  BY <3>1, <5>1, <5>2 DEF LaneOK
      <4> QED  BY <4>1, <4>2, <4>3
    <3>6. PinOK(lane'[k].pin, edits)  BY <3>1, <3>3, <3>4 DEF LaneOK
    <3> QED  BY <3>4, <3>5, <3>6 DEF LaneOK
  <2>8. DOMAIN fired' = 1..MaxFires /\ DOMAIN lane' = Loops  BY <1>3, <2>1
  <2>9. edits' = edits /\ edits' \in Nat /\ edits <= edits'  BY <2>1
  <2> QED  BY <2>6, <2>7, <2>8, <2>9, RowsKeep
<1> HIDE DEF Made, due
<1> QED  BY <1>1, <1>2, <1>3

(* A loop's row is changed, and no run. *)
LEMMA LaneChanges ==
  ASSUME LaneInv, NEW l \in Loops, NEW row, lane' = [lane EXCEPT ![l] = row], LaneOK(l, row, fired, edits'),
         edits' = edits + 1, UNCHANGED <<clock, data, ask, fired>>
  PROVE  LaneInv'
<1>1. edits \in Nat /\ edits' \in Nat /\ edits <= edits' /\ clock \in Nat  BY DEF LaneInv
<1>2. \A k \in Loops : LaneOK(k, lane[k], fired, edits')  BY <1>1, PinLater DEF LaneInv, LaneOK
<1>3. \A k \in Loops : LaneOK(k, lane'[k], fired', edits')  BY <1>2 DEF LaneInv
<1>4. \A n \in 1..MaxFires : FiredOK(fired'[n], clock, edits')  BY <1>1, FiredLater DEF LaneInv
<1> QED  BY <1>1, <1>3, <1>4, RowsKeep, StillThere DEF LaneInv

LEMMA LoopSteps ==
  ASSUME LaneInv, NEW l \in Loops,
         \/ Lanes!CronFires(l) \/ Lanes!OneShotFires(l) \/ Lanes!Pin(l)
         \/ Lanes!Toggle(l) \/ Lanes!CreateLoop(l) \/ Lanes!DeleteLoop(l)
  PROVE  LaneInv'
<1> USE DEF Lanes!RowsOnly, Lanes!page, Lanes!Edit
<1>0. /\ LaneOK(l, lane[l], fired, edits) /\ edits \in Nat /\ clock \in Nat /\ DOMAIN lane = Loops
      /\ LaneOK(l, lane[l], fired, edits + 1)
  BY PinLater DEF LaneInv, LaneOK
<1>1. CASE Lanes!CronFires(l)
  <2>1. /\ UNCHANGED <<clock, data, ask, edits>>
        /\ UNCHANGED <<lane, fired>> \/ \E f \in Fires : f <= clock /\ Lanes!RunLoop(l, {Lanes!CronFire(f)})
    BY <1>1 DEF Lanes!CronFires
  <2>2. CASE UNCHANGED <<lane, fired>>
    BY <2>1, <2>2, RowsKeep, StillThere DEF LaneInv
  <2>3. ASSUME NEW f \in Fires, f <= clock, Lanes!RunLoop(l, {Lanes!CronFire(f)}) PROVE LaneInv'
    <3>1. \A g \in {Lanes!CronFire(f)} : FireOK(g, clock, 0)  BY <2>3, LaneNumbers DEF FireOK, Lanes!CronFire
    <3> QED  BY <2>1, <2>3, <3>1, RunLoopMakes
  <2> QED  BY <2>1, <2>2, <2>3
<1>2. CASE Lanes!OneShotFires(l)
  <2>1. UNCHANGED <<clock, data, ask, edits>> /\ Lanes!RunLoop(l, {})  BY <1>2 DEF Lanes!OneShotFires
  <2> QED  BY <2>1, RunLoopMakes
<1>3. CASE Lanes!Pin(l)
  <2>1. PICK t \in clock..LastTime : lane' = [lane EXCEPT ![l].pin = [at |-> t, by |-> edits + 1]]  BY <1>3 DEF Lanes!Pin
  <2> DEFINE pin == [at |-> t, by |-> edits + 1]
             row == [lane[l] EXCEPT !.pin = pin]
  <2>2. edits' = edits + 1 /\ UNCHANGED <<clock, data, ask, fired>>  BY <1>3 DEF Lanes!Pin
  <2>3. PinOK(pin, edits + 1)  BY <1>0 DEF PinOK
  <2>4. \A n \in 1..MaxFires : pin \notin fired[n].fires
    <3>1. \A n \in 1..MaxFires : \A f \in fired[n].fires : f.by \in Nat /\ f.by <= edits  BY DEF LaneInv, FiredOK, FireOK
    <3>2. pin.by = edits + 1  OBVIOUS
    <3> HIDE DEF pin
    <3> QED  BY <1>0, <3>1, <3>2
  <2>5. row.pin = pin /\ DOMAIN row = {"there", "enabled", "pin"}  BY <1>0 DEF LaneOK
  <2>6. lane' = [lane EXCEPT ![l] = row]  BY <2>1, <1>0
  <2> HIDE DEF pin, row
  <2>7. LaneOK(l, row, fired, edits + 1)  BY <2>3, <2>4, <2>5 DEF LaneOK, Waits
  <2> QED  BY <2>2, <2>6, <2>7, LaneChanges
<1>4. CASE Lanes!Toggle(l) \/ Lanes!CreateLoop(l)
  <2>1. edits' = edits + 1 /\ UNCHANGED <<clock, data, ask, fired>>
    <3>1. CASE Lanes!Toggle(l)  BY <3>1 DEF Lanes!Toggle
    <3>2. CASE Lanes!CreateLoop(l)  BY <3>2 DEF Lanes!CreateLoop
    <3> QED  BY <1>4, <3>1, <3>2
  <2>2. \E row : /\ lane' = [lane EXCEPT ![l] = row] /\ DOMAIN row = DOMAIN lane[l] /\ row.pin = lane[l].pin
    <3>1. CASE Lanes!Toggle(l)
      <4> DEFINE row == [lane[l] EXCEPT !.enabled = ~@]
      <4>1. lane' = [lane EXCEPT ![l] = row]  BY <3>1, <1>0 DEF Lanes!Toggle
      <4>2. DOMAIN row = DOMAIN lane[l] /\ row.pin = lane[l].pin  BY <1>0 DEF LaneOK
      <4> QED  BY <4>1, <4>2
    <3>2. CASE Lanes!CreateLoop(l)
      <4> DEFINE row == [lane[l] EXCEPT !.there = TRUE]
      <4>1. lane' = [lane EXCEPT ![l] = row]  BY <3>2, <1>0 DEF Lanes!CreateLoop
      <4>2. DOMAIN row = DOMAIN lane[l] /\ row.pin = lane[l].pin  BY <1>0 DEF LaneOK
      <4> QED  BY <4>1, <4>2
    <3> QED  BY <1>4, <3>1, <3>2
  <2>3. PICK row : lane' = [lane EXCEPT ![l] = row] /\ DOMAIN row = DOMAIN lane[l] /\ row.pin = lane[l].pin  BY <2>2
  <2>4. LaneOK(l, row, fired, edits + 1)  BY <1>0, <2>3 DEF LaneOK
  <2> QED  BY <2>1, <2>3, <2>4, LaneChanges
<1>5. CASE Lanes!DeleteLoop(l)
  <2>1. UNCHANGED <<clock, data, ask, edits>>  BY <1>5 DEF Lanes!DeleteLoop
  <2>2. fired' = [n \in 1..MaxFires |-> IF n \in Lanes!Of(l) THEN [fired[n] EXCEPT !.loop = All] ELSE fired[n]]
    BY <1>5 DEF Lanes!DeleteLoop
  <2>3. lane' = [lane EXCEPT ![l].there = FALSE, ![l].pin = Lanes!NoPin]  BY <1>5 DEF Lanes!DeleteLoop
  <2>4. \A n \in 1..MaxFires : FiredOK(fired'[n], clock, edits) /\ Kept(fired[n], fired'[n])
    <3> SUFFICES ASSUME NEW n \in 1..MaxFires PROVE FiredOK(fired'[n], clock, edits) /\ Kept(fired[n], fired'[n])
      OBVIOUS
    <3>1. FiredOK(fired[n], clock, edits)  BY DEF LaneInv
    <3>2. fired'[n] = [fired[n] EXCEPT !.loop = All] \/ fired'[n] = fired[n]  BY <2>2
    <3> QED  BY <3>1, <3>2 DEF FiredOK, Kept
  <2>5. \A k \in Loops : LaneOK(k, lane'[k], fired', edits)
    <3> SUFFICES ASSUME NEW k \in Loops PROVE LaneOK(k, lane'[k], fired', edits)  OBVIOUS
    <3>1. LaneOK(k, lane[k], fired, edits)  BY DEF LaneInv
    <3>2. PinOK(Lanes!NoPin, edits) /\ Lanes!NoPin.by = 0  BY <1>0 DEF PinOK, Lanes!NoPin, Lanes!None
    <3>3. DOMAIN lane'[k] = {"there", "enabled", "pin"} /\ lane'[k].pin = IF k = l THEN Lanes!NoPin ELSE lane[k].pin
      BY <1>0, <2>3, <3>1 DEF LaneOK
    <3>4. ASSUME NEW n \in 1..MaxFires, fired'[n].loop = k PROVE Waits(lane'[k].pin, fired'[n].fires)
      <4>1. FiredOK(fired[n], clock, edits)  BY DEF LaneInv
      <4>2. fired'[n] = [fired[n] EXCEPT !.loop = All] \/ fired'[n] = fired[n]  BY <2>2
      <4>3. fired[n].loop = k /\ fired'[n].fires = fired[n].fires  BY <3>4, <4>1, <4>2, LaneNumbers DEF FiredOK
      <4> QED  BY <3>1, <3>2, <3>3, <4>3 DEF LaneOK, Waits
    <3>5. PinOK(lane'[k].pin, edits)  BY <3>1, <3>2, <3>3 DEF LaneOK
    <3> QED  BY <3>3, <3>4, <3>5 DEF LaneOK
  <2>6. DOMAIN fired' = 1..MaxFires /\ DOMAIN lane' = Loops  BY <1>0, <2>2, <2>3
  <2>7. edits' = edits /\ edits' \in Nat /\ edits <= edits'  BY <1>0, <2>1
  <2> QED  BY <2>1, <2>4, <2>5, <2>6, <2>7, RowsKeep
<1> QED  BY <1>1, <1>2, <1>3, <1>4, <1>5

LEMMA RunSteps == ASSUME LaneInv, NEW n \in 1..MaxFires, Lanes!Claim(n) \/ Lanes!Report(n) PROVE LaneInv'
<1>1. UNCHANGED <<clock, data, ask, lane, edits>>
  BY DEF Lanes!Claim, Lanes!Report, Lanes!RowsOnly, Lanes!page
<1>2. FiredOK(fired[n], clock, edits) /\ DOMAIN fired = 1..MaxFires /\ edits \in Nat  BY DEF LaneInv
<1>3. \E x : /\ FiredOK(x, clock, edits) /\ Kept(fired[n], x) /\ x.loop = fired[n].loop /\ x.fires = fired[n].fires
             /\ fired' = [fired EXCEPT ![n] = x]
  <2>1. CASE Lanes!Claim(n)
    <3> DEFINE x == [fired[n] EXCEPT !.phase = "running", !.ts = clock, !.start = clock]
    <3>1. fired' = [fired EXCEPT ![n] = x]  BY <2>1, <1>2 DEF Lanes!Claim
    <3>2. FiredOK(x, clock, edits) /\ Kept(fired[n], x) /\ x.loop = fired[n].loop /\ x.fires = fired[n].fires
      BY <1>2 DEF FiredOK, Kept
    <3> QED  BY <3>1, <3>2
  <2>2. CASE Lanes!Report(n)
    <3> DEFINE x == [fired[n] EXCEPT !.phase = "over", !.ts = clock]
    <3>1. fired' = [fired EXCEPT ![n] = x]  BY <2>2, <1>2 DEF Lanes!Report
    <3>2. FiredOK(x, clock, edits) /\ Kept(fired[n], x) /\ x.loop = fired[n].loop /\ x.fires = fired[n].fires
      BY <1>2 DEF FiredOK, Kept
    <3> QED  BY <3>1, <3>2
  <2> QED  BY <2>1, <2>2
<1>4. PICK x : /\ FiredOK(x, clock, edits) /\ Kept(fired[n], x) /\ x.loop = fired[n].loop /\ x.fires = fired[n].fires
               /\ fired' = [fired EXCEPT ![n] = x]
  BY <1>3
<1>5. \A m \in 1..MaxFires : /\ FiredOK(fired'[m], clock, edits) /\ Kept(fired[m], fired'[m])
                             /\ fired'[m].loop = fired[m].loop /\ fired'[m].fires = fired[m].fires
  <2> SUFFICES ASSUME NEW m \in 1..MaxFires
               PROVE /\ FiredOK(fired'[m], clock, edits) /\ Kept(fired[m], fired'[m])
                     /\ fired'[m].loop = fired[m].loop /\ fired'[m].fires = fired[m].fires
    OBVIOUS
  <2>1. fired'[m] = IF m = n THEN x ELSE fired[m]  BY <1>2, <1>4
  <2> QED  BY <1>4, <2>1, StillThere DEF LaneInv
<1>6. \A l \in Loops : LaneOK(l, lane'[l], fired', edits')  BY <1>1, <1>5 DEF LaneInv, LaneOK
<1>7. edits' = edits /\ edits' \in Nat /\ edits <= edits' /\ DOMAIN fired' = 1..MaxFires  BY <1>1, <1>2, <1>4
<1> QED  BY <1>1, <1>5, <1>6, <1>7, RowsKeep DEF LaneInv

(* The requests. *)
LEMMA CallStep ==
  ASSUME LaneInv, UNCHANGED <<clock, fired, lane, edits>>, NEW i \in Asks, NEW c, CallOK(c, clock), KnownOK(c, fired),
         ask' = [ask EXCEPT ![i] = c], Apart(data')
  PROVE  LaneInv'
BY DEF LaneInv

LEMMA BlankCall == CallOK(Lanes!NoCall, clock) /\ KnownOK(Lanes!NoCall, fired)
BY DEF CallOK, KnownOK, Apart, Lanes!NoCall, Lanes!NoData

LEMMA ReadLoopsFits == ASSUME LaneInv, NEW i \in Asks, Lanes!ReadLoops(i) PROVE LaneInv'
<1> DEFINE seen == Lanes!Listed
           known == Lanes!Written
           c == [ask[i] EXCEPT !.at = "loops", !.known = known, !.seen = seen]
<1>1. CallOK(ask[i], clock) /\ Apart(data)  BY DEF LaneInv
<1>2. \A s \in seen : \E l \in Loops : s.id = l /\ s.row = lane[l]  BY DEF Lanes!Listed
<1>3. \A s \in seen : /\ s.id \in Loops /\ s.row.pin.at \in Int
                      /\ \A n \in 1..MaxFires : fired[n].loop = s.id => Waits(s.row.pin, fired[n].fires)
  BY <1>2 DEF LaneInv, LaneOK, PinOK
<1>4. \A n \in known : n \in 1..MaxFires /\ fired[n].phase # "none"  BY DEF Lanes!Written
<1>5. ask' = [ask EXCEPT ![i] = c]
  <2>1. ask' = [ask EXCEPT ![i].at = "loops", ![i].known = known, ![i].seen = seen]  BY DEF Lanes!ReadLoops
  <2> HIDE DEF known, seen
  <2> QED  BY <2>1 DEF LaneInv
<1> HIDE DEF known, seen
<1>6. c.seen = seen /\ c.known = known /\ c.win = ask[i].win /\ c.reply = ask[i].reply /\ c.rows = ask[i].rows
      /\ c.early = ask[i].early /\ DOMAIN c = DOMAIN ask[i]
  BY <1>1 DEF CallOK
<1>7. UNCHANGED <<clock, fired, lane, edits, data>>  BY DEF Lanes!ReadLoops, Lanes!ServerOnly, Lanes!rows, Lanes!page
<1> HIDE DEF c
<1>8. KnownOK(c, fired)  BY <1>3, <1>4, <1>6 DEF KnownOK
<1>9. CallOK(c, clock)
  <2>1. ask[i].rows = {} /\ c.rows = {}  BY <1>1, <1>6 DEF CallOK, Lanes!ReadLoops
  <2> QED  BY <1>1, <1>3, <1>6, <2>1 DEF CallOK
<1> QED  BY <1>1, <1>5, <1>7, <1>8, <1>9, CallStep

LEMMA ReadRowsFits == ASSUME LaneInv, NEW i \in Asks, Lanes!ReadRows(i) PROVE LaneInv'
<1>1. CallOK(ask[i], clock) /\ KnownOK(ask[i], fired) /\ Apart(data)  BY DEF LaneInv
<1>2. PICK c \in Lanes!InRange(ask[i].win) :
        ask' = [ask EXCEPT ![i].at = "rows", ![i].rows = Lanes!Fetched(c),
                           ![i].early = Lanes!Early(i, c),
                           ![i].slip = \E n \in c : fired[n].loop \notin {s.id : s \in ask[i].seen}]
  BY Zenon DEF Lanes!ReadRows
<1> DEFINE got == Lanes!Fetched(c)
           early == Lanes!Early(i, c)
           slip == \E n \in c : fired[n].loop \notin {s.id : s \in ask[i].seen}
           x == [ask[i] EXCEPT !.at = "rows", !.rows = got, !.early = early, !.slip = slip]
<1>3. c \subseteq 1..MaxFires /\ \A n \in c : fired[n].loop # All  BY <1>2 DEF Lanes!InRange
<1>4. x.seen = ask[i].seen /\ x.known = ask[i].known /\ x.win = ask[i].win /\ x.reply = ask[i].reply /\ x.rows = got
      /\ x.early = early /\ x.at = "rows" /\ DOMAIN x = DOMAIN ask[i]
  <2> HIDE DEF got, early, slip
  <2> QED  BY <1>1 DEF CallOK
<1>5. ASSUME NEW r \in got PROVE RowOK(x, r, clock)
  <2>1. PICK n \in c : r = [n |-> n, row |-> fired[n]]  BY DEF Lanes!Fetched
  <2>2. FiredOK(fired[n], clock, edits) /\ n \in 1..MaxFires  BY <1>3 DEF LaneInv
  <2>3. ASSUME NEW f \in fired[n].fires
        PROVE  /\ f.at \in Int /\ (f.by = 0 => f.at <= fired[n].made)
               /\ \A s \in ask[i].seen : fired[n].loop = s.id /\ f = s.row.pin => n \in early \/ f.at <= fired[n].made
    <3>1. FireOK(f, fired[n].made, edits) /\ fired[n].made \in Nat  BY <2>2 DEF FiredOK
    <3>2. ASSUME NEW s \in ask[i].seen, fired[n].loop = s.id, f = s.row.pin PROVE n \in early \/ f.at <= fired[n].made
      <4>1. CASE n \in ask[i].known
        <5>1. Waits(s.row.pin, fired[n].fires)  BY <1>1, <3>2, <4>1 DEF KnownOK
        <5> QED  BY <3>1, <3>2, <5>1 DEF Waits, FireOK
      <4>2. CASE n \notin ask[i].known
        <5>1. f.at > fired[n].made => n \in early  BY <4>2 DEF Lanes!Early
        <5> QED  BY <3>1, <5>1 DEF FireOK
      <4> QED  BY <4>1, <4>2
    <3> QED  BY <3>1, <3>2 DEF FireOK
  <2>4. r.n = n /\ r.row = fired[n]  BY <2>1
  <2> HIDE DEF early, got, slip
  <2>5. fired[n].made \in Nat /\ fired[n].made <= clock  BY <2>2 DEF FiredOK
  <2> HIDE DEF x
  <2> QED  BY <1>4, <2>3, <2>4, <2>5 DEF RowOK
<1>6. ask' = [ask EXCEPT ![i] = x]
  <2>1. ask' = [ask EXCEPT ![i].at = "rows", ![i].rows = got, ![i].early = early, ![i].slip = slip]  BY <1>2
  <2> HIDE DEF got, early, slip
  <2> QED  BY <2>1 DEF LaneInv
<1> HIDE DEF got, early, slip, x
<1>7. CallOK(x, clock) /\ KnownOK(x, fired)  BY <1>1, <1>4, <1>5 DEF CallOK, KnownOK
<1>8. UNCHANGED <<clock, fired, lane, edits, data>>  BY DEF Lanes!ReadRows, Lanes!ServerOnly, Lanes!rows, Lanes!page
<1> QED  BY <1>1, <1>6, <1>7, <1>8, CallStep

(* What is projected lies after the time of the answer: a fire of the cron, or the one-shot. *)
LEMMA ProjectedLater ==
  ASSUME NEW row, row.pin.at \in Int, NEW after \in Int, NEW to \in Int, NEW f \in Lanes!ProjectFires(row, after, to)
  PROVE  f.at \in Int /\ f.at > after /\ (f.by = 0 \/ f = row.pin)
<1> DEFINE cron == {t \in Fires : after < t /\ t <= to}
           walked == {t \in cron : Lanes!Cardinality({g \in cron : g < t}) < MaxProjected}
           pinned == {p \in {row.pin} : after < p.at /\ p.at <= to}
<1>1. Lanes!ProjectFires(row, after, to) \subseteq {Lanes!CronFire(t) : t \in walked} \cup pinned
  BY Zenon DEF Lanes!ProjectFires
<1>2. walked \subseteq cron  OBVIOUS
<1> HIDE DEF walked
<1>3. CASE f \in pinned  BY <1>3
<1>4. CASE f \in {Lanes!CronFire(t) : t \in cron}
  <2>1. PICK t \in cron : f = Lanes!CronFire(t)  BY <1>4
  <2> QED  BY <2>1, LaneNumbers DEF Lanes!CronFire
<1> QED  BY <1>1, <1>2, <1>3, <1>4

LEMMA RespondFits == ASSUME LaneInv, NEW i \in Asks, Lanes!Respond(i) PROVE LaneInv'
<1>1. CallOK(ask[i], clock) /\ Apart(data) /\ clock \in Nat  BY DEF LaneInv
<1> DEFINE from == Lanes!ProjectFrom(i)
           to == ask[i].win.to
           Due(s) == Lanes!ProjectFires(s.row, from, to)
           all == UNION {{Lanes!ProjectedMark(s.id, f.at, Due(s)) : f \in Due(s)} : s \in ask[i].seen}
           ghosts == IF from >= to THEN {} ELSE all
           marks == {Lanes!RunToMark(r) : r \in ask[i].rows} \cup ghosts
           reply == [from |-> ask[i].win.from, to |-> ask[i].win.to, lanes |-> {s.id : s \in ask[i].seen},
                     marks |-> marks, cut |-> Lanes!Cardinality(ask[i].rows) >= RunCap, early |-> ask[i].early]
           c == [Lanes!NoCall EXCEPT !.at = "back", !.win = ask[i].win, !.slip = ask[i].slip, !.reply = reply]
<1>2. from \in Int /\ from >= clock /\ to \in Int  BY <1>1, LaterOfTwo DEF Lanes!ProjectFrom, CallOK
<1> HIDE DEF from
<1>3. ASSUME NEW g \in marks, g.kind = "projected"
      PROVE  \E s \in ask[i].seen : /\ s.id = g.loop
                                     /\ \A f \in g.fires : f.at \in Int /\ f.at > clock /\ (f.by = 0 \/ f = s.row.pin)
  <2>1. \A r : Lanes!RunToMark(r).kind = "run"  BY DEF Lanes!RunToMark
  <2>2. PICK s \in ask[i].seen : \E f \in Due(s) : g = Lanes!ProjectedMark(s.id, f.at, Due(s))
    BY <1>3, <2>1, Zenon
  <2>3. g.loop = s.id /\ g.fires \subseteq Due(s)
    <3> HIDE DEF Due
    <3>1. PICK f \in Due(s) : g = Lanes!ProjectedMark(s.id, f.at, Due(s))  BY <2>2
    <3> QED  BY <3>1 DEF Lanes!ProjectedMark
  <2>4. s.row.pin.at \in Int  BY <1>1 DEF CallOK
  <2>5. \A f \in Due(s) : f.at \in Int /\ f.at > from /\ (f.by = 0 \/ f = s.row.pin)  BY <1>2, <2>4, ProjectedLater
  <2> HIDE DEF Due
  <2> QED  BY <1>1, <1>2, <2>3, <2>5
<1>4. ASSUME NEW m \in marks, m.kind = "run"
      PROVE  \E r \in ask[i].rows : m.run = r.n /\ m.loop = r.row.loop /\ m.fires = r.row.fires
  <2>1. \A l, t, fs : Lanes!ProjectedMark(l, t, fs).kind = "projected"  BY DEF Lanes!ProjectedMark
  <2>2. m \in {Lanes!RunToMark(r) : r \in ask[i].rows} \/ m \in all
    <3> HIDE DEF all
    <3> QED  BY <1>4
  <2>3. ASSUME m \in all PROVE m.kind = "projected"
    <3>1. PICK s \in ask[i].seen : m \in {Lanes!ProjectedMark(s.id, f.at, Due(s)) : f \in Due(s)}  BY <2>3
    <3> HIDE DEF Due
    <3> QED  BY <2>1, <3>1
  <2>4. \E r \in ask[i].rows : m = Lanes!RunToMark(r)  BY <1>4, <2>2, <2>3
  <2> QED  BY <2>4 DEF Lanes!RunToMark
<1>5. reply.marks = marks /\ reply.early = ask[i].early  OBVIOUS
<1>6. ask' = [ask EXCEPT ![i] = c]  BY Zenon DEF Lanes!Respond, from
<1> HIDE DEF marks
<1>7. Apart(reply)
  <2> SUFFICES ASSUME NEW m \in marks, NEW g \in marks, m.kind = "run", g.kind = "projected", g.loop = m.loop,
                      m.fires \cap g.fires # {}
               PROVE  m.run \in ask[i].early
    BY <1>5 DEF Apart
  <2>1. PICK r \in ask[i].rows : m.run = r.n /\ m.loop = r.row.loop /\ m.fires = r.row.fires  BY <1>4
  <2>2. PICK s \in ask[i].seen : /\ s.id = g.loop
                                 /\ \A f \in g.fires : f.at \in Int /\ f.at > clock /\ (f.by = 0 \/ f = s.row.pin)
    BY <1>3
  <2>3. PICK f \in m.fires : f \in g.fires  OBVIOUS
  <2>4. RowOK(ask[i], r, clock)  BY <1>1 DEF CallOK
  <2>5. f.at \in Int /\ f.at > clock /\ r.row.made \in Nat /\ r.row.made <= clock  BY <2>2, <2>3, <2>4 DEF RowOK
  <2>6. ~(f.at <= r.row.made)  BY <1>1, <2>5
  <2> QED  BY <2>1, <2>2, <2>3, <2>4, <2>6 DEF RowOK
<1> HIDE DEF reply
<1>8. CallOK(c, clock) /\ KnownOK(c, fired)  BY <1>1, <1>7 DEF CallOK, KnownOK, Lanes!NoCall
<1>9. UNCHANGED <<clock, fired, lane, edits, data>>  BY Zenon DEF Lanes!Respond, Lanes!ServerOnly, Lanes!rows, Lanes!page
<1> HIDE DEF c
<1> QED  BY <1>1, <1>6, <1>8, <1>9, CallStep

LEMMA PageSteps ==
  ASSUME LaneInv,
         \/ \E i \in Asks : Lanes!Answer(i) \/ Lanes!Fails(i)
         \/ \E z \in {"day", "week"} : Lanes!SetZoom(z)
         \/ Lanes!Refresh \/ Lanes!ShowIdle \/ \E m \in Hosts \cup {All} : Lanes!PickDevice(m)
  PROVE  LaneInv'
<1>1. Apart(data) /\ \A i \in Asks : CallOK(ask[i], clock) /\ KnownOK(ask[i], fired)  BY DEF LaneInv
<1>2. ASSUME NEW i \in Asks, Lanes!Answer(i) \/ Lanes!Fails(i) PROVE LaneInv'
  <2>1. /\ UNCHANGED <<clock, fired, lane, edits>> /\ ask' = [ask EXCEPT ![i] = Lanes!NoCall]
        /\ data' = ask[i].reply \/ data' = data
    BY <1>2 DEF Lanes!Answer, Lanes!Fails, Lanes!rows
  <2>2. Apart(data')  BY <1>1, <2>1 DEF CallOK
  <2> QED  BY <2>1, <2>2, BlankCall, CallStep
<1>3. ASSUME NEW z, Lanes!Load(z), UNCHANGED <<clock, fired, lane, edits, data>> PROVE LaneInv'
  <2>1. PICK i \in Asks : /\ ask[i] = Lanes!NoCall
                          /\ ask' = [ask EXCEPT ![i].at = "sent", ![i].win = Lanes!WindowFor(z, clock)]
    BY <1>3 DEF Lanes!Load
  <2> DEFINE win == Lanes!WindowFor(z, clock)
             c == [Lanes!NoCall EXCEPT !.at = "sent", !.win = win]
  <2>2. win.from \in Int /\ win.to \in Int  BY WindowIsWhole DEF LaneInv
  <2> HIDE DEF win
  <2>3. ask' = [ask EXCEPT ![i] = c]  BY <2>1 DEF LaneInv, win
  <2>4. CallOK(c, clock) /\ KnownOK(c, fired)  BY <2>2, BlankCall DEF CallOK, KnownOK, Lanes!NoCall
  <2> HIDE DEF c
  <2> QED  BY <1>1, <1>3, <2>3, <2>4, CallStep
<1>4. ASSUME NEW z, Lanes!SetZoom(z) PROVE LaneInv'
  BY <1>3, <1>4 DEF Lanes!SetZoom, Lanes!rows
<1>5. CASE Lanes!Refresh  BY <1>3, <1>5 DEF Lanes!Refresh, Lanes!rows
<1>6. CASE Lanes!ShowIdle \/ \E m \in Hosts \cup {All} : Lanes!PickDevice(m)
  <2>1. UNCHANGED <<clock, fired, lane, edits, ask, data>>  BY <1>6 DEF Lanes!ShowIdle, Lanes!PickDevice, Lanes!rows
  <2> QED  BY <2>1, RowsKeep, StillThere DEF LaneInv
<1> QED  BY <1>2, <1>4, <1>5, <1>6

LEMMA LaneStep == ASSUME LaneInv, [Lanes!Next]_(Lanes!vars) PROVE LaneInv'
<1>1. CASE Lanes!Next
  BY <1>1, LaneTick, LoopSteps, RunSteps, ReadLoopsFits, ReadRowsFits, RespondFits, PageSteps, Zenon DEF Lanes!Next
<1>2. CASE UNCHANGED Lanes!vars
  <2>1. UNCHANGED <<clock, fired, lane, edits, ask, data>>  BY <1>2 DEF Lanes!vars, Lanes!rows, Lanes!page
  <2> QED  BY <2>1, RowsKeep, StillThere DEF LaneInv
<1> QED  BY <1>1, <1>2

(* LoopTimeline.tsx, loopApi.ts: no fire is drawn both as a run and as a   *)
(* projection of what is to come, whatever fires, ticks and edits come     *)
(* between the reads, and in whichever order the answers arrive, but for   *)
(* a one-shot that a tick took ahead of its time after the schedule was    *)
(* read: a fire of the cron that was answered is older than the time       *)
(* projected from, and a one-shot read as waiting was taken later.         *)
THEOREM FireShownOnceHolds == Lanes!Spec => []FireShownOnce
<1>1. LaneInv => FireShownOnce
  BY DEF LaneInv, Apart, FireShownOnce, Lanes!FireShownOnce, Lanes!Drawn
<1> QED  BY <1>1, LaneStart, LaneStep, PTL DEF Lanes!Spec

(***************************************************************************)
(* Survey: where the loops live.                                           *)
(***************************************************************************)
LEMMA SurveyNames ==
  /\ Loops \subseteq STRING /\ "none" \notin Loops /\ "gone" \notin Loops /\ NoPath \notin CliPages!Paths
  /\ Dirs \subseteq CliPages!Paths /\ ScratchDir \in CliPages!Paths
  /\ HomeRuns \in Nat /\ LogRuns \in Nat /\ MaxRuns \in Nat /\ MaxChanges \in Nat
BY SurveyConstants DEF CliPages!SurveyConstantsOK

Placed(p) == p.task \in CliPages!Paths \cup {NoPath} /\ p.rel \in BOOLEAN /\ p.workdir \in CliPages!Paths \cup {NoPath}
LoopsPlaced == DOMAIN there = Loops /\ \A l \in Loops : DOMAIN there[l] = {"there", "place"} /\ Placed(there[l].place)

LEMMA PlacedStart == CliPages!Init => LoopsPlaced
<1> SUFFICES ASSUME CliPages!Init PROVE LoopsPlaced  OBVIOUS
<1>1. PICK p \in Places : there = [l \in Loops |-> [there |-> TRUE, place |-> p[l]]]  BY DEF CliPages!Init
<1>2. \A l \in Loops : Placed(p[l])  BY <1>1, SurveyConstants DEF CliPages!SurveyConstantsOK, Placed
<1> QED  BY <1>1, <1>2 DEF LoopsPlaced

LEMMA PlacedStep == ASSUME LoopsPlaced, [CliPages!Next]_(CliPages!vars) PROVE LoopsPlaced'
<1>1. ASSUME NEW l \in Loops, CliPages!DeleteLoop(l) PROVE LoopsPlaced'
  <2>1. there' = [there EXCEPT ![l] = [there[l] EXCEPT !.there = FALSE]]
    BY <1>1 DEF CliPages!DeleteLoop, LoopsPlaced
  <2>2. DOMAIN [there[l] EXCEPT !.there = FALSE] = {"there", "place"} /\ [there[l] EXCEPT !.there = FALSE].place = there[l].place
    BY DEF LoopsPlaced
  <2> QED  BY <2>1, <2>2 DEF LoopsPlaced
<1>2. CASE UNCHANGED there  BY <1>2 DEF LoopsPlaced
<1>3. UNCHANGED there \/ \E l \in Loops : CliPages!DeleteLoop(l)
  <2>1. ASSUME NEW l \in Loops, CliPages!NewRun(l) PROVE UNCHANGED there
    BY <2>1, Zenon DEF CliPages!NewRun, CliPages!Change
  <2>2. ASSUME NEW n \in CliPages!N, CliPages!Claim(n) \/ CliPages!Report(n) PROVE UNCHANGED there
    BY <2>2, Zenon DEF CliPages!Claim, CliPages!Report, CliPages!Change
  <2>3. ASSUME NEW v, NEW d, CliPages!Begin(v, d) PROVE UNCHANGED there
    BY <2>3 DEF CliPages!Begin, CliPages!rows
  <2>4. CASE \/ CliPages!ReadLoops \/ CliPages!ReadLast \/ CliPages!ReadLastDone \/ CliPages!ReadRuns
             \/ CliPages!ShowHome \/ CliPages!PickLoop \/ CliPages!ReadLog \/ CliPages!ShowLog
    BY <2>4, Zenon DEF CliPages!ReadLoops, CliPages!ReadLast, CliPages!ReadLastDone, CliPages!ReadRuns,
       CliPages!ShowHome, CliPages!PickLoop, CliPages!ReadLog, CliPages!ShowLog, CliPages!rows
  <2>5. CASE UNCHANGED CliPages!vars  BY <2>5 DEF CliPages!vars, CliPages!rows
  <2> QED  BY <2>1, <2>2, <2>3, <2>4, <2>5, Zenon DEF CliPages!Next
<1> QED  BY <1>1, <1>2, <1>3

LEMMA Appended ==
  ASSUME NEW S, NEW s \in Seq(S), NEW x \in S
  PROVE  Append(s, x) \in Seq(S) /\ Len(Append(s, x)) = Len(s) + 1 /\ \A i \in 1..Len(s) : Append(s, x)[i] = s[i]
OBVIOUS

(* What is within a folder of the scratch folder is within the scratch folder. *)
LEMMA DeeperWithin ==
  ASSUME NEW s \in CliPages!Paths, NEW x \in STRING, NEW d \in CliPages!Paths, CliPages!Within(Append(s, x), d)
  PROVE  CliPages!Within(s, d)
<1> USE DEF CliPages!Paths
<1> DEFINE t == Append(s, x)
<1>1. t \in Seq(STRING) /\ Len(t) = Len(s) + 1 /\ Len(s) \in Nat /\ Len(d) \in Nat
      /\ \A i \in 1..Len(s) : t[i] = s[i]
  <2>1. Len(s) \in Nat /\ Len(d) \in Nat  OBVIOUS
  <2> QED  BY <2>1, Appended
<1> HIDE DEF t
<1>2. Len(t) <= Len(d) /\ SubSeq(t, 1, Len(t)) = SubSeq(d, 1, Len(t))
  BY DEF CliPages!Within, CliPages!IsPrefix, t
<1>3. ASSUME NEW i \in 1..Len(s) PROVE s[i] = d[i]
  <2>1. i \in 1..Len(t) /\ i \in 1..Len(d)  BY <1>1, <1>2
  <2>2. SubSeq(t, 1, Len(t))[i] = t[i]  BY <1>1, <2>1
  <2>3. SubSeq(d, 1, Len(t))[i] = d[i]  BY <1>1, <1>2, <2>1
  <2> QED  BY <1>1, <1>2, <2>2, <2>3
<1>4. SubSeq(s, 1, Len(s)) = SubSeq(d, 1, Len(s))
  <2>1. /\ SubSeq(s, 1, Len(s)) \in Seq(STRING) /\ Len(SubSeq(s, 1, Len(s))) = Len(s)
        /\ \A i \in 1..Len(s) : SubSeq(s, 1, Len(s))[i] = s[i]
    BY <1>1
  <2>2. /\ SubSeq(d, 1, Len(s)) \in Seq(STRING) /\ Len(SubSeq(d, 1, Len(s))) = Len(s)
        /\ \A i \in 1..Len(s) : SubSeq(d, 1, Len(s))[i] = d[i]
    BY <1>1, <1>2
  <2> QED  BY <1>3, <2>1, <2>2
<1> QED  BY <1>1, <1>2, <1>4 DEF CliPages!Within, CliPages!IsPrefix

(* The server and the daemon place a loop alike, but for the scratch folder. *)
LEMMA SameDir ==
  ASSUME NEW l \in Loops, LoopsPlaced
  PROVE  \/ CliPages!ScopeDir(l) # NoPath /\ CliPages!LoopDir(l) = CliPages!ScopeDir(l)
         \/ CliPages!LoopDir(l) = Append(ScratchDir, l)
<1> DEFINE p == there[l].place
<1>1. \A s \in CliPages!Paths : CliPages!Front(s) \in CliPages!Paths
  BY DEF CliPages!Front, CliPages!Paths
<1>2. \A s, t \in CliPages!Paths : s \o t \in CliPages!Paths  BY DEF CliPages!Paths
<1>3. p.task \in CliPages!Paths \cup {NoPath} /\ p.workdir \in CliPages!Paths \cup {NoPath}
  BY DEF LoopsPlaced, Placed
<1>4. CASE p.task # NoPath /\ ~p.rel
  <2>1. CliPages!Front(p.task) # NoPath  BY <1>1, <1>3, <1>4, SurveyNames
  <2> QED  BY <1>4, <2>1, Zenon DEF CliPages!LoopDir, CliPages!ScopeDir
<1>5. CASE ~(p.task # NoPath /\ ~p.rel) /\ p.task # NoPath /\ p.workdir # NoPath
  <2>1. CliPages!Front(p.workdir \o p.task) # NoPath  BY <1>1, <1>2, <1>3, <1>5, SurveyNames
  <2> QED  BY <1>5, <2>1, Zenon DEF CliPages!LoopDir, CliPages!ScopeDir
<1>6. CASE ~(p.task # NoPath /\ ~p.rel) /\ ~(p.task # NoPath /\ p.workdir # NoPath)
  BY <1>6, Zenon DEF CliPages!LoopDir, CliPages!ScopeDir
<1> QED  BY <1>4, <1>5, <1>6

(* cli.ts, loopdir.ts: for any places and directories, the loop the daemon *)
(* takes a directory for is among those the server shows as the            *)
(* directory's, unless it is a scratch folder.                             *)
THEOREM SameFolderHolds == CliPages!Spec => []SameFolder
<1>1. ASSUME LoopsPlaced, NEW d \in Dirs, ~CliPages!Within(ScratchDir, d), NEW l \in CliPages!Resolved(CliPages!There, d)
      PROVE  l \in CliPages!ScopeLoops(CliPages!There, d)
  <2>1. l \in CliPages!There /\ l \in Loops /\ CliPages!Within(CliPages!LoopDir(l), d)
    BY <1>1 DEF CliPages!Resolved, CliPages!There
  <2>2. CliPages!LoopDir(l) # Append(ScratchDir, l)  BY <1>1, <2>1, DeeperWithin, SurveyNames
  <2>3. CliPages!ScopeDir(l) # NoPath /\ CliPages!Within(CliPages!ScopeDir(l), d)  BY <1>1, <2>1, <2>2, SameDir
  <2> QED  BY <2>1, <2>3 DEF CliPages!ScopeLoops
<1>2. LoopsPlaced => SameFolder  BY <1>1 DEF SameFolder, CliPages!SameFolder
<1> QED  BY <1>2, PlacedStart, PlacedStep, PTL DEF CliPages!Spec

(***************************************************************************)
(* Survey: the newest of a set of rows.                                    *)
(***************************************************************************)
Newer(rs, t) == {s \in rs : s.ts > t}
Stamped(rs) == (\A r \in rs : r.ts \in Nat) /\ \A r, s \in rs : r.ts = s.ts => r = s

LEMMA NewestIs == \A rs, k : CliPages!Newest(rs, k) = {r \in rs : Cardinality(Newer(rs, r.ts)) < k}
<1>1. \A S : CliPages!Cardinality(S) = Cardinality(S)  BY DEF CliPages!Cardinality, Cardinality
<1> QED  BY <1>1 DEF CliPages!Newest, Newer

LEMMA LeastNat == ASSUME NEW S \in SUBSET Nat, S # {} PROVE \E i \in S : \A j \in S : i <= j
<1>1. PICK i \in S : \A j \in S : <<j, i>> \notin OpToRel(<, Nat)
  BY WFMin, NatLessThanWellFounded, Zenon
<1>2. \A j \in S : ~(j < i)  BY <1>1, Zenon DEF OpToRel
<1>3. \A j \in S : i <= j  BY <1>2
<1> QED  BY <1>3

LEMMA NewerCounts ==
  ASSUME NEW A, IsFiniteSet(A), NEW t
  PROVE  IsFiniteSet(Newer(A, t)) /\ Cardinality(Newer(A, t)) \in Nat
<1>1. Newer(A, t) \subseteq A  BY DEF Newer
<1>2. IsFiniteSet(Newer(A, t))  BY <1>1, FS_Subset
<1> QED  BY <1>2, FS_CardinalityType

(* Fewer are newer than what is newer. *)
LEMMA NewerThanNewer ==
  ASSUME NEW A, IsFiniteSet(A), \A r \in A : r.ts \in Nat, NEW x \in A, NEW y \in A, y.ts > x.ts
  PROVE  Cardinality(Newer(A, y.ts)) < Cardinality(Newer(A, x.ts))
<1>1. Newer(A, y.ts) \subseteq Newer(A, x.ts) /\ y \in Newer(A, x.ts) /\ y \notin Newer(A, y.ts)  BY DEF Newer
<1>2. IsFiniteSet(Newer(A, x.ts))  BY NewerCounts
<1>3. Newer(A, y.ts) # Newer(A, x.ts)  BY <1>1
<1> DEFINE B == Newer(A, x.ts)  C == Newer(A, y.ts)
<1> HIDE DEF B, C
<1>4. IsFiniteSet(B) /\ C \subseteq B /\ C # B  BY <1>1, <1>2, <1>3 DEF B, C
<1>5. Cardinality(C) < Cardinality(B)  BY <1>4, FS_Subset, FS_CardinalityType
<1> QED  BY <1>5 DEF B, C

LEMMA Latest ==
  ASSUME NEW A, IsFiniteSet(A), A # {}, \A r \in A : r.ts \in Nat
  PROVE  \E x \in A : \A y \in A : y.ts <= x.ts
<1> DEFINE S == {Cardinality(Newer(A, x.ts)) : x \in A}
<1>1. S \in SUBSET Nat /\ S # {}  BY NewerCounts
<1>2. PICK m \in S : \A k \in S : m <= k  BY <1>1, LeastNat
<1>3. PICK x \in A : m = Cardinality(Newer(A, x.ts))  BY <1>2
<1>4. ASSUME NEW y \in A, y.ts > x.ts PROVE FALSE
  <2>1. Cardinality(Newer(A, y.ts)) < Cardinality(Newer(A, x.ts))  BY <1>4, NewerThanNewer
  <2>2. Cardinality(Newer(A, y.ts)) \in S  OBVIOUS
  <2>3. m <= Cardinality(Newer(A, y.ts))  BY <1>2, <2>2
  <2>4. Cardinality(Newer(A, y.ts)) \in Nat /\ m \in Nat  BY <1>1, <1>2, NewerCounts
  <2> HIDE DEF S
  <2> QED  BY <1>3, <2>1, <2>3, <2>4
<1>5. \A y \in A : y.ts <= x.ts  BY <1>4
<1> QED  BY <1>5

(* One more of the newest is one row more. *)
LEMMA OneNewest ==
  ASSUME NEW A, IsFiniteSet(A), Stamped(A), NEW k \in Nat,
         Cardinality(CliPages!Newest(A, k)) = k, k < Cardinality(A)
  PROVE  Cardinality(CliPages!Newest(A, k + 1)) = k + 1
<1> DEFINE B == CliPages!Newest(A, k)
<1>1. B \subseteq A /\ IsFiniteSet(B) /\ B # A
  <2>1. B \subseteq A  BY DEF CliPages!Newest
  <2> QED  BY <2>1, FS_Subset
<1>2. \A r \in A : r \in B <=> Cardinality(Newer(A, r.ts)) < k  BY NewestIs
<1> HIDE DEF B
<1>3. PICK x \in A \ B : \A y \in A \ B : y.ts <= x.ts
  <2>1. IsFiniteSet(A \ B) /\ A \ B # {} /\ \A r \in A \ B : r.ts \in Nat
    BY <1>1, FS_Difference DEF Stamped
  <2> QED  BY <2>1, Latest
<1>4. \A r \in A : Cardinality(Newer(A, r.ts)) \in Nat  BY NewerCounts
<1>5. \A y \in B : y.ts > x.ts
  <2> SUFFICES ASSUME NEW y \in B, ~(y.ts > x.ts) PROVE FALSE  OBVIOUS
  <2>1. y \in A /\ x \in A /\ y # x /\ y.ts \in Nat /\ x.ts \in Nat  BY <1>1, <1>3 DEF Stamped
  <2>2. x.ts > y.ts  BY <2>1 DEF Stamped
  <2>3. Cardinality(Newer(A, x.ts)) < Cardinality(Newer(A, y.ts))  BY <2>1, <2>2, NewerThanNewer DEF Stamped
  <2> QED  BY <1>2, <1>3, <1>4, <2>1, <2>3
<1>6. Newer(A, x.ts) = B
  <2>1. \A r \in A : r.ts > x.ts => r \in B  BY <1>3 DEF Stamped
  <2> QED  BY <1>1, <1>5, <2>1 DEF Newer
<1>7. \A y \in A \ B : Cardinality(Newer(A, y.ts)) < k + 1 <=> y = x
  <2>1. Cardinality(Newer(A, x.ts)) = k  BY <1>6 DEF B
  <2>2. ASSUME NEW y \in A \ B, y # x PROVE ~(Cardinality(Newer(A, y.ts)) < k + 1)
    <3>1. x.ts > y.ts  BY <1>3, <2>2 DEF Stamped
    <3>2. Cardinality(Newer(A, x.ts)) < Cardinality(Newer(A, y.ts))  BY <1>3, <3>1, NewerThanNewer DEF Stamped
    <3> QED  BY <1>4, <2>1, <3>2
  <2> QED  BY <2>1, <2>2
<1>8. CliPages!Newest(A, k + 1) = B \cup {x}
  <2>1. \A r \in A : r \in CliPages!Newest(A, k + 1) <=> Cardinality(Newer(A, r.ts)) < k + 1  BY NewestIs
  <2>2. CliPages!Newest(A, k + 1) \subseteq A  BY DEF CliPages!Newest
  <2>3. \A r \in B : Cardinality(Newer(A, r.ts)) < k + 1  BY <1>1, <1>2, <1>4
  <2> QED  BY <1>1, <1>3, <1>7, <2>1, <2>2, <2>3
<1>9. Cardinality(B \cup {x}) = Cardinality(B) + 1  BY <1>1, <1>3, FS_AddElement
<1> QED  BY <1>8, <1>9 DEF B

LEMMA KNewest ==
  ASSUME NEW A, IsFiniteSet(A), Stamped(A), NEW k \in Nat, k <= Cardinality(A)
  PROVE  Cardinality(CliPages!Newest(A, k)) = k
<1> DEFINE Bad == {j \in Nat : j <= Cardinality(A) /\ Cardinality(CliPages!Newest(A, j)) # j}
<1>1. Bad = {}
  <2> SUFFICES ASSUME Bad # {} PROVE FALSE  OBVIOUS
  <2>1. Bad \in SUBSET Nat  OBVIOUS
  <2>2. PICK b \in Bad : \A j \in Bad : b <= j  BY <2>1, LeastNat
  <2>3. Cardinality(A) \in Nat  BY FS_CardinalityType
  <2>4. b # 0
    <3>1. CliPages!Newest(A, 0) = {}
      <4>1. \A r \in A : ~(Cardinality(Newer(A, r.ts)) < 0)  BY NewerCounts
      <4> QED  BY <4>1, NewestIs
    <3>2. Cardinality(CliPages!Newest(A, 0)) = 0  BY <3>1, FS_EmptySet
    <3> QED  BY <3>2
  <2>5. b - 1 \in Nat /\ b - 1 \notin Bad /\ b - 1 < Cardinality(A)  BY <2>2, <2>3, <2>4
  <2>6. Cardinality(CliPages!Newest(A, b - 1)) = b - 1  BY <2>3, <2>5
  <2> DEFINE c == b - 1
  <2> HIDE DEF c
  <2>7. c \in Nat /\ Cardinality(CliPages!Newest(A, c)) = c /\ c < Cardinality(A)  BY <2>5, <2>6 DEF c
  <2>8. Cardinality(CliPages!Newest(A, c + 1)) = c + 1  BY <2>7, OneNewest
  <2>9. c + 1 = b  BY <2>2 DEF c
  <2> QED  BY <2>2, <2>8, <2>9
<1> QED  BY <1>1

(***************************************************************************)
(* Survey: what the home page has gathered.                                *)
(***************************************************************************)
RowsStamped ==
  /\ changes \in Nat /\ DOMAIN runs = CliPages!N
  /\ \A n \in CliPages!N : /\ DOMAIN runs[n] = {"loop", "role", "phase", "ts"}
                           /\ runs[n].ts \in Nat /\ runs[n].ts <= changes
  /\ \A m, n \in CliPages!N : runs[m].loop \in Loops /\ runs[n].loop \in Loops /\ runs[m].ts = runs[n].ts => m = n

RequestShaped ==
  /\ DOMAIN req = {"verb", "at", "step", "todo", "listed", "of", "got", "last"}
  /\ req.step \in {"list", "last"} => req.got = {}
  /\ req.step \in {"last", "runs"} => req.listed \subseteq Loops
  /\ req.step = "runs" => req.todo \subseteq Loops
  /\ printed # CliPages!Nothing => req = CliPages!NoReq

(* A run of a loop already read is there as it is now, or enough newer ones are. *)
GatheredOnce ==
  /\ IsFiniteSet(req.got) /\ Stamped(req.got)
  /\ \A x \in req.got : x.ts <= changes
  /\ \A x \in req.got, n \in CliPages!N : runs[n].loop \in Loops /\ runs[n].ts = x.ts => CliPages!Row(n) = x

GatheredEnough ==
  \A n \in CliPages!N \ touched : runs[n].loop \in req.listed \ req.todo =>
    CliPages!Row(n) \in req.got \/ Cardinality(Newer(req.got, runs[n].ts)) >= HomeRuns

Gathered == req.step = "runs" => GatheredOnce /\ GatheredEnough

SurveyInv == RowsStamped /\ RequestShaped /\ Gathered /\ NothingNewerMissing

LEMMA SurveyStart == CliPages!Init => SurveyInv
<1> SUFFICES ASSUME CliPages!Init PROVE SurveyInv  OBVIOUS
<1>1. /\ runs = [n \in CliPages!N |-> CliPages!NoRun] /\ changes = 0 /\ req = CliPages!NoReq /\ printed = CliPages!Nothing
  BY DEF CliPages!Init
<1>2. RowsStamped  BY <1>1, SurveyNames DEF RowsStamped, CliPages!NoRun
<1>3. RequestShaped /\ Gathered  BY <1>1 DEF RequestShaped, Gathered, CliPages!NoReq
<1>4. NothingNewerMissing  BY <1>1 DEF NothingNewerMissing, CliPages!NothingNewerMissing, CliPages!Nothing
<1> QED  BY <1>2, <1>3, <1>4 DEF SurveyInv

(* A run that changes is stamped anew, and counts as touched. *)
LEMMA ChangeKeeps ==
  ASSUME SurveyInv, NEW n \in CliPages!N, NEW r, DOMAIN r = {"loop", "role", "phase", "ts"}, CliPages!Change(n, r)
  PROVE  SurveyInv'
<1> DEFINE q == [r EXCEPT !.ts = changes + 1]
<1>1. /\ printed = CliPages!Nothing /\ changes' = changes + 1 /\ runs' = [runs EXCEPT ![n] = q]
      /\ touched' = (IF req = CliPages!NoReq THEN touched ELSE touched \cup {n})
      /\ UNCHANGED <<there, req, printed>>
  BY DEF CliPages!Change
<1>2. DOMAIN q = {"loop", "role", "phase", "ts"} /\ q.ts = changes + 1  OBVIOUS
<1> HIDE DEF q
<1>3. RowsStamped /\ RequestShaped /\ Gathered  BY DEF SurveyInv
<1>4. runs'[n] = q /\ \A m \in CliPages!N : m # n => runs'[m] = runs[m]  BY <1>1, <1>3 DEF RowsStamped
<1>5. RowsStamped'
  <2>1. changes' \in Nat /\ DOMAIN runs' = CliPages!N  BY <1>1, <1>3 DEF RowsStamped
  <2>2. \A m \in CliPages!N : /\ DOMAIN runs'[m] = {"loop", "role", "phase", "ts"}
                              /\ runs'[m].ts \in Nat /\ runs'[m].ts <= changes'
    <3>1. n \in CliPages!N => /\ DOMAIN runs'[n] = {"loop", "role", "phase", "ts"}
                              /\ runs'[n].ts \in Nat /\ runs'[n].ts <= changes'
      BY <1>1, <1>2, <1>3, <1>4 DEF RowsStamped
    <3>2. ASSUME NEW m \in CliPages!N, m # n
          PROVE  /\ DOMAIN runs'[m] = {"loop", "role", "phase", "ts"} /\ runs'[m].ts \in Nat /\ runs'[m].ts <= changes'
      BY <1>1, <1>3, <1>4, <3>2 DEF RowsStamped
    <3> QED  BY <3>1, <3>2
  <2>3. \A m \in CliPages!N : m # n => runs'[m].ts < runs'[n].ts
    BY <1>1, <1>2, <1>3, <1>4 DEF RowsStamped
  <2>4. ASSUME NEW k \in CliPages!N, NEW m \in CliPages!N,
               runs'[k].loop \in Loops, runs'[m].loop \in Loops, runs'[k].ts = runs'[m].ts
        PROVE  k = m
    <3>1. CASE k = n \/ m = n  BY <3>1, <2>2, <2>3, <2>4
    <3>2. CASE k # n /\ m # n  BY <3>2, <1>3, <1>4, <2>4 DEF RowsStamped
    <3> QED  BY <3>1, <3>2
  <2> QED  BY <2>1, <2>2, <2>4 DEF RowsStamped
<1>6. RequestShaped'  BY <1>1, <1>3 DEF RequestShaped
<1>7. ASSUME req.step = "runs" PROVE GatheredOnce' /\ GatheredEnough'
  <2>1. req # CliPages!NoReq  BY <1>7 DEF CliPages!NoReq
  <2>2. touched' = touched \cup {n} /\ req' = req  BY <1>1, <2>1
  <2>3. GatheredOnce /\ GatheredEnough  BY <1>3, <1>7 DEF Gathered
  <2>4. \A m \in CliPages!N : m # n => CliPages!Row(m)' = CliPages!Row(m)  BY <1>4 DEF CliPages!Row
  <2>5. GatheredOnce'
    <3>1. \A x \in req.got : x.ts \in Nat /\ x.ts <= changes  BY <2>3 DEF GatheredOnce, Stamped
    <3>2. IsFiniteSet(req'.got) /\ Stamped(req'.got)  BY <2>2, <2>3 DEF GatheredOnce
    <3>3. \A x \in req'.got : x.ts <= changes'  BY <1>1, <1>3, <2>2, <3>1 DEF RowsStamped
    <3>4. ASSUME NEW x \in req.got, NEW m \in CliPages!N, runs'[m].loop \in Loops, runs'[m].ts = x.ts
          PROVE  CliPages!Row(m)' = x
      <4>1. m # n  BY <1>2, <1>3, <1>4, <3>1, <3>4 DEF RowsStamped
      <4> QED  BY <1>4, <2>3, <2>4, <3>4, <4>1 DEF GatheredOnce
    <3> QED  BY <2>2, <3>2, <3>3, <3>4 DEF GatheredOnce
  <2>6. GatheredEnough'
    <3>1. ASSUME NEW m \in CliPages!N, m \notin touched', runs'[m].loop \in req'.listed \ req'.todo
          PROVE  (CliPages!Row(m) \in req.got)' \/ Cardinality(Newer(req'.got, runs'[m].ts)) >= HomeRuns
      <4>1. m # n /\ m \notin touched  BY <2>2, <3>1
      <4>2. runs'[m] = runs[m] /\ CliPages!Row(m)' = CliPages!Row(m)  BY <1>4, <2>4, <4>1
      <4> QED  BY <2>2, <2>3, <3>1, <4>1, <4>2 DEF GatheredEnough
    <3> QED  BY <3>1 DEF GatheredEnough
  <2> QED  BY <2>5, <2>6
<1>8. Gathered'
  <2>1. req'.step = req.step  BY <1>1
  <2> QED  BY <1>7, <2>1 DEF Gathered
<1>9. NothingNewerMissing'
  <2>1. printed'.verb # "home"  BY <1>1 DEF CliPages!Nothing
  <2> QED  BY <2>1 DEF NothingNewerMissing, CliPages!NothingNewerMissing
<1> QED  BY <1>5, <1>6, <1>8, <1>9 DEF SurveyInv

(* The runs of a loop that goes are touched as well. *)
LEMMA DeleteKeeps ==
  ASSUME SurveyInv, NEW l \in Loops, CliPages!DeleteLoop(l)
  PROVE  SurveyInv'
<1> DEFINE q == [CliPages!NoRun EXCEPT !.loop = "gone"]
<1>1. /\ printed = CliPages!Nothing
      /\ runs' = [n \in CliPages!N |-> IF n \in CliPages!Of(l) THEN q ELSE runs[n]]
      /\ touched' = (IF req = CliPages!NoReq THEN touched ELSE touched \cup CliPages!Of(l))
      /\ UNCHANGED <<changes, req, printed>>
  BY DEF CliPages!DeleteLoop
<1>2. DOMAIN q = {"loop", "role", "phase", "ts"} /\ q.ts = 0 /\ q.loop = "gone"  BY DEF CliPages!NoRun
<1> HIDE DEF q
<1>3. RowsStamped /\ RequestShaped /\ Gathered  BY DEF SurveyInv
<1>4. \A m \in CliPages!N : runs'[m] = IF m \in CliPages!Of(l) THEN q ELSE runs[m]  BY <1>1
<1>5. \A m \in CliPages!N : runs'[m].loop \in Loops => m \notin CliPages!Of(l) /\ runs'[m] = runs[m]
  BY <1>2, <1>4, SurveyNames
<1>6. RowsStamped'
  <2>1. changes' \in Nat /\ DOMAIN runs' = CliPages!N  BY <1>1, <1>3 DEF RowsStamped
  <2>2. ASSUME NEW m \in CliPages!N
        PROVE  /\ DOMAIN runs'[m] = {"loop", "role", "phase", "ts"} /\ runs'[m].ts \in Nat /\ runs'[m].ts <= changes'
    <3>1. CASE m \in CliPages!Of(l)
      <4>1. runs'[m] = q  BY <1>4, <3>1
      <4> QED  BY <1>2, <2>1, <4>1
    <3>2. CASE m \notin CliPages!Of(l)
      <4>1. runs'[m] = runs[m] /\ changes' = changes  BY <1>1, <1>4, <3>2
      <4> QED  BY <1>3, <4>1 DEF RowsStamped
    <3> QED  BY <3>1, <3>2
  <2>3. ASSUME NEW k \in CliPages!N, NEW m \in CliPages!N,
               runs'[k].loop \in Loops, runs'[m].loop \in Loops, runs'[k].ts = runs'[m].ts
        PROVE  k = m
    BY <1>3, <1>5, <2>3 DEF RowsStamped
  <2> QED  BY <2>1, <2>2, <2>3 DEF RowsStamped
<1>7. RequestShaped'  BY <1>1, <1>3 DEF RequestShaped
<1>8. ASSUME req.step = "runs" PROVE GatheredOnce' /\ GatheredEnough'
  <2>1. req # CliPages!NoReq  BY <1>8 DEF CliPages!NoReq
  <2>2. touched' = touched \cup CliPages!Of(l) /\ req' = req /\ changes' = changes  BY <1>1, <2>1
  <2>3. GatheredOnce /\ GatheredEnough  BY <1>3, <1>8 DEF Gathered
  <2>4. \A m \in CliPages!N : m \notin CliPages!Of(l) => runs'[m] = runs[m] /\ CliPages!Row(m)' = CliPages!Row(m)
    BY <1>4 DEF CliPages!Row
  <2>5. GatheredOnce'
    <3>1. IsFiniteSet(req'.got) /\ Stamped(req'.got) /\ \A x \in req'.got : x.ts <= changes'
      BY <2>2, <2>3 DEF GatheredOnce
    <3>2. ASSUME NEW x \in req.got, NEW m \in CliPages!N, runs'[m].loop \in Loops, runs'[m].ts = x.ts
          PROVE  CliPages!Row(m)' = x
      BY <1>5, <2>3, <2>4, <3>2 DEF GatheredOnce
    <3> QED  BY <2>2, <3>1, <3>2 DEF GatheredOnce
  <2>6. GatheredEnough'
    <3>1. ASSUME NEW m \in CliPages!N, m \notin touched', runs'[m].loop \in req'.listed \ req'.todo
          PROVE  (CliPages!Row(m) \in req.got)' \/ Cardinality(Newer(req'.got, runs'[m].ts)) >= HomeRuns
      <4>1. m \notin CliPages!Of(l) /\ m \notin touched  BY <2>2, <3>1
      <4>2. runs'[m] = runs[m] /\ CliPages!Row(m)' = CliPages!Row(m)  BY <2>4, <4>1
      <4> QED  BY <2>2, <2>3, <3>1, <4>1, <4>2 DEF GatheredEnough
    <3> QED  BY <3>1 DEF GatheredEnough
  <2> QED  BY <2>5, <2>6
<1>9. Gathered'
  <2>1. req'.step = req.step  BY <1>1
  <2> QED  BY <1>8, <2>1 DEF Gathered
<1>10. NothingNewerMissing'
  <2>1. printed'.verb # "home"  BY <1>1 DEF CliPages!Nothing
  <2> QED  BY <2>1 DEF NothingNewerMissing, CliPages!NothingNewerMissing
<1> QED  BY <1>6, <1>7, <1>9, <1>10 DEF SurveyInv

(***************************************************************************)
(* Survey: the home page reads one loop after the other.                   *)
(***************************************************************************)
LEMMA RowsFinite ==
  ASSUME RowsStamped, NEW l \in Loops
  PROVE  IsFiniteSet(CliPages!RowsOf(l)) /\ Stamped(CliPages!RowsOf(l))
<1>1. IsFiniteSet(CliPages!N)  BY SurveyNames, FS_Interval DEF CliPages!N
<1>2. CliPages!Of(l) \subseteq CliPages!N  BY DEF CliPages!Of
<1>3. IsFiniteSet(CliPages!Of(l))  BY <1>1, <1>2, FS_Subset
<1>4. IsFiniteSet(CliPages!RowsOf(l))
  <2> DEFINE f == [n \in CliPages!Of(l) |-> CliPages!Row(n)]
  <2>1. f \in Surjection(CliPages!Of(l), CliPages!RowsOf(l))  BY DEF Surjection, CliPages!RowsOf
  <2> HIDE DEF f
  <2> QED  BY <1>3, <2>1, FS_Surjection
<1>5. \A n \in CliPages!Of(l) : n \in CliPages!N /\ runs[n].loop \in Loops /\ CliPages!Row(n).ts = runs[n].ts
  BY DEF CliPages!Of, CliPages!Row
<1>6. Stamped(CliPages!RowsOf(l))  BY <1>5 DEF RowsStamped, Stamped, CliPages!RowsOf
<1> QED  BY <1>4, <1>6

(* A row that is not among the k newest has k newer ones among them. *)
LEMMA LeftOut ==
  ASSUME NEW A, IsFiniteSet(A), Stamped(A), NEW k \in Nat, NEW x \in A, x \notin CliPages!Newest(A, k)
  PROVE  Cardinality(Newer(CliPages!Newest(A, k), x.ts)) >= k
<1> DEFINE B == Newer(A, x.ts)  C == CliPages!Newest(B, k)
<1>1. IsFiniteSet(B) /\ Cardinality(B) \in Nat  BY NewerCounts
<1>2. Cardinality(B) >= k
  <2>1. ~(Cardinality(Newer(A, x.ts)) < k)  BY NewestIs
  <2> QED  BY <1>1, <2>1
<1>3. Stamped(B)  BY DEF Newer, Stamped
<1>4. Cardinality(C) = k
  <2> HIDE DEF B
  <2> QED  BY <1>1, <1>2, <1>3, KNewest
<1>5. \A r \in B : Newer(B, r.ts) = Newer(A, r.ts)
  <2>1. x.ts \in Nat /\ \A r \in A : r.ts \in Nat  BY DEF Stamped
  <2>2. \A r, s \in A : r.ts > x.ts /\ s.ts > r.ts => s.ts > x.ts  BY <2>1
  <2> QED  BY <2>2 DEF Newer
<1>6. C \subseteq Newer(CliPages!Newest(A, k), x.ts)
  <2>1. \A r \in C : r \in B /\ Cardinality(Newer(B, r.ts)) < k  BY NewestIs
  <2>2. \A r \in C : r \in A /\ r.ts > x.ts /\ Cardinality(Newer(A, r.ts)) < k  BY <1>5, <2>1 DEF Newer
  <2>3. \A r \in C : r \in CliPages!Newest(A, k)  BY <2>2, NewestIs
  <2> HIDE DEF C
  <2> QED  BY <2>2, <2>3 DEF Newer
<1>7. IsFiniteSet(Newer(CliPages!Newest(A, k), x.ts))
  <2>1. Newer(CliPages!Newest(A, k), x.ts) \subseteq A  BY DEF Newer, CliPages!Newest
  <2> QED  BY <2>1, FS_Subset
<1>8. Cardinality(C) <= Cardinality(Newer(CliPages!Newest(A, k), x.ts)) /\ Cardinality(Newer(CliPages!Newest(A, k), x.ts)) \in Nat
  BY <1>6, <1>7, FS_Subset, FS_CardinalityType
<1> QED  BY <1>4, <1>8

(* More rows, more that are newer. *)
LEMMA NewerGrows ==
  ASSUME NEW A, NEW B, IsFiniteSet(B), A \subseteq B, NEW t, NEW k \in Nat, Cardinality(Newer(A, t)) >= k
  PROVE  Cardinality(Newer(B, t)) >= k
<1>1. Newer(A, t) \subseteq Newer(B, t)  BY DEF Newer
<1>2. IsFiniteSet(Newer(B, t)) /\ Cardinality(Newer(B, t)) \in Nat  BY NewerCounts
<1>3. IsFiniteSet(Newer(A, t)) /\ Cardinality(Newer(A, t)) <= Cardinality(Newer(B, t))  BY <1>1, <1>2, FS_Subset
<1>4. Cardinality(Newer(A, t)) \in Nat  BY <1>3, FS_CardinalityType
<1> QED  BY <1>2, <1>3, <1>4

LEMMA ReadRunsKeeps == ASSUME SurveyInv, CliPages!ReadRuns PROVE SurveyInv'
<1>1. req.step = "runs" /\ UNCHANGED <<there, runs, changes, printed, touched>>
  BY DEF CliPages!ReadRuns, CliPages!rows
<1>2. RowsStamped /\ RequestShaped /\ GatheredOnce /\ GatheredEnough  BY <1>1 DEF SurveyInv, Gathered
<1>3. PICK l \in req.todo : req' = [req EXCEPT !.todo = req.todo \ {l}, !.got = req.got \cup CliPages!Recent(l)]
  BY Zenon DEF CliPages!ReadRuns
<1>4. req.listed \subseteq Loops /\ req.todo \subseteq Loops /\ l \in Loops  BY <1>1, <1>2 DEF RequestShaped
<1> DEFINE R == CliPages!RowsOf(l)  W == CliPages!Newest(R, HomeRuns)  G == req.got \cup W  D == req.todo \ {l}
<1>5. req' = [req EXCEPT !.todo = D, !.got = G]  BY <1>3 DEF CliPages!Recent, CliPages!ListRuns
<1>6. DOMAIN req' = DOMAIN req /\ req'.step = "runs" /\ req'.listed = req.listed /\ req'.todo = D /\ req'.got = G
  <2> HIDE DEF G, D
  <2> QED  BY <1>1, <1>2, <1>5 DEF RequestShaped
<1>7. /\ IsFiniteSet(R) /\ Stamped(R) /\ W \subseteq R
      /\ \A x \in R : \E n \in CliPages!N : runs[n].loop = l /\ x = CliPages!Row(n) /\ x.ts = runs[n].ts
  <2>1. W \subseteq R  BY DEF CliPages!Newest
  <2>2. \A x \in R : \E n \in CliPages!N : runs[n].loop = l /\ x = CliPages!Row(n) /\ x.ts = runs[n].ts
    BY DEF CliPages!RowsOf, CliPages!Of, CliPages!Row
  <2> QED  BY <1>2, <1>4, <2>1, <2>2, RowsFinite
<1>8. IsFiniteSet(G)
  <2>1. IsFiniteSet(W)  BY <1>7, FS_Subset
  <2> QED  BY <1>2, <2>1, FS_Union DEF GatheredOnce
<1>9. \A n \in CliPages!N : runs[n].loop = l => CliPages!Row(n) \in R /\ CliPages!Row(n).ts = runs[n].ts
  BY DEF CliPages!RowsOf, CliPages!Of, CliPages!Row
<1> HIDE DEF R, D
<1>10. Stamped(G) /\ (\A x \in G : x.ts <= changes)
       /\ \A x \in G, n \in CliPages!N : runs[n].loop \in Loops /\ runs[n].ts = x.ts => CliPages!Row(n) = x
  <2>1. \A x \in W : x.ts \in Nat /\ x.ts <= changes  BY <1>2, <1>7 DEF RowsStamped
  <2>2. \A x \in W, n \in CliPages!N : runs[n].loop \in Loops /\ runs[n].ts = x.ts => CliPages!Row(n) = x
    BY <1>2, <1>4, <1>7 DEF RowsStamped
  <2>3. \A x \in G : x.ts \in Nat /\ x.ts <= changes  BY <1>2, <2>1 DEF GatheredOnce, Stamped
  <2>4. \A x \in G, n \in CliPages!N : runs[n].loop \in Loops /\ runs[n].ts = x.ts => CliPages!Row(n) = x
    BY <1>2, <2>2 DEF GatheredOnce
  <2>5. \A x, y \in G : x.ts = y.ts => x = y
    <3>1. \A x \in G, y \in W : x.ts = y.ts => x = y  BY <1>4, <1>7, <2>4
    <3>2. \A x, y \in req.got : x.ts = y.ts => x = y  BY <1>2 DEF GatheredOnce, Stamped
    <3> HIDE DEF W
    <3> QED  BY <3>1, <3>2
  <2> QED  BY <2>3, <2>4, <2>5 DEF Stamped
<1>11. ASSUME NEW n \in CliPages!N \ touched, runs[n].loop \in req.listed \ D
       PROVE  CliPages!Row(n) \in G \/ Cardinality(Newer(G, runs[n].ts)) >= HomeRuns
  <2>1. CASE runs[n].loop = l
    <3>1. CliPages!Row(n) \in R /\ CliPages!Row(n).ts = runs[n].ts  BY <1>9, <2>1
    <3>2. CASE CliPages!Row(n) \in W  BY <3>2
    <3>3. CASE CliPages!Row(n) \notin W
      <4>1. Cardinality(Newer(W, CliPages!Row(n).ts)) >= HomeRuns  BY <1>7, <3>1, <3>3, LeftOut, SurveyNames
      <4>2. Cardinality(Newer(W, runs[n].ts)) >= HomeRuns  BY <3>1, <4>1
      <4>3. W \subseteq G  OBVIOUS
      <4> HIDE DEF W, G
      <4> QED  BY <1>8, <4>2, <4>3, NewerGrows, SurveyNames
    <3> QED  BY <3>2, <3>3
  <2>2. CASE runs[n].loop # l
    <3>1. runs[n].loop \in req.listed \ req.todo  BY <1>11, <2>2 DEF D
    <3>2. CliPages!Row(n) \in req.got \/ Cardinality(Newer(req.got, runs[n].ts)) >= HomeRuns
      BY <1>2, <3>1 DEF GatheredEnough
    <3>3. req.got \subseteq G  OBVIOUS
    <3> HIDE DEF W, G
    <3> QED  BY <1>8, <3>2, <3>3, NewerGrows, SurveyNames
  <2> QED  BY <2>1, <2>2
<1>12. Gathered'
  <2>1. CliPages!N' = CliPages!N /\ \A n : CliPages!Row(n)' = CliPages!Row(n)  BY <1>1 DEF CliPages!N, CliPages!Row
  <2> HIDE DEF G
  <2>2. GatheredOnce'  BY <1>1, <1>6, <1>8, <1>10, <2>1 DEF GatheredOnce
  <2>3. GatheredEnough'  BY <1>1, <1>6, <1>11, <2>1 DEF GatheredEnough
  <2> QED  BY <2>2, <2>3 DEF Gathered
<1>13. RequestShaped'
  <2>1. D \subseteq Loops  BY <1>4 DEF D
  <2>2. printed = CliPages!Nothing
    <3>1. req # CliPages!NoReq  BY <1>1 DEF CliPages!NoReq
    <3> QED  BY <1>2, <3>1 DEF RequestShaped
  <2> HIDE DEF G
  <2> QED  BY <1>1, <1>2, <1>4, <1>6, <2>1, <2>2 DEF RequestShaped
<1>14. RowsStamped'  BY <1>1, <1>2 DEF RowsStamped, CliPages!N
<1>15. NothingNewerMissing'
  <2>1. req # CliPages!NoReq  BY <1>1 DEF CliPages!NoReq
  <2>2. printed' = CliPages!Nothing  BY <1>1, <1>2, <2>1 DEF RequestShaped
  <2>3. printed'.verb # "home"  BY <2>2 DEF CliPages!Nothing
  <2> QED  BY <2>3 DEF NothingNewerMissing, CliPages!NothingNewerMissing
<1> QED  BY <1>12, <1>13, <1>14, <1>15 DEF SurveyInv

LEMMA ShowHomeKeeps == ASSUME SurveyInv, CliPages!ShowHome PROVE SurveyInv'
<1>1. /\ req.step = "runs" /\ req.todo = {} /\ UNCHANGED <<there, runs, changes, touched>>
      /\ printed' = CliPages!HomePage /\ req' = CliPages!NoReq
  BY DEF CliPages!ShowHome, CliPages!Reply, CliPages!rows
<1>2. RowsStamped /\ GatheredOnce /\ GatheredEnough  BY <1>1 DEF SurveyInv, Gathered
<1> DEFINE G == req.got  P == CliPages!Newest(G, HomeRuns)
<1>3. printed'.listed = req.listed /\ printed'.got = P
  <2> DEFINE h == CliPages!ScopeLoops(req.listed, req.at)  e == CliPages!Cardinality(req.listed \ h)
  <2> HIDE DEF h, e, P
  <2>1. printed' = [CliPages!Nothing EXCEPT !.verb = "home", !.here = h, !.listed = req.listed, !.last = req.last,
                                            !.elsewhere = e, !.got = P]
    BY <1>1 DEF CliPages!HomePage, h, e, P
  <2> QED  BY <2>1 DEF CliPages!Nothing
<1>4. IsFiniteSet(G) /\ Stamped(G) /\ P \subseteq G  BY <1>2 DEF GatheredOnce, CliPages!Newest
<1>5. ASSUME NEW n \in CliPages!N \ touched, runs[n].loop \in req.listed, CliPages!Row(n) \notin P
      PROVE  CliPages!Cardinality(P) = HomeRuns /\ \A r \in P : r.ts > runs[n].ts
  <2> DEFINE t == runs[n].ts
  <2>1. CliPages!Row(n).ts = t  BY DEF CliPages!Row
  <2>2. Cardinality(Newer(G, t)) \in Nat /\ Cardinality(Newer(G, t)) >= HomeRuns
    <3>1. Cardinality(Newer(G, t)) \in Nat  BY <1>4, NewerCounts
    <3>2. CASE CliPages!Row(n) \in G
      <4>1. ~(Cardinality(Newer(G, CliPages!Row(n).ts)) < HomeRuns)  BY <1>5, <3>2, NewestIs
      <4> QED  BY <2>1, <3>1, <4>1, SurveyNames
    <3>3. CASE CliPages!Row(n) \notin G  BY <1>1, <1>2, <1>5, <3>1, <3>3 DEF GatheredEnough
    <3> QED  BY <3>2, <3>3
  <2>3. Cardinality(P) = HomeRuns
    <3>1. Newer(G, t) \subseteq G  BY DEF Newer
    <3>2. Cardinality(Newer(G, t)) <= Cardinality(G) /\ Cardinality(G) \in Nat
      BY <1>4, <3>1, FS_Subset, FS_CardinalityType
    <3>3. HomeRuns <= Cardinality(G)  BY <2>2, <3>2, SurveyNames
    <3> QED  BY <1>4, <3>3, KNewest, SurveyNames
  <2>4. CliPages!Cardinality(P) = Cardinality(P)  BY DEF CliPages!Cardinality, Cardinality
  <2>5. ASSUME NEW r \in P PROVE r.ts > t
    <3>1. r \in G /\ Cardinality(Newer(G, r.ts)) < HomeRuns  BY NewestIs
    <3>2. r.ts \in Nat /\ t \in Nat  BY <1>2, <1>4, <3>1 DEF Stamped, RowsStamped
    <3>3. CASE r.ts <= t
      <4>1. \A x \in G : x.ts \in Nat  BY <1>4 DEF Stamped
      <4>2. Newer(G, t) \subseteq Newer(G, r.ts)  BY <3>2, <3>3, <4>1 DEF Newer
      <4>3. IsFiniteSet(Newer(G, r.ts)) /\ Cardinality(Newer(G, r.ts)) \in Nat  BY <1>4, NewerCounts
      <4>4. Cardinality(Newer(G, t)) <= Cardinality(Newer(G, r.ts))  BY <4>2, <4>3, FS_Subset
      <4> QED  BY <2>2, <3>1, <4>3, <4>4, SurveyNames
    <3> QED  BY <3>2, <3>3
  <2> QED  BY <2>3, <2>4, <2>5
<1> HIDE DEF P, G
<1>6. NothingNewerMissing'
  <2>1. CliPages!N' = CliPages!N /\ \A n : CliPages!Row(n)' = CliPages!Row(n)  BY <1>1 DEF CliPages!N, CliPages!Row
  <2> QED  BY <1>1, <1>3, <1>5, <2>1 DEF NothingNewerMissing, CliPages!NothingNewerMissing
<1>7. RowsStamped'  BY <1>1, <1>2 DEF RowsStamped, CliPages!N
<1>8. RequestShaped' /\ Gathered'  BY <1>1 DEF RequestShaped, Gathered, CliPages!NoReq
<1> QED  BY <1>6, <1>7, <1>8 DEF SurveyInv

(* A step of the request that neither reads runs nor prints the home page. *)
LEMMA OtherSteps ==
  ASSUME SurveyInv, UNCHANGED <<runs, changes>>, RequestShaped',
         req'.step = "runs" => req'.todo = req'.listed /\ req'.got = {},
         printed'.verb = "home" => FALSE
  PROVE  SurveyInv'
<1>1. RowsStamped'  BY DEF SurveyInv, RowsStamped, CliPages!N
<1>2. Gathered'
  <2> SUFFICES ASSUME req'.step = "runs" PROVE GatheredOnce' /\ GatheredEnough'  BY DEF Gathered
  <2>1. GatheredOnce'  BY FS_EmptySet DEF GatheredOnce, Stamped
  <2>2. GatheredEnough'  BY DEF GatheredEnough
  <2> QED  BY <2>1, <2>2
<1>3. NothingNewerMissing'  BY DEF NothingNewerMissing, CliPages!NothingNewerMissing
<1> QED  BY <1>1, <1>2, <1>3 DEF SurveyInv

LEMMA Unprinted == ASSUME RequestShaped, req.step # "idle" PROVE printed = CliPages!Nothing /\ printed.verb # "home"
<1>1. req # CliPages!NoReq  BY DEF CliPages!NoReq
<1> QED  BY <1>1 DEF RequestShaped, CliPages!Nothing

(* An answer leaves no request behind. *)
LEMMA Replied == ASSUME SurveyInv, NEW s, CliPages!Reply(s), s.verb # "home", UNCHANGED CliPages!rows PROVE SurveyInv'
<1>1. req' = CliPages!NoReq /\ printed' = s  BY DEF CliPages!Reply
<1>2. RequestShaped' /\ req'.step # "runs"  BY <1>1 DEF RequestShaped, CliPages!NoReq
<1> QED  BY <1>1, <1>2, OtherSteps DEF CliPages!rows

LEMMA BeginKeeps == ASSUME SurveyInv, NEW v, NEW d, CliPages!Begin(v, d) PROVE SurveyInv'
<1>1. req' = [CliPages!NoReq EXCEPT !.verb = v, !.at = d, !.step = "list"] /\ printed = CliPages!Nothing
      /\ UNCHANGED <<there, runs, changes, printed>>
  BY DEF CliPages!Begin, CliPages!rows
<1>2. DOMAIN req' = {"verb", "at", "step", "todo", "listed", "of", "got", "last"} /\ req'.step = "list" /\ req'.got = {}
  BY <1>1 DEF CliPages!NoReq
<1>3. RequestShaped'  BY <1>1, <1>2 DEF RequestShaped
<1>4. printed'.verb # "home"  BY <1>1 DEF CliPages!Nothing
<1> QED  BY <1>1, <1>2, <1>3, <1>4, OtherSteps

LEMMA ReadLoopsKeeps == ASSUME SurveyInv, CliPages!ReadLoops PROVE SurveyInv'
<1> DEFINE T == CliPages!There
           D == IF req.verb = "home" THEN CliPages!ScopeLoops(T, req.at) ELSE T
<1>1. /\ req.step = "list" /\ UNCHANGED <<there, runs, changes, printed, touched>>
      /\ req' = [req EXCEPT !.step = "last", !.listed = T, !.todo = D]
  BY Zenon DEF CliPages!ReadLoops, CliPages!rows
<1>2. RequestShaped  BY DEF SurveyInv
<1>3. T \subseteq Loops  BY DEF CliPages!There
<1> HIDE DEF T, D
<1>4. DOMAIN req' = DOMAIN req /\ req'.step = "last" /\ req'.listed = T /\ req'.got = req.got  BY <1>1, <1>2 DEF RequestShaped
<1>5. printed = CliPages!Nothing /\ printed.verb # "home"  BY <1>1, <1>2, Unprinted
<1>6. RequestShaped'  BY <1>1, <1>2, <1>3, <1>4, <1>5 DEF RequestShaped
<1> QED  BY <1>1, <1>4, <1>5, <1>6, OtherSteps

LEMMA ReadLastKeeps == ASSUME SurveyInv, CliPages!ReadLast PROVE SurveyInv'
<1>1. req.step = "last" /\ UNCHANGED <<there, runs, changes, printed, touched>>
  BY DEF CliPages!ReadLast, CliPages!rows
<1>2. PICK l \in req.todo : req' = [req EXCEPT !.todo = req.todo \ {l}, !.last = req.last \cup CliPages!LastExecRun(l)]
  BY Zenon DEF CliPages!ReadLast
<1>3. RequestShaped  BY DEF SurveyInv
<1>4. DOMAIN req' = DOMAIN req /\ req'.step = "last" /\ req'.listed = req.listed /\ req'.got = req.got
  <2> DEFINE D == req.todo \ {l}  L == req.last \cup CliPages!LastExecRun(l)
  <2>1. req' = [req EXCEPT !.todo = D, !.last = L]  BY <1>2
  <2> HIDE DEF D, L
  <2> QED  BY <1>1, <1>3, <2>1 DEF RequestShaped
<1>5. printed = CliPages!Nothing /\ printed.verb # "home"  BY <1>1, <1>3, Unprinted
<1>6. RequestShaped'  BY <1>1, <1>3, <1>4, <1>5 DEF RequestShaped
<1> QED  BY <1>1, <1>4, <1>5, <1>6, OtherSteps

LEMMA ReadLastDoneKeeps == ASSUME SurveyInv, CliPages!ReadLastDone PROVE SurveyInv'
<1>1. req.step = "last" /\ UNCHANGED CliPages!rows  BY DEF CliPages!ReadLastDone
<1>2. RequestShaped  BY DEF SurveyInv
<1>3. CASE req.verb = "home"
  <2>1. req' = [req EXCEPT !.step = "runs", !.todo = req.listed] /\ UNCHANGED printed
    BY <1>3 DEF CliPages!ReadLastDone
  <2>2. DOMAIN req' = DOMAIN req /\ req'.listed = req.listed /\ req'.todo = req.listed /\ req'.got = req.got /\ req'.step = "runs"
    BY <1>2, <2>1 DEF RequestShaped
  <2>3. req.got = {} /\ req.listed \subseteq Loops  BY <1>1, <1>2 DEF RequestShaped
  <2>4. printed = CliPages!Nothing /\ printed.verb # "home"  BY <1>1, <1>2, Unprinted
  <2>5. RequestShaped'  BY <1>2, <2>1, <2>2, <2>3, <2>4 DEF RequestShaped
  <2> QED  BY <1>1, <2>1, <2>2, <2>3, <2>4, <2>5, OtherSteps DEF CliPages!rows
<1>4. CASE req.verb # "home"
  <2>1. CliPages!Reply(CliPages!LoopsPage)  BY <1>4 DEF CliPages!ReadLastDone
  <2>2. CliPages!LoopsPage.verb # "home"  BY DEF CliPages!LoopsPage, CliPages!Nothing
  <2> QED  BY <1>1, <2>1, <2>2, Replied
<1> QED  BY <1>3, <1>4

LEMMA PickLoopKeeps == ASSUME SurveyInv, CliPages!PickLoop PROVE SurveyInv'
<1>1. req.step = "list" /\ UNCHANGED CliPages!rows  BY Zenon DEF CliPages!PickLoop
<1>2. RequestShaped  BY DEF SurveyInv
<1>3. CASE CliPages!Resolved(CliPages!There, req.at) = {}
  <2>1. CliPages!Reply([CliPages!Nothing EXCEPT !.verb = "usage"])  BY <1>3 DEF CliPages!PickLoop
  <2>2. [CliPages!Nothing EXCEPT !.verb = "usage"].verb # "home"  BY DEF CliPages!Nothing
  <2> QED  BY <1>1, <2>1, <2>2, Replied
<1>4. CASE CliPages!Resolved(CliPages!There, req.at) # {}
  <2> DEFINE T == CliPages!There
  <2>1. PICK l : req' = [req EXCEPT !.step = "rows", !.of = l, !.listed = T] /\ UNCHANGED printed
    BY <1>4, Zenon DEF CliPages!PickLoop
  <2> HIDE DEF T
  <2>2. DOMAIN req' = DOMAIN req /\ req'.step = "rows"  BY <1>2, <2>1 DEF RequestShaped
  <2>3. printed = CliPages!Nothing /\ printed.verb # "home"  BY <1>1, <1>2, Unprinted
  <2>4. RequestShaped'  BY <1>2, <2>1, <2>2, <2>3 DEF RequestShaped
  <2> QED  BY <1>1, <2>1, <2>2, <2>3, <2>4, OtherSteps DEF CliPages!rows
<1> QED  BY <1>3, <1>4

LEMMA ReadLogKeeps == ASSUME SurveyInv, CliPages!ReadLog PROVE SurveyInv'
<1>1. req.step = "rows" /\ UNCHANGED CliPages!rows  BY DEF CliPages!ReadLog
<1>2. RequestShaped  BY DEF SurveyInv
<1>3. CASE req.of \notin CliPages!There
  <2>1. CliPages!Reply([CliPages!Nothing EXCEPT !.verb = "notFound"])  BY <1>3 DEF CliPages!ReadLog
  <2>2. [CliPages!Nothing EXCEPT !.verb = "notFound"].verb # "home"  BY DEF CliPages!Nothing
  <2> QED  BY <1>1, <2>1, <2>2, Replied
<1>4. CASE req.of \in CliPages!There
  <2> DEFINE W == CliPages!ListRuns(req.of, LogRuns)
  <2>1. req' = [req EXCEPT !.step = "count", !.got = W] /\ UNCHANGED printed  BY <1>4 DEF CliPages!ReadLog
  <2> HIDE DEF W
  <2>2. DOMAIN req' = DOMAIN req /\ req'.step = "count"  BY <1>2, <2>1 DEF RequestShaped
  <2>3. printed = CliPages!Nothing /\ printed.verb # "home"  BY <1>1, <1>2, Unprinted
  <2>4. RequestShaped'  BY <1>2, <2>1, <2>2, <2>3 DEF RequestShaped
  <2> QED  BY <1>1, <2>1, <2>2, <2>3, <2>4, OtherSteps DEF CliPages!rows
<1> QED  BY <1>3, <1>4

LEMMA ShowLogKeeps == ASSUME SurveyInv, CliPages!ShowLog PROVE SurveyInv'
<1> DEFINE k == CliPages!Cardinality(CliPages!Of(req.of))
           s == IF req.verb = "log" THEN CliPages!LogPage(k) ELSE CliPages!ShowPage(k)
<1>1. CliPages!Reply(s) /\ UNCHANGED CliPages!rows  BY DEF CliPages!ShowLog
<1> HIDE DEF k
<1>2. CliPages!LogPage(k).verb # "home"
  <2> DEFINE g == CliPages!Newest({r \in req.got : r.role = "exec"}, 1)
  <2> HIDE DEF g
  <2>1. CliPages!LogPage(k) = [CliPages!Nothing EXCEPT !.verb = "log", !.here = {req.of}, !.listed = req.listed,
                                                     !.total = k, !.got = req.got, !.last = g]
    BY DEF CliPages!LogPage, g
  <2> QED  BY <2>1 DEF CliPages!Nothing
<1>3. CliPages!ShowPage(k).verb # "home"
  <2> DEFINE g == CliPages!Newest({r \in req.got : r.role = "exec"}, 1)
  <2> HIDE DEF g
  <2>1. CliPages!LogPage(k) = [CliPages!Nothing EXCEPT !.verb = "log", !.here = {req.of}, !.listed = req.listed,
                                                     !.total = k, !.got = req.got, !.last = g]
    BY DEF CliPages!LogPage, g
  <2>2. DOMAIN CliPages!LogPage(k) = DOMAIN CliPages!Nothing  BY <2>1 DEF CliPages!Nothing
  <2>3. "verb" \in DOMAIN CliPages!LogPage(k)  BY <2>2 DEF CliPages!Nothing
  <2> QED  BY <2>3 DEF CliPages!ShowPage
<1>4. s.verb # "home"  BY <1>2, <1>3
<1> HIDE DEF s
<1> QED  BY <1>1, <1>4, Replied

LEMMA ChangesKeep ==
  ASSUME SurveyInv, \/ \E l \in Loops : CliPages!NewRun(l)
                    \/ \E n \in CliPages!N : CliPages!Claim(n) \/ CliPages!Report(n)
  PROVE  SurveyInv'
<1>1. ASSUME NEW l \in Loops, CliPages!NewRun(l) PROVE SurveyInv'
  <2>1. PICK n \in CliPages!N, role \in CliPages!Roles :
          CliPages!Change(n, [loop |-> l, role |-> role, phase |-> "pending", ts |-> 0])
    BY <1>1 DEF CliPages!NewRun
  <2> DEFINE r == [loop |-> l, role |-> role, phase |-> "pending", ts |-> 0]
  <2>2. DOMAIN r = {"loop", "role", "phase", "ts"} /\ CliPages!Change(n, r)  BY <2>1
  <2> HIDE DEF r
  <2> QED  BY <2>2, ChangeKeeps
<1>2. ASSUME NEW n \in CliPages!N, CliPages!Claim(n) \/ CliPages!Report(n) PROVE SurveyInv'
  <2>1. PICK p : CliPages!Change(n, [runs[n] EXCEPT !.phase = p])  BY <1>2 DEF CliPages!Claim, CliPages!Report
  <2> DEFINE r == [runs[n] EXCEPT !.phase = p]
  <2>2. DOMAIN r = {"loop", "role", "phase", "ts"} /\ CliPages!Change(n, r)
    BY <2>1 DEF SurveyInv, RowsStamped
  <2> HIDE DEF r
  <2> QED  BY <2>2, ChangeKeeps
<1> QED  BY <1>1, <1>2

LEMMA SurveyStill == ASSUME SurveyInv, UNCHANGED CliPages!vars PROVE SurveyInv'
<1> USE DEF CliPages!vars, CliPages!rows
<1>1. RowsStamped' /\ RequestShaped'  BY DEF SurveyInv, RowsStamped, RequestShaped, CliPages!N
<1>2. CliPages!N' = CliPages!N /\ \A n : CliPages!Row(n)' = CliPages!Row(n)  BY DEF CliPages!N, CliPages!Row
<1>3. Gathered'  BY <1>2 DEF SurveyInv, Gathered, GatheredOnce, GatheredEnough
<1>4. NothingNewerMissing'  BY <1>2 DEF SurveyInv, NothingNewerMissing, CliPages!NothingNewerMissing
<1> QED  BY <1>1, <1>3, <1>4 DEF SurveyInv

(* cli.ts: for any loops, runs and pages, the home page leaves out no run  *)
(* for an older one, although the loops are read one after the other while *)
(* runs come, change and go.                                               *)
THEOREM NothingNewerMissingHolds == CliPages!Spec => []NothingNewerMissing
<1>1. ASSUME SurveyInv, [CliPages!Next]_(CliPages!vars) PROVE SurveyInv'
  <2>1. CASE UNCHANGED CliPages!vars  BY <1>1, <2>1, SurveyStill
  <2>2. ASSUME NEW l \in Loops, CliPages!DeleteLoop(l) PROVE SurveyInv'  BY <1>1, <2>2, DeleteKeeps
  <2>3. ASSUME NEW v, NEW d, CliPages!Begin(v, d) PROVE SurveyInv'  BY <1>1, <2>3, BeginKeeps
  <2> QED
    BY <1>1, <2>1, <2>2, <2>3, ChangesKeep, ReadLoopsKeeps, ReadLastKeeps, ReadLastDoneKeeps, ReadRunsKeeps,
       ShowHomeKeeps, PickLoopKeeps, ReadLogKeeps, ShowLogKeeps, Zenon DEF CliPages!Next
<1>2. SurveyInv => NothingNewerMissing  BY DEF SurveyInv
<1> QED  BY <1>1, <1>2, SurveyStart, PTL DEF CliPages!Spec

=============================================================================
