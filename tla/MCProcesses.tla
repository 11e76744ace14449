----------------------------- MODULE MCProcesses -----------------------------
(***************************************************************************)
(* Parts that share no state, checked side by side: the initial state      *)
(* picks one of them, and only that one moves.  They are processes on      *)
(* either side, and the pages put together from many reads of what the     *)
(* processes change.                                                       *)
(***************************************************************************)
EXTENDS RateLimit, DbWatchdog, DaemonProcess, AgentProcess

CONSTANTS
  Loops,
  Hosts, hostA, hostB, OwnedBy, Created, Fires, Slack, RunCap, MaxProjected, Day, Back, Ahead, Asks,
  Start, LastTime, MaxFires, MaxEdits, All,  \* Timeline
  Places, Dirs, ScratchDir, NoPath, HomeRuns, LogRuns, MaxRuns, MaxChanges  \* Survey

VARIABLES
  part,
  clock, lane, ticked, edits, fired, zoom, shownAt, device, showIdle, data, error, ask, slipped,
  there, runs, changes, req, printed, touched

timeline == <<clock, lane, ticked, edits, fired, zoom, shownAt, device, showIdle, data, error, ask, slipped>>
survey == <<there, runs, changes, req, printed, touched>>

Lanes == INSTANCE Timeline WITH
  Machines <- Hosts, Calls <- Asks, MaxRuns <- MaxFires, MaxTime <- LastTime,
  loop <- lane, runs <- fired, call <- ask, now <- shownAt
CliPages == INSTANCE Survey WITH loop <- there, shown <- printed

ASSUME LimitsBounds == RateBounds
ASSUME PidBounds == DaemonBounds

ASSUME TimelineConstants == Lanes!TimelineConstantsOK
ASSUME SurveyConstants == CliPages!SurveyConstantsOK

MCCapacity == [ip |-> 5, token |-> 2]
MCRefill == [ip |-> 1, token |-> 1]
MCOwnedBy == [l \in {"a", "b"} |-> IF l = "a" THEN hostA ELSE hostB]

(***************************************************************************)
(* The survey's paths have a few parts below one root.  The second loop is *)
(* at the root; the first one there as well, below both directories, with  *)
(* a task file apart from its workdir or relative to it, or relative to    *)
(* nothing, which leaves the scratch folder.                               *)
(***************************************************************************)
Root == <<"r">>
MCScratchDir == <<"s">>
MCDirs == {Root \o <<"x">>, <<"s", "a">>}
Place(t, w) == [task |-> t, rel |-> t = <<"f">>, workdir |-> w]
AtRoot == Place(NoPath, Root)
MCPlaces ==
  {[l \in {"a", "b"} |-> IF l = "a" THEN p ELSE AtRoot] :
     p \in {AtRoot, Place(NoPath, Root \o <<"x", "y">>), Place(Root \o <<"x", "f">>, Root \o <<"x", "y">>),
            Place(<<"f">>, Root \o <<"x">>), Place(<<"f">>, NoPath)}}

Parts == {"watchdog", "daemon", "agent", "limits", "timeline", "survey"}

(* A part that does not move has one initial state. *)
ProcessesInit ==
  /\ part \in Parts
  /\ WatchdogInit
  /\ Init
  /\ DaemonInit
  /\ AgentInit /\ (part # "agent" => deaf = {} /\ timer = "off")
  /\ Lanes!Init
  /\ CliPages!Init /\ (part # "survey" => \A l \in Loops : there[l].place = AtRoot)

WatchdogMoves == part = "watchdog" /\ WatchdogNext /\ UNCHANGED <<part, daemonVars, agentVars, vars, timeline, survey>>
DaemonMoves == part = "daemon" /\ DaemonNext /\ UNCHANGED <<part, watchdogVars, agentVars, vars, timeline, survey>>
AgentMoves == part = "agent" /\ AgentNext /\ UNCHANGED <<part, watchdogVars, daemonVars, vars, timeline, survey>>
LimitsMove == part = "limits" /\ Next /\ UNCHANGED <<part, watchdogVars, daemonVars, agentVars, timeline, survey>>
TimelineMoves == part = "timeline" /\ Lanes!Next /\ UNCHANGED <<part, watchdogVars, daemonVars, agentVars, vars, survey>>
SurveyMoves == part = "survey" /\ CliPages!Next /\ UNCHANGED <<part, watchdogVars, daemonVars, agentVars, vars, timeline>>

ProcessesNext == WatchdogMoves \/ DaemonMoves \/ AgentMoves \/ LimitsMove \/ TimelineMoves \/ SurveyMoves

ProcessesSpec == ProcessesInit /\ [][ProcessesNext]_<<part, watchdogVars, daemonVars, agentVars, vars, timeline, survey>>

(***************************************************************************)
(* The properties of the last two parts, by their own names; those of the  *)
(* others come with their modules.                                         *)
(***************************************************************************)
(* Timeline: no fire is drawn both as a run and as still to come. *)
FireShownOnce == Lanes!FireShownOnce
(* Survey: the home page leaves out no run for an older one. *)
NothingNewerMissing == CliPages!NothingNewerMissing
(* Survey: server and daemon take a directory for the same loops. *)
SameFolder == CliPages!SameFolder
=============================================================================
