------------------------------ MODULE MCCommands ------------------------------
(***************************************************************************)
(* What the `loopany` command brings about, and what a run reports: four   *)
(* parts that share no state, checked side by side: the initial state      *)
(* picks one of them, and only that one moves.                             *)
(***************************************************************************)
EXTENDS CliVerbs, CliTransport, Sequences, TLC

CONSTANTS
  k1, k2,
  Agents, Others,                                                   \* LocalSetup
  ReportRuns, TransientRetries, AutopauseStreak, NotifyEvery,
  MaxItems, MaxStamp, MaxToggles, MaxUpsets                         \* RunReport

VARIABLES
  part,
  bin, conf, cli, had, removed, asked,
  feed, state, enabled, runRows, reportLease, job, handler, alerting, alerted, reportLate, unheard, dropped,
  stamp, toggles, upsets

setup == <<bin, conf, cli, had, removed, asked>>
report == <<feed, state, enabled, runRows, reportLease, job, handler, alerting, alerted, reportLate, unheard, dropped,
            stamp, toggles, upsets>>

Setup == INSTANCE LocalSetup WITH Setups <- Reqs
Reports == INSTANCE RunReport WITH Runs <- ReportRuns, Handlers <- Reqs,
    row <- runRows, lease <- reportLease, late <- reportLate

ASSUME SetupConstants == Setup!SetupConstantsOK
ASSUME ReportConstants == Reports!ReportConstantsOK

MCAgents == <<"claude">>

Cmd(v, ks, x) == [verb |-> v, keys |-> ks, val |-> x]
MCVerbs == {Cmd("report", {k1}, ""), Cmd("finish", {}, ""), Cmd("resume", {}, ""),
            Cmd("pause", {}, ""), Cmd("reschedule", {}, "soon"), Cmd("label", {}, "bad"),
            Cmd("set-cron", {}, "often"), Cmd("label", {}, "q"), Cmd("set-ui", {k2}, ""),
            Cmd("set-schema", {k1}, ""), Cmd("set-workflow", {}, "js")}
MCPatches == {[goal |-> FALSE], [on |-> TRUE], [goal |-> FALSE, on |-> TRUE],
              [goal |-> TRUE, control |-> FALSE], [schema |-> {}], [schema |-> {k1}],
              [ui |-> {k1, k2}]}

(* The slots for requests, which all parts but one use. *)
Interchangeable == Permutations(Reqs)

(* A part that does not move has one initial state. *)
CommandsInit ==
  /\ part \in {"verbs", "transport", "setup", "report"}
  /\ Init /\ (part # "verbs" => ~loop.goal /\ loop.schema = {})
  /\ CallInit /\ (part # "transport" => server = "text" /\ held = "live" /\ known /\ stored)
  /\ Setup!Init /\ (part # "setup" => \A p \in Setup!Places : bin[p] = "none")
  /\ Reports!Init

VerbsMove == part = "verbs" /\ Next /\ UNCHANGED <<part, callVars, setup, report>>
TransportMoves == part = "transport" /\ CallNext /\ UNCHANGED <<part, vars, setup, report>>
SetupMoves == part = "setup" /\ Setup!Next /\ UNCHANGED <<part, vars, callVars, report>>
ReportMoves == part = "report" /\ Reports!Next /\ UNCHANGED <<part, vars, callVars, setup>>

CommandsNext == VerbsMove \/ TransportMoves \/ SetupMoves \/ ReportMoves

CommandsSpec == CommandsInit /\ [][CommandsNext]_<<part, vars, callVars, setup, report>>

(***************************************************************************)
(* The properties of the parts, by their own names; those of CliVerbs and  *)
(* CliTransport come with them.                                            *)
(***************************************************************************)
(* LocalSetup: a hook names a `loopany` that is there. *)
HookCanRun == Setup!HookCanRun
(* RunReport: the cursor passes no item whose output was not recorded, but in the ways it names. *)
NothingSkipped == Reports!NothingSkipped
(* RunReport: no outage stays silent. *)
OutageSurfaced == Reports!OutageSurfaced
===============================================================================
