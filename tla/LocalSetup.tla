------------------------------ MODULE LocalSetup ------------------------------
(***************************************************************************)
(* What the CLI leaves on a machine that is not its own: a `loopany` in a  *)
(* bin directory, and a hook in the settings files of the coding agents    *)
(* (packages/daemon/src).                                                  *)
(*                                                                         *)
(*   ensure.ts         `up`: the three refreshes, in this order            *)
(*   skill-install.ts  the skill, by `npx skills`                          *)
(*   bin-shim.ts       the shim, and which `loopany` lasts                 *)
(*   setup.ts          `setup hooks [--remove]`, the refresh of the hooks  *)
(*                                                                         *)
(* Settings files belong to the agents and are shared with other tools.    *)
(* A file is read, changed and written over; writeFileSync empties it and  *)
(* then fills it, so another reader may find it torn.  A file that         *)
(* JSON.parse refuses, torn or in a syntax of its own (comments), is read  *)
(* as no settings at all.                                                  *)
(***************************************************************************)
EXTENDS Naturals, Sequences

CONSTANTS
  Setups,   \* CLI processes, each of which runs once
  Agents,   \* the agents that get a hook, in order (HOOK_TARGET_AGENTS)
  Others    \* what other tools may keep in a settings file: keys, and hooks of theirs

(* There is an agent that gets a hook. *)
SetupConstantsOK == DOMAIN Agents = 1..Len(Agents) /\ Len(Agents) \in Nat \ {0}

VARIABLES
  bin,      \* bin[p]: the `loopany` at a place
  conf,     \* conf[a]: the settings file of an agent
  cli,     \* the CLI processes
  had,      \* history: what others have put in a file
  removed,  \* history: places the user removed a `loopany` from
  asked     \* history: `setup hooks` was asked for without a command that lasts

fs == <<bin, conf>>
history == <<had, removed, asked>>
vars == <<bin, conf, cli, history>>

AgentIds == {Agents[i] : i \in DOMAIN Agents}

(* Where a `loopany` may be: the bin of npm's global prefix, ~/.local/bin, *)
(* another directory of PATH, and the cache that npx puts on PATH.         *)
Places == {"global", "local", "path", "npx"}

(* isEphemeralEntry *)
Ephemeral(p) == p = "npx"

File == [is: {"absent", "whole", "odd", "torn"}, theirs: SUBSET Others, mixed: SUBSET Others,
         ours: SUBSET (Places \cup {"bare"})]
NoFile == [is |-> "absent", theirs |-> {}, mixed |-> {}, ours |-> {}]
Torn == [NoFile EXCEPT !.is = "torn"]

NoProc == [pc |-> "unborn", verb |-> "", via |-> "", i |-> 1, cmd |-> "bare", copy |-> NoFile]

TypeOK ==
  /\ bin \in [Places -> {"none", "shim", "foreign"}]
  /\ conf \in [AgentIds -> File]
  /\ \A c \in Setups :
       /\ cli[c].pc \in {"unborn", "skill", "look", "shim", "resolve", "read", "empty", "fill", "over"}
       /\ cli[c].copy \in File
  /\ had \in [AgentIds -> SUBSET Others]
  /\ removed \subseteq Places /\ asked \in BOOLEAN

Init ==
  /\ bin \in {[p \in Places |-> IF p \in f THEN "foreign" ELSE "none"] : f \in {{}, {"local"}}}
  /\ conf = [a \in AgentIds |-> NoFile]
  /\ cli = [c \in Setups |-> NoProc]
  /\ had = [a \in AgentIds |-> {}]
  /\ removed = {} /\ asked = FALSE

At(c, pc) == cli[c].pc = pc
Agent(c) == Agents[cli[c].i]
Over(c) == [cli EXCEPT ![c] = [NoProc EXCEPT !.pc = "over"]]
GoTo(c, pc) == cli' = [cli EXCEPT ![c].pc = pc]

(***************************************************************************)
(* The command: `up`, `skill` (and `new`, which installs the skill at its  *)
(* end), `setup hooks`, `setup hooks --remove`; by npx, by a script of npm,*)
(* or from an installed binary.                                            *)
(***************************************************************************)
(* resolveDurableBinPath.  npm_config_prefix is set under npx and npm only; *)
(* npx has its cache on PATH while it runs.                                 *)
Candidates(via) == IF via = "installed" THEN <<"local">> ELSE <<"global", "local">>

OnPath(via) == IF via = "npx" THEN <<"npx", "global", "path">> ELSE <<"global", "path">>

Seen(via) == Candidates(via) \o OnPath(via)

(* Mutant: the cache of npx is taken for a place that lasts. *)
LastsAny(p) == bin[p] # "none"

Lasts(p) == bin[p] # "none" /\ ~Ephemeral(p)

Begin(c, verb, via) ==
  /\ At(c, "unborn")
  /\ cli' = [cli EXCEPT ![c].pc = IF verb \in {"up", "skill"} THEN "skill" ELSE "resolve",
                          ![c].verb = verb, ![c].via = via]
  /\ bin' = IF via = "npx" THEN [bin EXCEPT !["npx"] = "foreign"] ELSE bin
  /\ UNCHANGED <<conf, history>>

(* installSkill: `npx skills` ends, fails, or is killed after 90 seconds; the command goes on *)
(* all the same, and nothing here reads what was installed.                                   *)
SkillStep(c) ==
  /\ At(c, "skill")
  /\ IF cli[c].verb = "up" THEN GoTo(c, "look") ELSE cli' = Over(c)
  /\ UNCHANGED <<fs, history>>

(***************************************************************************)
(* ensureBinShim                                                           *)
(***************************************************************************)
Taken(p) == bin[p] = "foreign"

ShimDone(c) == [cli EXCEPT ![c].pc = "resolve", ![c].i = 1]

(* A candidate is read: ours or nothing is written over, another's is passed by. *)
ShimLook(c) ==
  LET dirs == Candidates(cli[c].via)
      i == cli[c].i
  IN /\ At(c, "look")
     /\ cli' = IF cli[c].via = "npx" \/ i > Len(dirs) THEN ShimDone(c)
                ELSE IF Taken(dirs[i]) THEN [cli EXCEPT ![c].i = i + 1]
                ELSE [cli EXCEPT ![c].pc = "shim"]
     /\ UNCHANGED <<fs, history>>

(* The write may be refused (a bin of root's): on to the next candidate. *)
ShimWrite(c) ==
  LET p == Candidates(cli[c].via)[cli[c].i]
  IN /\ At(c, "shim")
     /\ \/ /\ bin' = [bin EXCEPT ![p] = "shim"]
           /\ cli' = ShimDone(c)
        \/ /\ cli' = [cli EXCEPT ![c].pc = "look", ![c].i = cli[c].i + 1]
           /\ UNCHANGED bin
     /\ UNCHANGED <<conf, history>>

(***************************************************************************)
(* setup.ts: the command of the hook, then one file after the other.       *)
(***************************************************************************)
(* refreshHooks gives up without a command that lasts, `setup hooks` falls back to the bare name. *)
Resolve(c) ==
  LET seen == Seen(cli[c].via)
      found == {i \in DOMAIN seen : Lasts(seen[i])}
  IN /\ At(c, "resolve")
     /\ \/ \E i \in found :
             /\ \A j \in found : i <= j
             /\ cli' = [cli EXCEPT ![c].pc = "read", ![c].cmd = seen[i]]
             /\ UNCHANGED asked
        \/ found = {} /\ cli[c].verb = "up" /\ cli' = Over(c) /\ UNCHANGED asked
        \/ /\ found = {} /\ cli[c].verb # "up" /\ GoTo(c, "read")
           /\ asked' = (asked \/ cli[c].verb = "install")
     /\ UNCHANGED <<fs, had, removed>>

Advance(c) ==
  IF cli[c].i < Len(Agents) THEN [cli EXCEPT ![c].pc = "read", ![c].i = cli[c].i + 1, ![c].copy = NoFile]
  ELSE Over(c)

(* installJsonSessionStartHook: an entry with a hook of ours in it goes as a whole. *)
Merged(c, f) ==
  [is |-> "whole", theirs |-> f.theirs, mixed |-> {},
   ours |-> IF cli[c].verb = "remove" THEN {} ELSE {cli[c].cmd}]

(* What cannot be parsed counts as no settings. *)
Parsed(f) == IF f.is = "whole" THEN f ELSE NoFile

HookRead(c) ==
  LET f == Parsed(conf[Agent(c)])
  IN /\ At(c, "read")
     /\ cli' = IF cli[c].verb = "remove" /\ f.ours = {} THEN Advance(c)
                ELSE [cli EXCEPT ![c].pc = "empty", ![c].copy = Merged(c, f)]
     /\ UNCHANGED <<fs, history>>

(* The write is refused: the agent is skipped. *)
HookEmpty(c) ==
  /\ At(c, "empty")
  /\ \/ /\ conf' = [conf EXCEPT ![Agent(c)] = Torn]
        /\ GoTo(c, "fill")
     \/ /\ cli' = Advance(c)
        /\ UNCHANGED conf
  /\ UNCHANGED <<bin, history>>

(* Or it fails on the way, and leaves the file torn. *)
HookFill(c) ==
  /\ At(c, "fill")
  /\ conf' \in {[conf EXCEPT ![Agent(c)] = f] : f \in {cli[c].copy, Torn}}
  /\ cli' = Advance(c)
  /\ UNCHANGED <<bin, history>>

(***************************************************************************)
(* The user and the other tools.                                           *)
(***************************************************************************)
(* The terminal is closed; a file that was being written stays torn. *)
Killed(c) ==
  /\ cli[c].pc \notin {"unborn", "over"}
  /\ cli' = Over(c)
  /\ UNCHANGED <<fs, history>>

(* Another tool adds to a file, or to the entry that holds our hook, and *)
(* may leave it in a syntax that we do not parse.                        *)
TheyAdd(a, k) ==
  /\ conf[a].is # "torn" /\ k \notin had[a]
  /\ \/ \E is \in {"whole", "odd"} : conf' = [conf EXCEPT ![a].is = is, ![a].theirs = @ \cup {k}]
     \/ conf[a].ours # {} /\ conf' = [conf EXCEPT ![a].mixed = @ \cup {k}]
  /\ had' = [had EXCEPT ![a] = @ \cup {k}]
  /\ UNCHANGED <<bin, cli, removed, asked>>

(* npm i -g, or another install. *)
TheyInstall(p) ==
  /\ p \in {"global", "path"} /\ bin[p] = "none" /\ p \notin removed
  /\ bin' = [bin EXCEPT ![p] = "foreign"]
  /\ UNCHANGED <<conf, cli, history>>

TheyUninstall(p) ==
  /\ bin[p] = "foreign" /\ p # "npx"
  /\ bin' = [bin EXCEPT ![p] = "none"]
  /\ removed' = removed \cup {p}
  /\ UNCHANGED <<conf, cli, had, asked>>

(* The cache of npx is pruned once no command runs from it. *)
Prune ==
  /\ bin["npx"] # "none"
  /\ \A c \in Setups : cli[c].via # "npx"
  /\ bin' = [bin EXCEPT !["npx"] = "none"]
  /\ UNCHANGED <<conf, cli, history>>

Next ==
  \/ \E c \in Setups :
       \/ \E verb \in {"up", "skill", "install", "remove"}, via \in {"npx", "npm", "installed"} : Begin(c, verb, via)
       \/ SkillStep(c) \/ ShimLook(c) \/ ShimWrite(c) \/ Resolve(c)
       \/ HookRead(c) \/ HookEmpty(c) \/ HookFill(c) \/ Killed(c)
  \/ \E a \in AgentIds, k \in Others : TheyAdd(a, k)
  \/ \E p \in Places : TheyInstall(p) \/ TheyUninstall(p)
  \/ Prune

Spec == Init /\ [][Next]_vars

------------------------------------------------------------------------------
(* Properties                                                              *)

(* setup.ts: "a hook pointing at a missing binary would fail EVERY subsequent    *)
(* session".  A hook names a `loopany` that is there, unless the user took it    *)
(* away or asked for the hook without having one: never the cache of npx, which  *)
(* was on PATH while the command ran, and never a shim that could not be written. *)
HookCanRun ==
  \A a \in AgentIds : \A p \in conf[a].ours :
    \/ p = "bare" /\ asked
    \/ p # "bare" /\ (bin[p] # "none" \/ p \in removed)

(* What the code does not keep.  setup.ts: "other SessionStart entries, other     *)
(* events, and other root keys are preserved verbatim".  A settings file that is  *)
(* not plain JSON, or that another writer has just emptied, is read as empty and  *)
(* written over; an entry that holds our hook goes with what others put in it;    *)
(* and what is added between our read and our write is lost.                      *)
OthersSurvive ==
  \A a \in AgentIds : conf[a].is = "whole" => had[a] \subseteq conf[a].theirs \cup conf[a].mixed
=============================================================================
