------------------------------ MODULE Onboarding ------------------------------
(***************************************************************************)
(* The screens that wait for something to happen elsewhere: the first-run  *)
(* wizard, the dialog that captures a new loop and the dialog that         *)
(* connects a computer (packages/server/src/components: OnboardingWizard,  *)
(* ComposeModal, MachinesModal), with the server functions they poll and   *)
(* the connect keys in memory (gateway/tokens.ts).                         *)
(*                                                                         *)
(* Every screen sends requests whose answers come late, in any order, or   *)
(* never, to a screen that has moved on, was left or was opened anew.  The *)
(* result of a key is read once: reading it removes it.                    *)
(***************************************************************************)
EXTENDS Naturals, Sequences

CONSTANTS
  Machines,      \* machine rows that can be minted
  Keys,          \* connect keys; a loop is named by the key it was created with
  NoId,          \* no machine, no key
  Wires,         \* bound: 1..n, the requests in flight
  SettlePolls    \* SCHEDULED_SETTLE_POLLS

OnboardingConstantsOK == NoId \notin Keys

Screens == {"wizard", "compose", "connect"}
Steps == <<"welcome", "machine", "meet", "prompt", "live">>
Phases == {"pending", "running", "done", "error", "canceled"}
FirstRun == {"running", "done", "failed", "scheduled"}

VARIABLES
  screen,    \* the screen this behaviour is about
  w,         \* the wizard
  d,         \* the compose dialog
  k,         \* the connect dialog
  mach,      \* mach[m]: the machine's row
  keys,      \* keys minted
  run,       \* run[c]: the latest exec run of the loop made with key c, or "none"
  results,   \* the results of keys, in the server's memory
  net,       \* net[i]: a request and its answer
  pasted,    \* history: keys the user copied
  missed,    \* history: keys whose result was removed and seen by no screen
  discarded  \* history: machines whose screen let go of them unawares

vars == <<screen, w, d, k, mach, keys, run, results, net, pasted, missed, discarded>>
ui == <<w, d, k>>
server == <<mach, keys, run, results>>
history == <<pasted, missed, discarded>>

NoWire == [what |-> "none", at |-> "free", arg |-> NoId, val |-> "none", live |-> FALSE, old |-> FALSE]
ServerFns == {"createMachine", "machineStatus", "finalize", "deleteMachine", "mintClaim", "claimStatus", "firstRun"}
Wire ==
  [what: ServerFns, at: {"sent", "answered"}, arg: Machines \cup Keys \cup {NoId},
   val: {"none", "online", "offline", "found", "nothing"} \cup FirstRun,
   live: BOOLEAN,    \* its answer is still listened to
   old: BOOLEAN]     \* history: it belongs to an earlier opening of its dialog

Wizard ==
  [mounted: BOOLEAN, step: 1..Len(Steps), machine: Machines \cup {NoId}, key: Keys \cup {NoId},
   loop: Keys \cup {NoId}, online: BOOLEAN, shows: FirstRun, scheduled: 0..SettlePolls, asked: BOOLEAN]
Compose ==
  [open: BOOLEAN, host: BOOLEAN, token: Keys \cup {NoId}, created: Keys \cup {NoId},
   copied: Keys \cup {NoId},
   stale: BOOLEAN,    \* history: an answer of an earlier opening was heeded
   twice: BOOLEAN]    \* history: this opening asked for a key ahead of the choice of host
Connect == [pending: Machines \cup {NoId}, online: BOOLEAN, busy: BOOLEAN]
MachineRow == [minted: BOOLEAN, row: BOOLEAN, named: BOOLEAN, online: BOOLEAN, told: BOOLEAN, loops: BOOLEAN]

TypeOK ==
  /\ screen \in Screens
  /\ w \in Wizard /\ d \in Compose /\ k \in Connect
  /\ mach \in [Machines -> MachineRow]
  /\ keys \subseteq Keys
  /\ run \in [Keys -> Phases \cup {"none"}]
  /\ results \subseteq Keys
  /\ net \in [Wires -> Wire \cup {NoWire}]
  /\ pasted \subseteq Keys /\ missed \subseteq Keys /\ discarded \subseteq Machines

(***************************************************************************)
(* The wizard persists its step, machine, key and loop; the rest starts    *)
(* over when it is mounted.                                                *)
(***************************************************************************)
Fresh ==
  [mounted |-> FALSE, step |-> 1, machine |-> NoId, key |-> NoId, loop |-> NoId,
   online |-> FALSE, shows |-> "running", scheduled |-> 0, asked |-> FALSE]
Closed ==
  [open |-> FALSE, host |-> FALSE, token |-> NoId, created |-> NoId,
   copied |-> NoId, stale |-> FALSE, twice |-> FALSE]

Init ==
  /\ screen \in Screens
  /\ w = Fresh /\ d = Closed
  /\ k = [pending |-> NoId, online |-> FALSE, busy |-> FALSE]
  /\ mach = [m \in Machines |-> [minted |-> FALSE, row |-> FALSE, named |-> FALSE,
                                 online |-> FALSE, told |-> FALSE, loops |-> FALSE]]
  /\ keys = {} /\ results = {}
  /\ run = [c \in Keys |-> "none"]
  /\ net = [i \in Wires |-> NoWire]
  /\ pasted = {} /\ missed = {} /\ discarded = {}

At(step) == w.mounted /\ Steps[w.step] = step
Finished(state) == state \in {"done", "failed"}
Settled == Finished(w.shows) \/ (w.shows = "scheduled" /\ w.scheduled >= SettlePolls)

(***************************************************************************)
(* Requests.                                                               *)
(***************************************************************************)
SendFrom(wires, what, arg) ==
  \E i \in Wires :
    /\ wires[i] = NoWire /\ \A j \in Wires : j < i => wires[j] # NoWire
    /\ net' = [wires EXCEPT ![i] = [what |-> what, at |-> "sent", arg |-> arg, val |-> "none",
                                    live |-> TRUE, old |-> FALSE]]

Send(what, arg) == SendFrom(net, what, arg)

Ignored(calls) == [i \in Wires |-> IF net[i].what \in calls THEN [net[i] EXCEPT !.live = FALSE] ELSE net[i]]

(***************************************************************************)
(* The wizard: its buttons, its effects, its end.  Leaving a step that     *)
(* mints cancels the mint's answer; the polls are not cancelled.           *)
(***************************************************************************)
Mount ==
  /\ screen = "wizard" /\ ~w.mounted
  /\ w' = [Fresh EXCEPT !.mounted = TRUE, !.step = w.step, !.machine = w.machine, !.key = w.key, !.loop = w.loop]
  /\ UNCHANGED <<screen, d, k, server, net, history>>

GoTo(step) ==
  /\ w' = [w EXCEPT !.step = step, !.asked = FALSE]
  /\ net' = Ignored({"createMachine", "mintClaim"})
  /\ UNCHANGED <<screen, d, k, server, history>>

(* A continue button that does not wait for the daemon is the others'; the     *)
(* step "prompt" has none.                                                     *)
Continue ==
  /\ At("welcome") \/ (At("machine") /\ w.online) \/ At("meet")
  /\ GoTo(w.step + 1)

Back ==
  /\ At("machine") \/ At("meet") \/ At("prompt")
  /\ GoTo(w.step - 1)

(* Skip, a reload, a closed tab: what is persisted stays. *)
Leave ==
  /\ screen = "wizard" /\ w.mounted
  /\ w' = [w EXCEPT !.mounted = FALSE]
  /\ net' = Ignored(ServerFns)
  /\ UNCHANGED <<screen, d, k, server, history>>

(* finish, seeResult *)
Finish ==
  /\ At("live")
  /\ w' = Fresh
  /\ net' = Ignored(ServerFns)
  /\ UNCHANGED <<screen, d, k, server, history>>

AskMachine ==
  /\ At("machine") /\ w.machine = NoId /\ ~w.asked
  /\ w' = [w EXCEPT !.asked = TRUE]
  /\ Send("createMachine", NoId)
  /\ UNCHANGED <<screen, d, k, server, history>>

AskKey ==
  /\ At("prompt") /\ w.key = NoId /\ ~w.asked
  /\ w' = [w EXCEPT !.asked = TRUE]
  /\ Send("mintClaim", NoId)
  /\ UNCHANGED <<screen, d, k, server, history>>

WizardPolls ==
  /\ \/ At("machine") /\ w.machine # NoId /\ ~w.online /\ Send("machineStatus", w.machine)
     \/ At("prompt") /\ w.key # NoId /\ Send("claimStatus", w.key)
     \/ At("live") /\ w.loop # NoId /\ ~Settled /\ Send("firstRun", w.loop)
  /\ UNCHANGED <<screen, ui, server, history>>

(***************************************************************************)
(* The compose dialog.  Opening it anew resets it and cancels nothing; a   *)
(* key is asked for as soon as the host is chosen.  The effect that asks   *)
(* runs before the reset is rendered, so that it goes by the host of the   *)
(* opening before: a blank dialog then asks at once and when the host is   *)
(* chosen again.                                                           *)
(***************************************************************************)
Older == [i \in Wires |-> IF net[i] = NoWire THEN NoWire ELSE [net[i] EXCEPT !.old = TRUE]]

Open ==
  /\ screen = "compose" /\ ~d.open
  /\ \E template \in BOOLEAN :
       /\ d' = [Closed EXCEPT !.open = TRUE, !.host = template, !.twice = d.host /\ ~template]
       /\ IF template \/ d.host THEN SendFrom(Older, "mintClaim", NoId) ELSE net' = Older
  /\ UNCHANGED <<screen, w, k, server, history>>

PickHost ==
  /\ d.open /\ ~d.host
  /\ d' = [d EXCEPT !.host = TRUE]
  /\ Send("mintClaim", NoId)
  /\ UNCHANGED <<screen, w, k, server, history>>

ComposePolls ==
  /\ d.open /\ d.host /\ d.created = NoId /\ d.token # NoId
  /\ Send("claimStatus", d.token)
  /\ UNCHANGED <<screen, ui, server, history>>

Close ==
  /\ d.open
  /\ d' = [d EXCEPT !.open = FALSE]
  /\ UNCHANGED <<screen, w, k, server, net, history>>

(***************************************************************************)
(* The connect dialog.                                                     *)
(***************************************************************************)
StartConnect ==
  /\ screen = "connect" /\ k.pending = NoId /\ ~k.busy
  /\ k' = [k EXCEPT !.busy = TRUE]
  /\ Send("createMachine", NoId)
  /\ UNCHANGED <<screen, w, d, server, history>>

ConnectPolls ==
  /\ k.pending # NoId
  /\ Send("machineStatus", k.pending)
  /\ UNCHANGED <<screen, ui, server, history>>

Cancel ==
  /\ k.pending # NoId
  /\ Send("deleteMachine", k.pending)
  /\ UNCHANGED <<screen, ui, server, history>>

Done ==
  /\ k.pending # NoId /\ k.online
  /\ Send("finalize", k.pending)
  /\ UNCHANGED <<screen, ui, server, history>>

(***************************************************************************)
(* The server.                                                             *)
(***************************************************************************)
Answer(i, arg, val) == net' = [net EXCEPT ![i].at = "answered", ![i].arg = arg, ![i].val = val]

ServeCreate(i) ==
  /\ net[i].what = "createMachine"
  /\ \E m \in Machines : ~mach[m].minted
  /\ LET m == CHOOSE unused \in Machines : ~mach[unused].minted
     IN /\ mach' = [mach EXCEPT ![m].minted = TRUE, ![m].row = TRUE]
        /\ Answer(i, m, "none")
  /\ UNCHANGED <<keys, run, results>>

ServeStatus(i) ==
  /\ net[i].what = "machineStatus"
  /\ LET m == net[i].arg
     IN Answer(i, m, IF mach[m].row /\ mach[m].online THEN "online" ELSE "offline")
  /\ UNCHANGED server

ServeFinalize(i) ==
  /\ net[i].what = "finalize"
  /\ Answer(i, net[i].arg, "none")
  /\ mach' = [mach EXCEPT ![net[i].arg].named = @ \/ mach[net[i].arg].row]
  /\ UNCHANGED <<keys, run, results>>

(* A machine that still owns loops is not deleted. *)
ServeDelete(i) ==
  /\ net[i].what = "deleteMachine"
  /\ Answer(i, net[i].arg, "none")
  /\ LET m == net[i].arg
     IN mach' = IF mach[m].loops THEN mach
                ELSE [mach EXCEPT ![m].row = FALSE, ![m].named = FALSE, ![m].online = FALSE]
  /\ UNCHANGED <<keys, run, results>>

ServeMint(i) ==
  /\ net[i].what = "mintClaim"
  /\ Keys # keys
  /\ LET c == CHOOSE unused \in Keys : unused \notin keys
     IN keys' = keys \cup {c} /\ Answer(i, c, "none")
  /\ UNCHANGED <<mach, run, results>>

(* Consume, then read. *)
ServeClaimConsumed(i) ==
  /\ net[i].what = "claimStatus"
  /\ results' = results \ {net[i].arg}
  /\ Answer(i, net[i].arg, IF net[i].arg \in results' THEN "found" ELSE "nothing")
  /\ UNCHANGED <<mach, keys, run>>

(* readClaim: read and consume. *)
ServeClaim(i) ==
  /\ net[i].what = "claimStatus"
  /\ LET c == net[i].arg
     IN /\ Answer(i, c, IF c \in results THEN "found" ELSE "nothing")
        /\ results' = results \ {c}
  /\ UNCHANGED <<mach, keys, run>>

FirstRunStateFrom(phase, up) ==
  CASE phase = "done" -> "done"
    [] phase = "error" -> "failed"
    [] phase = "running" -> "running"
    [] phase \in {"none", "pending"} -> IF up THEN "running" ELSE "scheduled"
    [] phase = "canceled" -> "scheduled"

(* The loop may be on any machine. *)
ServeFirstRun(i) ==
  /\ net[i].what = "firstRun"
  /\ \E up \in BOOLEAN : Answer(i, net[i].arg, FirstRunStateFrom(run[net[i].arg], up))
  /\ UNCHANGED server

Serve(i) ==
  /\ net[i].at = "sent"
  /\ \/ ServeCreate(i) \/ ServeStatus(i) \/ ServeFinalize(i) \/ ServeDelete(i)
     \/ ServeMint(i) \/ ServeClaim(i) \/ ServeFirstRun(i)
  /\ UNCHANGED <<screen, ui, history>>

(* The results are in memory. *)
Restart ==
  /\ results # {}
  /\ missed' = missed \cup results
  /\ results' = {}
  /\ UNCHANGED <<screen, ui, mach, keys, run, net, pasted, discarded>>

(***************************************************************************)
(* Answers, at a screen that still listens.                                *)
(***************************************************************************)
Free(i) == net' = [net EXCEPT ![i] = NoWire]

MachineMinted(i) ==
  /\ net[i].what = "createMachine"
  /\ IF screen = "wizard" THEN w' = [w EXCEPT !.machine = net[i].arg] /\ UNCHANGED k
     ELSE k' = [pending |-> net[i].arg, online |-> FALSE, busy |-> FALSE] /\ UNCHANGED w
  /\ mach' = [mach EXCEPT ![net[i].arg].told = TRUE]
  /\ Free(i)
  /\ UNCHANGED <<d, keys, run, results, history>>

(* The wizard names the machine it finds online; the dialog heeds an answer    *)
(* about the machine it shows.                                                 *)
MachineSeen(i) ==
  /\ net[i].what = "machineStatus"
  /\ IF screen = "wizard" /\ net[i].val = "online"
       THEN /\ w' = [w EXCEPT !.online = TRUE]
            /\ net' = [net EXCEPT ![i] = [NoWire EXCEPT !.what = "finalize", !.at = "sent",
                                                        !.arg = net[i].arg, !.live = TRUE]]
       ELSE UNCHANGED w /\ Free(i)
  /\ k' = IF screen = "connect" /\ k.pending = net[i].arg
            THEN [k EXCEPT !.online = (net[i].val = "online")] ELSE k
  /\ UNCHANGED <<d, server, history>>

(* What closes the connect dialog closes it whichever machine it shows by now. *)
Dismissed(i) ==
  /\ net[i].what \in {"finalize", "deleteMachine"}
  /\ IF screen = "connect"
       THEN /\ k' = [k EXCEPT !.pending = NoId, !.online = FALSE]
            /\ discarded' = discarded \cup ({k.pending} \ {net[i].arg, NoId})
       ELSE UNCHANGED <<k, discarded>>
  /\ Free(i)
  /\ UNCHANGED <<w, d, server, pasted, missed>>

KeyMinted(i) ==
  /\ net[i].what = "mintClaim"
  /\ IF screen = "wizard" THEN w' = [w EXCEPT !.key = net[i].arg] /\ UNCHANGED d
     ELSE d' = [d EXCEPT !.token = net[i].arg, !.stale = @ \/ net[i].old] /\ UNCHANGED w
  /\ Free(i)
  /\ UNCHANGED <<k, server, history>>

(* The wizard moves to its last step from whichever it shows by now. *)
ClaimSeen(i) ==
  /\ net[i].what = "claimStatus"
  /\ IF screen = "wizard"
       THEN w' = (IF net[i].val = "found"
                    THEN [w EXCEPT !.loop = net[i].arg, !.step = Len(Steps), !.asked = FALSE] ELSE w)
            /\ UNCHANGED d
       ELSE d' = (IF net[i].val = "found" THEN [d EXCEPT !.created = net[i].arg, !.stale = @ \/ net[i].old] ELSE d)
            /\ UNCHANGED w
  /\ Free(i)
  /\ UNCHANGED <<k, server, history>>

RunSeen(i) ==
  /\ net[i].what = "firstRun"
  /\ w' = [w EXCEPT !.shows = net[i].val,
                    !.scheduled = IF net[i].val # "scheduled" THEN 0
                                  ELSE IF @ < SettlePolls THEN @ + 1 ELSE @]
  /\ Free(i)
  /\ UNCHANGED <<d, k, server, history>>

Receive(i) ==
  /\ net[i].at = "answered" /\ net[i].live
  /\ \/ MachineMinted(i) \/ MachineSeen(i) \/ Dismissed(i)
     \/ KeyMinted(i) \/ ClaimSeen(i) \/ RunSeen(i)
  /\ UNCHANGED screen

(* A request or its answer is lost, or the answer is nobody's any more. *)
Drop(i) ==
  /\ net[i] # NoWire
  /\ Free(i)
  /\ LET gone == net[i].at = "answered"
     IN /\ missed' = IF gone /\ net[i].val = "found" THEN missed \cup {net[i].arg} ELSE missed
        /\ discarded' = IF gone /\ net[i].what = "createMachine" THEN discarded \cup {net[i].arg} ELSE discarded
  /\ k' = IF net[i].what = "createMachine" THEN [k EXCEPT !.busy = FALSE] ELSE k
  /\ UNCHANGED <<screen, w, d, server, pasted>>

(***************************************************************************)
(* The user's terminal and coding agent.                                   *)
(***************************************************************************)
Copy ==
  /\ \/ At("prompt") /\ w.key # NoId /\ pasted' = pasted \cup {w.key} /\ UNCHANGED d
     \/ /\ d.open /\ d.host /\ d.token # NoId
        /\ pasted' = pasted \cup {d.token} /\ d' = [d EXCEPT !.copied = d.token]
  /\ UNCHANGED <<screen, w, k, server, net, missed, discarded>>

(* A poll of the daemon: the row is made when it is missing, and gets a name. *)
DaemonPolls(m) ==
  /\ mach[m].told
  /\ mach' = [mach EXCEPT ![m].row = TRUE, ![m].named = TRUE, ![m].online = TRUE]
  /\ UNCHANGED <<screen, ui, keys, run, results, net, history>>

GoesOffline(m) ==
  /\ mach[m].online
  /\ mach' = [mach EXCEPT ![m].online = FALSE]
  /\ UNCHANGED <<screen, ui, keys, run, results, net, history>>

LoopOnMachine(m) ==
  /\ screen = "connect" /\ mach[m].row /\ mach[m].named
  /\ mach' = [mach EXCEPT ![m].loops = TRUE]
  /\ UNCHANGED <<screen, ui, keys, run, results, net, history>>

(* createLoop with the key as its claim; a loop made disabled has no run yet. *)
CreateLoop(c) ==
  /\ c \in pasted /\ run[c] = "none" /\ c \notin results \cup missed
  /\ ~\E i \in Wires : net[i].val = "found" /\ net[i].arg = c
  /\ w.loop # c /\ d.created # c
  /\ run' = [run EXCEPT ![c] = "pending"]
  /\ results' = results \cup {c}
  /\ UNCHANGED <<screen, ui, mach, keys, net, history>>

(* What becomes of the run nobody asks but the wizard that found the loop. *)
RunMoves(c) ==
  /\ w.loop = c
  /\ \/ run[c] = "pending" /\ \E p \in {"running", "canceled"} : run' = [run EXCEPT ![c] = p]
     \/ run[c] = "running" /\ \E p \in {"done", "error", "canceled"} : run' = [run EXCEPT ![c] = p]
     \/ run[c] \in {"done", "error", "canceled"} /\ run' = [run EXCEPT ![c] = "pending"]
  /\ UNCHANGED <<screen, ui, mach, keys, results, net, history>>

Next ==
  \/ Mount \/ Continue \/ Back \/ Leave \/ Finish \/ AskMachine \/ AskKey \/ WizardPolls
  \/ Open \/ PickHost \/ ComposePolls \/ Close
  \/ StartConnect \/ ConnectPolls \/ Cancel \/ Done
  \/ Copy \/ Restart
  \/ \E i \in Wires : Serve(i) \/ Receive(i) \/ Drop(i)
  \/ \E m \in Machines : DaemonPolls(m) \/ GoesOffline(m) \/ LoopOnMachine(m)
  \/ \E c \in Keys : CreateLoop(c) \/ RunMoves(c)

Spec == Init /\ [][Next]_vars

(* The result waits on the server or is on its way to a screen that listens;   *)
(* its one reading reached nobody, or will.                                    *)
OnItsWay(c, heard) ==
  \E i \in Wires : net[i].what = "claimStatus" /\ net[i].arg = c /\ net[i].val = "found" /\ net[i].live = heard
Coming(c) == c \in results \/ OnItsWay(c, TRUE)
Lost(c) == c \in missed \/ OnItsWay(c, FALSE)

(* The dialog shows the copied key, or its loop; Another: it shows the other of two. *)
Awaited == d.token = d.copied /\ d.created = NoId /\ Coming(d.copied)
Another == d.token # d.copied \/ d.created \notin {NoId, d.copied}

(***************************************************************************)
(* A screen that waits for the loop of its key will learn of it, unless    *)
(* the one reading of the result was lost: the server restarted, the       *)
(* answer did not arrive, or the wizard had been left.  The dialog waits   *)
(* for the key its user copied, unless an answer of an earlier opening     *)
(* took its place, or the other key of an opening that asked for two       *)
(* (OnboardingWizard.tsx, ComposeModal.tsx, readClaim).                    *)
(***************************************************************************)
CreatedIsNoticed ==
  /\ At("prompt") /\ w.key # NoId /\ run[w.key] # "none" => Coming(w.key) \/ Lost(w.key)
  /\ d.open /\ d.copied # NoId /\ run[d.copied] # "none" =>
       \/ d.created = d.copied
       \/ Awaited
       \/ Lost(d.copied)
       \/ d.stale
       \/ d.twice /\ Another

(***************************************************************************)
(* A machine that was minted and never connected is on the screen that     *)
(* minted it, unless that screen let go of it unawares: the answer to its  *)
(* mint was lost or came after the step was left, or a second answer to    *)
(* Cancel or Done closed the dialog on it (MachinesModal.tsx, cancel).     *)
(***************************************************************************)
NoStrayMachine ==
  \A m \in Machines :
    mach[m].row /\ ~mach[m].named =>
      \/ m \in {w.machine, k.pending} \cup discarded
      \/ \E i \in Wires : net[i].what = "createMachine" /\ net[i].arg = m

(* CLAIM (ComposeModal.tsx:141): the dialog waits on the claim of the key that was copied. *)
CopiedIsAwaited ==
  d.open /\ d.copied # NoId /\ run[d.copied] # "none" /\ ~d.stale =>
    d.created = d.copied \/ Awaited \/ Lost(d.copied)
=============================================================================
