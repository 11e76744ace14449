----------------------------- MODULE CliTransport -----------------------------
(***************************************************************************)
(* One `loopany <verb>` from its arguments to its exit code: the client in *)
(* packages/daemon/src and the endpoints it talks to.                      *)
(*                                                                         *)
(*   route.ts, cli.ts   who acts: the run that is around, or the owner     *)
(*   cli-client.ts      the credential, the request, the fallback, the     *)
(*                      rendering                                          *)
(*   callback.ts, create.ts, interactive.ts, log.ts, show.ts, home.ts,     *)
(*   progress-cli.ts    the verbs                                          *)
(*   gateway/cli.ts     the two routers and finalizeCli, on the server     *)
(*                                                                         *)
(* A client speaks to servers of three generations: one without the        *)
(* unified endpoint, one whose answers carry no text, and this one; a      *)
(* deploy, the deletion of the loop and the end of the run may come        *)
(* between any two requests.  The older generations are what the client    *)
(* takes them for.  Calls do not meet here (their writes are CliVerbs and  *)
(* Accounts), so one is enough.                                            *)
(***************************************************************************)
EXTENDS Naturals

CONSTANT MaxDeploys    \* bound: deploys of the server

ASSUME TransportBounds == MaxDeploys \in Nat

VARIABLES
  server,       \* the generation that answers
  deploys,
  there,        \* the loop exists
  held,         \* run_leases: the lease of the run
  known,        \* the machine is registered
  stored,       \* a device token and a server url are on file (~/.loopany)
  call,         \* the CLI process
  hits          \* history: times the call took effect

world == <<server, deploys, there, held, known, stored>>
callVars == <<world, call, hits>>

Servers == {"old", "plain", "text"}   \* no unified endpoint; no rendered text; this one

Mutating == {"report", "edit", "new"}
RunVerbs == {"report", "show", "log", "home", "edit", "new"}
OwnerVerbs == {"new", "edit", "loops", "log", "show", "home", "report", "progress"}

(* An answer: its status, its text, the exit code it names, whether what was asked was done. *)
Answer(st, text, code, done) == [st |-> st, text |-> text, code |-> code, done |-> done]
NoAnswer == Answer(0, FALSE, "none", FALSE)
Bare(st) == Answer(st, FALSE, "none", FALSE)
Told(st) == Answer(st, TRUE, "1", FALSE)

NoCall == [pc |-> "unborn", verb |-> "", inRun |-> FALSE, to |-> "cli", step |-> "main",
           ans |-> NoAnswer, exit |-> 9, said |-> "", why |-> {}]

\* TYPE: the call and the world around it.
CallTypeOK ==
  /\ server \in Servers /\ deploys \in 0..MaxDeploys
  /\ held \in {"live", "grace", "gone"} /\ {there, known, stored} \subseteq BOOLEAN
  /\ call.pc \in {"unborn", "sent", "in", "back", "over"}
  /\ call.to \in {"cli", "legacy"} /\ call.step \in {"list", "main"}
  /\ call.exit \in {0, 1, 2, 9} /\ call.said \in {"", "text", "too old"}
  /\ call.why \subseteq {"old", "failed", "gone", "lost"}
  /\ hits \in 0..2

CallInit ==
  /\ server \in Servers /\ deploys = 0
  /\ there = TRUE /\ held \in {"live", "grace", "gone"}
  /\ known \in BOOLEAN /\ stored \in BOOLEAN
  /\ call = NoCall /\ hits = 0

Exit(r, code, said) ==
  [NoCall EXCEPT !.pc = "over", !.verb = r.verb, !.inRun = r.inRun, !.exit = code, !.said = said,
                 !.ans = [NoAnswer EXCEPT !.done = r.ans.done], !.why = r.why]

(***************************************************************************)
(* The client starts.                                                      *)
(***************************************************************************)
(* classify: inside a run every command is a callback. *)
Offered(inRun) == IF inRun THEN RunVerbs ELSE OwnerVerbs

(* resolveCredential *)
Credential(r) == IF r.inRun THEN "run" ELSE IF stored THEN "device" ELSE "none"

(* log and show find the loop of a directory in the list of loops first. *)
FirstStep(verb, inRun) == IF ~inRun /\ verb \in {"log", "show"} THEN "list" ELSE "main"

(* home and progress never fail: one is ambient, the other best-effort. *)
Lenient(r) == ~r.inRun /\ r.verb \in {"home", "progress"}

(* The exit codes of a mistake in the arguments, or of a file that cannot be read. *)
Blames(verb, inRun) ==
  IF verb = "home" THEN {}
  ELSE IF inRun \/ verb = "report" THEN {1}
  ELSE CASE verb = "new" -> {1, 2} [] verb = "progress" -> {0} [] OTHER -> {2}

(* It ends the call before any request. *)
Misused(verb, inRun) ==
  /\ call.pc = "unborn" /\ verb \in Offered(inRun)
  /\ \E code \in Blames(verb, inRun) :
       call' = Exit([NoCall EXCEPT !.verb = verb, !.inRun = inRun], code, "")
  /\ UNCHANGED <<world, hits>>

Start(verb, inRun) ==
  LET r == [NoCall EXCEPT !.pc = "sent", !.verb = verb, !.inRun = inRun, !.step = FirstStep(verb, inRun)]
  IN /\ call.pc = "unborn" /\ verb \in Offered(inRun)
     /\ call' = IF Credential(r) = "none" THEN Exit(r, IF Lenient(r) THEN 0 ELSE 2, "") ELSE r
     /\ UNCHANGED <<world, hits>>

(***************************************************************************)
(* The server.  Who calls is settled in one query, what is asked is done   *)
(* in later ones; the loop may be deleted in between.                      *)
(***************************************************************************)
Verb(r) == IF r.step = "list" THEN "loops" ELSE r.verb

(* The routes: over the rate limit, over the size cap, no such endpoint yet. *)
Refusals(r) ==
  {Bare(429)} \cup {IF r.to = "legacy" /\ Credential(r) = "run" THEN Told(413) ELSE Bare(413)}
              \cup IF r.to = "cli" /\ server = "old" THEN {Bare(404)} ELSE {}

(* runCli and agentApi: a run may act on its own loop only, while its lease lasts. *)
RunDenied(r) ==
  IF held # "live" THEN {Told(IF held = "gone" THEN 401 ELSE 409)}
  ELSE IF Verb(r) \in {"new", "edit"} THEN {Told(IF r.to = "cli" THEN 403 ELSE 400)}
  ELSE IF Verb(r) = "home" /\ r.to = "legacy" THEN {Told(400)}
  ELSE {}

(* deviceCli and the owner's endpoints of before. *)
DeviceDenied(r) ==
  IF Verb(r) = "progress" \/ (Verb(r) = "home" /\ r.to = "cli") THEN {}
  ELSE IF Verb(r) = "report" /\ r.to = "legacy" THEN {Told(401)}
  ELSE IF ~known THEN {Bare(401)}
  ELSE IF Verb(r) = "report" THEN {Bare(403)}
  ELSE {}

Denied(r) == IF Credential(r) = "run" THEN RunDenied(r) ELSE DeviceDenied(r)

(* What the verb comes to, when it is let in; the list of loops tells whether this one is there. *)
Done(r) == Answer(200, TRUE, "none", TRUE)
Outcomes(r) ==
  CASE Verb(r) = "loops" -> {[Done(r) EXCEPT !.done = there \/ r.step = "main"]}
    [] Verb(r) = "home" -> {Done(r)}
    [] Verb(r) = "progress" -> {[Done(r) EXCEPT !.text = FALSE]}
    [] Verb(r) = "new" -> {Done(r), Bare(400)}
    [] Verb(r) = "edit" -> IF there THEN {Done(r), Bare(400)} ELSE {Bare(404)}
    [] Verb(r) = "report" -> {Done(r), Told(400)}
    [] Verb(r) = "log" -> (IF there THEN {Done(r)} ELSE {Bare(404)})
                          \cup IF r.inRun /\ r.to = "cli" THEN {Told(403)} ELSE {}
    [] Verb(r) = "show" -> (IF there THEN {Done(r)}
                            ELSE IF r.inRun THEN {Answer(200, TRUE, "0", FALSE)} \cup (IF r.to = "cli" THEN {Told(404)} ELSE {}) ELSE {Bare(404)})
                           \cup IF r.inRun /\ r.to = "cli" THEN {Told(403)} ELSE {}

(* Mutant: an error is rendered and counts as a success. *)
FinalizedZero(a) == [a EXCEPT !.text = TRUE, !.code = IF a.code # "none" THEN a.code ELSE "0"]

(* finalizeCli: a refusal that is only an error is rendered. *)
Finalized(a) ==
  [a EXCEPT !.text = TRUE, !.code = IF a.code # "none" THEN a.code ELSE IF a.st = 200 THEN "0" ELSE "1"]

(* The answer as the caller gets it. *)
Sent(r, a) ==
  CASE server = "text" /\ r.to = "cli" -> Finalized(a)
    [] server = "text" /\ r.to = "legacy" -> a
    [] OTHER -> [a EXCEPT !.text = a.text /\ Credential(r) = "run"]

(* History: what an answer without a text may be owed to. *)
Cause(r, a) ==
  r.why \cup (IF server # "text" THEN {"old"} ELSE {})
        \cup (IF a.st \in {413, 429, 500} THEN {"failed"} ELSE {})
        \cup (IF server = "text" /\ a.st = 404 THEN {"gone"} ELSE {})

Back(r, a) == [r EXCEPT !.pc = "back", !.ans = a, !.why = Cause(r, a)]

Took(r, a) == hits' = IF a.done /\ Verb(r) \in Mutating THEN hits + 1 ELSE hits

Reached(r) == ~(r.to = "cli" /\ server = "old")

Admit ==
  /\ call.pc = "sent"
  /\ \/ \E a \in Refusals(call) : call' = Back(call, a)
     \/ Reached(call) /\ \E a \in Denied(call) : call' = Back(call, Sent(call, a))
     \/ Reached(call) /\ Denied(call) = {} /\ call' = [call EXCEPT !.pc = "in"]
  /\ UNCHANGED <<world, hits>>

Serve ==
  /\ call.pc = "in"
  /\ \E a \in Outcomes(call) : Took(call, a) /\ call' = Back(call, Sent(call, a))
  /\ UNCHANGED world

(* The handler throws, before or after it took effect. *)
Throws ==
  /\ call.pc = "in"
  /\ \E a \in Outcomes(call) \cup {Bare(500)} :
       Took(call, a) /\ call' = Back(call, [Bare(500) EXCEPT !.done = a.done])
  /\ UNCHANGED world

(***************************************************************************)
(* The client goes on.                                                     *)
(***************************************************************************)
(* No connection, or one that is lost on the way there or back. *)
Cut ==
  /\ call.pc \in {"sent", "in", "back"}
  /\ \E a \in IF call.pc = "in" THEN Outcomes(call) ELSE {NoAnswer} : Took(call, a)
  /\ call' = Exit(call, IF Lenient(call) THEN 0 ELSE 1, "")
  /\ UNCHANGED world

(* Or it is lost after the headers: the status stands, and the body is taken for an *)
(* empty one (res.json().catch(() => ({}))); a list that has no loops ends the call. *)
Emptied(r) == [r.ans EXCEPT !.text = FALSE, !.code = "none", !.done = @ /\ r.step = "main"]

(* Mutant: any failure is put down to an old server. *)
MeansOldAny(a) == a.st >= 400

(* postCli *)
MeansOld(a) == a.st = 404

Fallen == call.pc = "back" /\ call.to = "cli" /\ MeansOld(call.ans) /\ call.verb # "progress"

BodyLost ==
  /\ call.pc = "back" /\ ~Fallen /\ call.ans.st # 501
  /\ call' = [call EXCEPT !.ans = Emptied(call), !.why = @ \cup {"lost"}]
  /\ UNCHANGED <<world, hits>>

(* The endpoint of before, per credential and verb; the owner's `show` has none. *)
FallBack ==
  /\ Fallen
  /\ call' = IF call.verb = "show" /\ call.step = "main" /\ ~call.inRun
             THEN [call EXCEPT !.to = "legacy", !.ans = Bare(501)]
             ELSE [call EXCEPT !.to = "legacy", !.pc = "sent"]
  /\ UNCHANGED <<world, hits>>

(* log, show: the loop is looked up in the list. *)
Resolve ==
  /\ call.pc = "back" /\ ~Fallen /\ call.step = "list"
  /\ IF call.ans.st = 200 /\ call.ans.done
     THEN call' = [call EXCEPT !.step = "main", !.to = "cli", !.pc = "sent", !.ans = NoAnswer]
     ELSE \E code \in IF call.ans.st = 200 THEN {1, 2} ELSE {1} :
            call' = Exit([call EXCEPT !.ans = NoAnswer], code, "")
  /\ UNCHANGED <<world, hits>>

(* printText: the code the server named, else the status. *)
CodeOf(a) == CASE a.code = "0" -> 0 [] a.code = "1" -> 1 [] OTHER -> IF a.st = 200 THEN 0 ELSE 1

(* printTextOrTooOld; a home without a text is a home that says so. *)
Render ==
  /\ call.pc = "back" /\ ~Fallen /\ call.step = "main"
  /\ call' = IF call.verb = "progress" \/ (Lenient(call) /\ ~call.ans.text) THEN Exit(call, 0, "")
             ELSE IF call.ans.text THEN Exit(call, CodeOf(call.ans), "text")
             ELSE Exit(call, 1, "too old")
  /\ UNCHANGED <<world, hits>>

(***************************************************************************)
(* The rest of the world.                                                  *)
(***************************************************************************)
Deploy ==
  /\ deploys < MaxDeploys
  /\ \E s \in Servers \ {server} : server' = s
  /\ deploys' = deploys + 1
  /\ UNCHANGED <<there, held, known, stored, call, hits>>

(* The owner deletes the loop, and its leases with it. *)
LoopDeleted ==
  /\ there
  /\ there' = FALSE /\ held' = "gone"
  /\ UNCHANGED <<server, deploys, known, stored, call, hits>>

(* The run reports, or is reclaimed by the sweep. *)
LeaseEnds ==
  /\ held # "gone"
  /\ held' \in IF held = "live" THEN {"grace", "gone"} ELSE {"gone"}
  /\ UNCHANGED <<server, deploys, there, known, stored, call, hits>>

CallNext ==
  \/ \E verb \in RunVerbs \cup OwnerVerbs, inRun \in BOOLEAN : Misused(verb, inRun) \/ Start(verb, inRun)
  \/ Admit \/ Serve \/ Throws \/ Cut \/ BodyLost \/ FallBack \/ Resolve \/ Render
  \/ Deploy \/ LoopDeleted \/ LeaseEnds

CallSpec == CallInit /\ [][CallNext]_callVars

------------------------------------------------------------------------------
(* Properties                                                              *)

(* SAFETY: one command takes effect once, whatever came between its requests: the *)
(* fallback of postCli asks again only where the first request did nothing.       *)
TakesEffectOnce == hits <= 1

(* SAFETY: a command that ends with 0 did what it was asked for: except the home  *)
(* view and `progress` of the owner, which never fail, and `show` of a run whose  *)
(* loop was deleted under it.                                                     *)
ZeroMeansDone ==
  call.pc = "over" /\ call.exit = 0 /\ ~Lenient(call) =>
    call.ans.done \/ (call.verb = "show" /\ call.inRun /\ ~there)

(* SAFETY: a refusal of this server's dispatch is never taken for an old server:   *)
(* what is called too old was, at one of the call's requests, or failed, or named  *)
(* a loop that is not there, or its answer was lost half-way.                      *)
TooOldHasCause == call.said = "too old" => call.why # {}

(* SAFETY: a command inside a run has the authority of its run only: it changes no *)
(* loop as the owner and makes none, whatever is on file on the machine.           *)
RunActsAsRun == call.inRun /\ hits > 0 => call.verb = "report"

(* What the code does not keep.  cli-client.ts:138: an answer without `text` comes *)
(* from "a server that predates the axi text spine".                               *)
TooOldMeansOld == call.said = "too old" => "old" \in call.why
==============================================================================
