---------------------------- MODULE CommandProofs -----------------------------
(***************************************************************************)
(* The command line.  CliTransport: one command takes effect once, and ends *)
(* with 0 only when it did what it was asked for, whatever deploys,        *)
(* deletions and ends of leases come between its requests, and however many. *)
(* CliVerbs: the completion of a loop agrees with its goal and its switch, an *)
(* edit changes what its dry run announced, and every command of a run is in *)
(* its log, but for the races the statements name.  LocalSetup: a hook names *)
(* a command that is there.  RunReport: no item is skipped, and no streak   *)
(* of failures stays silent.                                               *)
(***************************************************************************)
EXTENDS MCCommands, FiniteSetTheorems, TLAPS

(***************************************************************************)
(* CliTransport: how one command ends.                                     *)
(***************************************************************************)

Statuses == {0, 200, 400, 401, 403, 404, 409, 413, 429, 500, 501}
Answers == [st: Statuses, text: BOOLEAN, code: {"none", "0", "1"}, done: BOOLEAN]

(* How a command ends: its exit code, what it printed. *)
Codes == {0, 1, 2}
Sayings == {"", "text", "too old"}

Calls ==
  [pc: {"unborn", "sent", "in", "back", "over"}, verb: RunVerbs \cup OwnerVerbs \cup {""}, inRun: BOOLEAN,
   to: {"cli", "legacy"}, step: {"list", "main"}, ans: Answers, exit: Codes \cup {9},
   said: Sayings, why: SUBSET {"old", "failed", "gone", "lost"}]
(* An answer that would end the command with 0 says that it is done; but for a *)
(* run that shows the loop it has lost.                                        *)
Excused(r) == r.verb = "show" /\ r.inRun /\ ~there
Honest(r, a) == CodeOf(a) = 0 => a.done \/ Excused(r)

(* What takes effect is answered, and with no status that makes the client ask again. *)
AskedOnce ==
  /\ hits \in {0, 1}
  /\ hits = 1 => call.pc \in {"back", "over"}
  /\ hits = 1 /\ call.pc = "back" => call.step = "main" /\ call.ans.st # 404

Typed ==
  /\ server \in Servers /\ deploys \in 0..MaxDeploys /\ held \in {"live", "grace", "gone"}
  /\ {there, known, stored} \subseteq BOOLEAN
  /\ call \in Calls
  /\ call.pc # "unborn" => call.verb \in Offered(call.inRun)

IInv ==
  /\ Typed
  /\ call.pc = "back" /\ call.step = "main" /\ call.ans.text => Honest(call, call.ans)
  /\ AskedOnce
  /\ ZeroMeansDone

(***************************************************************************)
(* Answers.                                                                *)
(***************************************************************************)
LEMMA Plain ==
  ASSUME NEW st \in Statuses
  PROVE  /\ Bare(st) \in Answers /\ Bare(st).st = st /\ ~Bare(st).done /\ Bare(st).code = "none"
         /\ Told(st) \in Answers /\ Told(st).st = st /\ ~Told(st).done /\ Told(st).code = "1"
  BY DEF Bare, Told, Answer, Answers

(* A refusal did nothing, and does not end a command with 0. *)
Refuses(a) == a \in Answers /\ ~a.done /\ CodeOf(a) = 1
LEMMA PlainRefuses ==
  ASSUME NEW st \in Statuses \ {200} PROVE Refuses(Bare(st)) /\ Refuses(Told(st))
<1>1. st \in Statuses  OBVIOUS
<1> QED  BY <1>1, Plain DEF Refuses, CodeOf

LEMMA RefusalsRefuse == ASSUME NEW r, NEW a \in Refusals(r) PROVE Refuses(a)
<1>1. a \in {Bare(429), Bare(413), Told(413), Bare(404)}  BY DEF Refusals
<1>2. 429 \in Statuses \ {200} /\ 413 \in Statuses \ {200} /\ 404 \in Statuses \ {200}  BY DEF Statuses
<1> QED  BY <1>1, <1>2, PlainRefuses

LEMMA DenialsRefuse == ASSUME NEW r, NEW a \in Denied(r) PROVE Refuses(a)
<1>1. a \in {Told(401), Told(409), Told(403), Told(400), Bare(401), Bare(403)}
  BY DEF Denied, RunDenied, DeviceDenied
<1>2. \A st \in {400, 401, 403, 409} : st \in Statuses \ {200}  BY DEF Statuses
<1> QED  BY <1>1, <1>2, PlainRefuses

(* What a verb comes to is honest, and what is done is answered with 200. *)
LEMMA OutcomesHonest ==
  ASSUME NEW r, r.verb \in RunVerbs \cup OwnerVerbs, there \in BOOLEAN, NEW a \in Outcomes(r)
  PROVE  /\ a \in Answers
         /\ a.done => a.st = 200
         /\ r.step = "main" => Honest(r, a)
<1> DEFINE found == there \/ r.step = "main"
           listed == [Done(r) EXCEPT !.done = found]
           quiet == [Done(r) EXCEPT !.text = FALSE]
           lost == Answer(200, TRUE, "0", FALSE)
<1>1. CASE a = Done(r)  BY <1>1 DEF Done, Answer, Answers, Statuses, Honest
<1>2. CASE a = listed
  <2>1. found \in BOOLEAN /\ (r.step = "main" => found)  OBVIOUS
  <2> HIDE DEF found
  <2> QED  BY <1>2, <2>1 DEF Done, Answer, Answers, Statuses, Honest
<1>3. CASE a = quiet  BY <1>3 DEF Done, Answer, Answers, Statuses, Honest
<1>4. CASE a \in {Bare(400), Bare(404), Told(400), Told(403), Told(404)}
  <2>1. \A st \in {400, 403, 404} : st \in Statuses \ {200}  BY DEF Statuses
  <2>2. Refuses(a)  BY <1>4, <2>1, PlainRefuses
  <2> QED  BY <2>2 DEF Refuses, Honest
<1>5. CASE a = lost /\ Verb(r) = "show" /\ r.inRun /\ ~there
  <2>1. a \in Answers /\ ~a.done  BY <1>5 DEF Answer, Answers, Statuses
  <2>2. r.step = "main" => r.verb = "show"  BY <1>5 DEF Verb
  <2> QED  BY <1>5, <2>1, <2>2 DEF Honest, Excused
<1> HIDE DEF found, listed, quiet, lost
<1>6. \/ a = Done(r) \/ a = listed \/ a = quiet
      \/ a \in {Bare(400), Bare(404), Told(400), Told(403), Told(404)}
      \/ a = lost /\ Verb(r) = "show" /\ r.inRun /\ ~there
  <2> DEFINE v == Verb(r)
  <2>1. v \in {"loops", "home", "progress", "new", "edit", "report", "log", "show"}
    BY DEF Verb, RunVerbs, OwnerVerbs
  <2>2. CASE v \in {"loops", "home", "progress"}  BY <2>2 DEF Outcomes, found, listed, quiet
  <2>3. CASE v \in {"new", "edit", "report"}  BY <2>3 DEF Outcomes
  <2>4. CASE v = "log"  BY <2>4 DEF Outcomes
  <2>5. CASE v = "show"  BY <2>5 DEF Outcomes, lost
  <2> QED  BY <2>1, <2>2, <2>3, <2>4, <2>5
<1> QED  BY <1>1, <1>2, <1>3, <1>4, <1>5, <1>6

(* On the way to the caller an answer changes its wording only. *)
LEMMA SentSame ==
  ASSUME NEW r, NEW a \in Answers
  PROVE  /\ Sent(r, a) \in Answers /\ Sent(r, a).st = a.st /\ Sent(r, a).done = a.done
         /\ CodeOf(Sent(r, a)) = CodeOf(a)
<1>1. CASE Sent(r, a) = a  BY <1>1
<1>2. CASE Sent(r, a) = Finalized(a)
  <2> DEFINE c == IF a.code # "none" THEN a.code ELSE IF a.st = 200 THEN "0" ELSE "1"
             f == [a EXCEPT !.text = TRUE, !.code = c]
  <2>1. c \in {"0", "1"}  BY DEF Answers
  <2>2. CodeOf(a) = IF c = "0" THEN 0 ELSE 1  BY DEF CodeOf, Answers
  <2>3. Sent(r, a) = f  BY <1>2 DEF Finalized
  <2> HIDE DEF c
  <2>4. f \in Answers /\ f.st = a.st /\ f.done = a.done /\ f.code = c  BY <2>1 DEF Answers
  <2> HIDE DEF f
  <2> QED  BY <2>1, <2>2, <2>3, <2>4 DEF CodeOf
<1>3. CASE Sent(r, a) = [a EXCEPT !.text = a.text /\ Credential(r) = "run"]
  <2> DEFINE text == a.text /\ Credential(r) = "run"
             f == [a EXCEPT !.text = text]
  <2>1. text \in BOOLEAN  BY DEF Answers
  <2> HIDE DEF text
  <2>2. f \in Answers /\ f.st = a.st /\ f.done = a.done /\ f.code = a.code  BY <2>1 DEF Answers
  <2>3. Sent(r, a) = f  BY <1>3 DEF text
  <2> HIDE DEF f
  <2> QED  BY <2>2, <2>3 DEF CodeOf
<1> QED  BY <1>1, <1>2, <1>3 DEF Sent

(***************************************************************************)
(* Calls.                                                                  *)
(***************************************************************************)
LEMMA CallTyped ==
  ASSUME NEW r \in Calls
  PROVE  /\ r.ans \in Answers /\ r.ans.done \in BOOLEAN /\ r.ans.st \in Statuses
         /\ r.why \subseteq {"old", "failed", "gone", "lost"}
         /\ r.verb \in RunVerbs \cup OwnerVerbs \cup {""} /\ r.inRun \in BOOLEAN
<1>1. r.ans \in Answers /\ r.why \in SUBSET {"old", "failed", "gone", "lost"} /\ r.inRun \in BOOLEAN
      /\ r.verb \in RunVerbs \cup OwnerVerbs \cup {""}
  BY DEF Calls
<1>2. r.ans.done \in BOOLEAN /\ r.ans.st \in Statuses  BY <1>1 DEF Answers
<1> QED  BY <1>1, <1>2

LEMMA NoCallTyped == NoCall \in Calls
<1>1. NoAnswer \in Answers  BY DEF NoAnswer, Answer, Answers, Statuses
<1>2. {} \in SUBSET {"old", "failed", "gone", "lost"}  OBVIOUS
<1> QED  BY <1>1, <1>2 DEF NoCall, Calls, Sayings

LEMMA ExitTyped ==
  ASSUME NEW r \in Calls, NEW code \in Codes, NEW said \in Sayings
  PROVE  /\ Exit(r, code, said) \in Calls
         /\ Exit(r, code, said).pc = "over" /\ Exit(r, code, said).exit = code
         /\ Exit(r, code, said).verb = r.verb /\ Exit(r, code, said).inRun = r.inRun
         /\ Exit(r, code, said).ans.done = r.ans.done /\ Exit(r, code, said).to = "cli"
         /\ Exit(r, code, said).said = said /\ Exit(r, code, said).why = r.why
<1> DEFINE done == r.ans.done
           ans == [NoAnswer EXCEPT !.done = done]
           verb == r.verb
           inRun == r.inRun
           why == r.why
<1>0. done \in BOOLEAN  BY CallTyped
<1>1. Exit(r, code, said)
      = [NoCall EXCEPT !.pc = "over", !.verb = verb, !.inRun = inRun, !.exit = code, !.said = said,
                       !.ans = ans, !.why = why]
  BY DEF Exit
<1>2. ans \in Answers /\ ans.done = r.ans.done
  <2> HIDE DEF done
  <2>1. ans \in Answers /\ ans.done = done  BY <1>0 DEF NoAnswer, Answer, Answers, Statuses
  <2> QED  BY <2>1 DEF done
<1>3. /\ verb \in RunVerbs \cup OwnerVerbs \cup {""} /\ inRun \in BOOLEAN
      /\ why \in SUBSET {"old", "failed", "gone", "lost"}
  BY CallTyped
<1> HIDE DEF done, ans, verb, inRun, why
<1> DEFINE e == Exit(r, code, said)
<1> HIDE DEF e
<1>4. e = [NoCall EXCEPT !.pc = "over", !.verb = verb, !.inRun = inRun, !.exit = code, !.said = said,
                         !.ans = ans, !.why = why]
  BY <1>1 DEF e
<1> DEFINE f == [NoCall EXCEPT !.pc = "over", !.verb = verb, !.inRun = inRun]
           g == [f EXCEPT !.exit = code, !.said = said, !.ans = ans, !.why = why]
<1>5. e \in Calls
  <2>1. f \in Calls  BY <1>3, NoCallTyped DEF Calls
  <2>2. e = g  BY <1>4
  <2> HIDE DEF f
  <2>3. g \in Calls  BY <1>2, <1>3, <2>1 DEF Calls
  <2> QED  BY <2>2, <2>3
<1>6. /\ e.pc = "over" /\ e.exit = code /\ e.verb = verb /\ e.inRun = inRun /\ e.ans = ans
      /\ e.said = said /\ e.why = why
  BY <1>4, NoCallTyped DEF Calls
<1>7. e.to = "cli"
  <2>1. NoCall.to = "cli"  BY DEF NoCall
  <2> QED  BY <1>4, <2>1, NoCallTyped DEF Calls
<1> QED  BY <1>2, <1>5, <1>6, <1>7 DEF e, verb, inRun, why

LEMMA BackTyped ==
  ASSUME NEW r \in Calls, NEW a \in Answers
  PROVE  /\ Back(r, a) \in Calls
         /\ Back(r, a).pc = "back" /\ Back(r, a).ans = a /\ Back(r, a).step = r.step
         /\ Back(r, a).verb = r.verb /\ Back(r, a).inRun = r.inRun
         /\ Back(r, a).to = r.to /\ Back(r, a).why = Cause(r, a) /\ Back(r, a).said = r.said
<1> DEFINE w == Cause(r, a)
<1>1. w \in SUBSET {"old", "failed", "gone", "lost"}  BY CallTyped DEF Cause
<1> HIDE DEF w
<1>2. Back(r, a) = [r EXCEPT !.pc = "back", !.ans = a, !.why = w]  BY DEF Back, w
<1>3. /\ Back(r, a) \in Calls /\ Back(r, a).pc = "back" /\ Back(r, a).ans = a
      /\ Back(r, a).step = r.step /\ Back(r, a).verb = r.verb /\ Back(r, a).inRun = r.inRun
      /\ Back(r, a).to = r.to /\ Back(r, a).why = w /\ Back(r, a).said = r.said
  BY <1>1, <1>2 DEF Calls
<1> QED  BY <1>3 DEF w

LEMMA OfferedVerbs ==
  ASSUME NEW r \in Calls, r.verb \in Offered(r.inRun)
  PROVE  r.verb \in RunVerbs \cup OwnerVerbs /\ (r.verb = "progress" => Lenient(r))
  BY DEF Offered, RunVerbs, OwnerVerbs, Lenient

(***************************************************************************)
(* The steps.                                                              *)
(***************************************************************************)
(* A call that ends now: with 0 it did what it was asked for, or is lenient. *)
LEMMA EndsOK ==
  ASSUME IInv, NEW r \in Calls, r.verb \in Offered(r.inRun),
         NEW code \in Codes, NEW said \in Sayings,
         code = 0 => Lenient(r) \/ r.ans.done \/ Excused(r),
         call' = Exit(r, code, said), hits' \in {0, 1},
         UNCHANGED world
  PROVE  IInv'
<1> DEFINE e == Exit(r, code, said)
<1>0. /\ e \in Calls /\ e.pc = "over" /\ e.exit = code
      /\ e.verb = r.verb /\ e.inRun = r.inRun /\ e.ans.done = r.ans.done
  <2>1. r \in Calls /\ code \in Codes /\ said \in Sayings  OBVIOUS
  <2> QED  BY ONLY <2>1, ExitTyped
<1> HIDE DEF e
<1>1. /\ call' \in Calls /\ call'.pc = "over" /\ call'.exit = code
      /\ call'.verb = r.verb /\ call'.inRun = r.inRun /\ call'.ans.done = r.ans.done
  <2>1. call' = e  BY DEF e
  <2> QED  BY <1>0, <2>1
<1>2. Typed'  BY <1>1 DEF IInv, Typed, world, Offered
<1>3. AskedOnce'  BY <1>1 DEF AskedOnce
<1>4. ZeroMeansDone'  BY <1>1 DEF ZeroMeansDone, Lenient, Excused, world
<1> QED  BY <1>1, <1>2, <1>3, <1>4 DEF IInv

(* A request goes out, or has come in: what the call was asked is still to be done. *)
LEMMA AsksOK ==
  ASSUME IInv, hits = 0, hits' = 0, UNCHANGED world,
         call' \in Calls, call'.pc \in {"sent", "in"}, call'.verb \in Offered(call'.inRun)
  PROVE  IInv'
  BY DEF IInv, Typed, AskedOnce, ZeroMeansDone, world, Offered

(* An answer comes back. *)
LEMMA AnsweredOK ==
  ASSUME IInv, NEW a \in Answers, call.pc # "unborn", call' = Back(call, a), hits' \in {0, 1},
         call.step = "main" => Honest(call, a),
         hits' = 1 => call.step = "main" /\ a.st # 404,
         UNCHANGED world
  PROVE  IInv'
<1>1. /\ call' \in Calls /\ call'.pc = "back" /\ call'.ans = a /\ call'.step = call.step
      /\ call'.verb = call.verb /\ call'.inRun = call.inRun
  BY BackTyped DEF IInv, Typed
<1>2. Typed'  BY <1>1 DEF IInv, Typed, world, Offered
<1>3. AskedOnce'  BY <1>1 DEF AskedOnce
<1>5. (call.pc = "back" /\ call.step = "main" /\ call.ans.text => Honest(call, call.ans))'
  <2> SUFFICES ASSUME call'.step = "main" PROVE Honest(call, call.ans)'
    OBVIOUS
  <2>1. Honest(call, a)  BY <1>1
  <2> QED  BY <1>1, <2>1 DEF Honest, Excused, world, CodeOf
<1>6. ZeroMeansDone'  BY <1>1 DEF ZeroMeansDone
<1> QED  BY <1>2, <1>3, <1>5, <1>6 DEF IInv

LEMMA BlamesTyped == ASSUME NEW verb, NEW inRun \in BOOLEAN PROVE Blames(verb, inRun) \subseteq Codes
<1>1. Blames(verb, inRun) \in {{}, {0}, {1}, {2}, {1, 2}}  BY DEF Blames
<1> QED  BY <1>1 DEF Codes

LEMMA MisusedStep ==
  ASSUME IInv, NEW verb, NEW inRun \in BOOLEAN, Misused(verb, inRun) PROVE IInv'
<1> DEFINE r == [NoCall EXCEPT !.verb = verb, !.inRun = inRun]
<1>1. verb \in Offered(inRun) /\ verb \in RunVerbs \cup OwnerVerbs  BY DEF Misused, Offered
<1>2. r \in Calls /\ r.verb = verb /\ r.inRun = inRun  BY <1>1, NoCallTyped DEF Calls
<1>3. PICK code \in Blames(verb, inRun) : call' = Exit(r, code, "")  BY DEF Misused
<1> HIDE DEF r
<1>4. code \in Codes /\ (code = 0 => Lenient(r))
  <2>0. code \in Blames(verb, inRun)  BY <1>3
  <2>1. CASE verb = "home" \/ inRun \/ verb = "report" \/ verb = "new"
    <3>1. verb = "home" => Blames(verb, inRun) = {}  BY DEF Blames
    <3>2. verb # "home" /\ (inRun \/ verb = "report") => Blames(verb, inRun) = {1}  BY DEF Blames
    <3>3. verb = "new" /\ ~inRun => Blames(verb, inRun) = {1, 2}  BY DEF Blames
    <3> QED  BY <2>0, <2>1, <3>1, <3>2, <3>3 DEF Codes
  <2>2. CASE verb = "progress" /\ ~inRun  BY <1>2, <1>3, <2>2 DEF Blames, Lenient, Codes
  <2>3. CASE ~inRun /\ verb \notin {"home", "report", "new", "progress"}
    <3>1. Blames(verb, inRun) = {2}  BY <2>3 DEF Blames
    <3> QED  BY <2>0, <3>1 DEF Codes
  <2> QED  BY <2>1, <2>2, <2>3
<1>5. hits' \in {0, 1} /\ UNCHANGED world /\ "" \in Sayings
  BY DEF Misused, IInv, AskedOnce, Sayings
<1> QED  BY <1>1, <1>2, <1>3, <1>4, <1>5, EndsOK

LEMMA StartStep ==
  ASSUME IInv, NEW verb, NEW inRun \in BOOLEAN, Start(verb, inRun) PROVE IInv'
<1> DEFINE step == FirstStep(verb, inRun)
           r == [NoCall EXCEPT !.pc = "sent", !.verb = verb, !.inRun = inRun, !.step = step]
           code == IF Lenient(r) THEN 0 ELSE 2
<1>1. verb \in Offered(inRun) /\ verb \in RunVerbs \cup OwnerVerbs  BY DEF Start, Offered
<1>2. step \in {"list", "main"}  BY DEF FirstStep
<1>3. call' = IF Credential(r) = "none" THEN Exit(r, code, "") ELSE r
  BY DEF Start
<1> HIDE DEF step
<1>4. r \in Calls /\ r.pc = "sent" /\ r.verb = verb /\ r.inRun = inRun
  BY <1>1, <1>2, NoCallTyped DEF Calls
<1>5. hits = 0 /\ hits' = 0 /\ UNCHANGED world /\ "" \in Sayings
  BY DEF Start, IInv, AskedOnce, Sayings
<1> HIDE DEF r
<1>6. CASE Credential(r) = "none"
  <2>1. code \in Codes /\ (code = 0 => Lenient(r))  BY DEF Codes
  <2> HIDE DEF code
  <2>2. call' = Exit(r, code, "")  BY <1>3, <1>6
  <2> QED  BY <1>1, <1>4, <1>5, <2>1, <2>2, EndsOK
<1>7. CASE Credential(r) # "none"  BY <1>1, <1>3, <1>4, <1>5, <1>7, AsksOK
<1> QED  BY <1>6, <1>7

LEMMA AdmitStep == ASSUME IInv, Admit PROVE IInv'
<1>1. call.pc = "sent" /\ UNCHANGED world /\ hits = 0 /\ hits' = 0 /\ call \in Calls
  BY DEF Admit, IInv, Typed, AskedOnce
<1>2. ASSUME NEW a \in Answers, Refuses(a), call' = Back(call, a) PROVE IInv'
  BY <1>1, <1>2, AnsweredOK DEF Refuses, Honest
<1>3. CASE \E a \in Refusals(call) : call' = Back(call, a)
  BY <1>2, <1>3, RefusalsRefuse DEF Refuses
<1>4. CASE \E a \in Denied(call) : call' = Back(call, Sent(call, a))
  <2>1. PICK a \in Denied(call) : call' = Back(call, Sent(call, a))  BY <1>4
  <2>2. Refuses(a)  BY DenialsRefuse
  <2>3. Refuses(Sent(call, a))  BY <2>2, SentSame DEF Refuses
  <2> QED  BY <1>2, <2>1, <2>3 DEF Refuses
<1>5. CASE call' = [call EXCEPT !.pc = "in"]
  <2>1. call' \in Calls /\ call'.pc = "in" /\ call'.verb = call.verb /\ call'.inRun = call.inRun
    BY <1>1, <1>5 DEF Calls
  <2>2. call'.verb \in Offered(call'.inRun)  BY <1>1, <2>1 DEF IInv, Typed
  <2> QED  BY <1>1, <2>1, <2>2, AsksOK
<1> QED  BY <1>3, <1>4, <1>5 DEF Admit

(* What is under way took no effect yet; what takes effect now was asked for by name. *)
LEMMA TookOnce ==
  ASSUME IInv, call.pc \in {"sent", "in"}, NEW a, Took(call, a)
  PROVE  hits' \in {0, 1} /\ (hits' = 1 => a.done /\ call.step = "main")
<1>1. hits = 0  BY DEF IInv, AskedOnce
<1>2. call.step = "list" => Verb(call) \notin Mutating  BY DEF Verb, Mutating
<1>3. call.step \in {"list", "main"}  BY DEF IInv, Typed, Calls
<1> QED  BY <1>1, <1>2, <1>3 DEF Took

LEMMA ServeStep == ASSUME IInv, Serve PROVE IInv'
<1>1. call.pc = "in" /\ UNCHANGED world  BY DEF Serve
<1>2. PICK a \in Outcomes(call) : Took(call, a) /\ call' = Back(call, Sent(call, a))  BY DEF Serve
<1>3. /\ a \in Answers /\ (a.done => a.st = 200)
      /\ call.step = "main" => Honest(call, a)
  BY <1>1, OutcomesHonest, OfferedVerbs DEF IInv, Typed
<1>4. hits' \in {0, 1} /\ (hits' = 1 => a.done /\ call.step = "main")  BY <1>1, <1>2, TookOnce
<1>5. /\ Sent(call, a) \in Answers /\ Sent(call, a).st = a.st
      /\ call.step = "main" => Honest(call, Sent(call, a))
  BY <1>3, SentSame DEF Honest
<1> QED  BY <1>1, <1>2, <1>3, <1>4, <1>5, AnsweredOK

LEMMA ThrownTyped ==
  ASSUME there \in BOOLEAN, NEW r, r.verb \in RunVerbs \cup OwnerVerbs,
         NEW a \in Outcomes(r) \cup {Bare(500)}
  PROVE  LET b == [Bare(500) EXCEPT !.done = a.done]
         IN  b \in Answers /\ b.st = 500 /\ CodeOf(b) = 1
<1> DEFINE done == a.done
           c == Bare(500)
           b == [c EXCEPT !.done = done]
<1>1. a \in Answers
  <2>1. Bare(500) \in Answers  BY Plain DEF Statuses
  <2> QED  BY <2>1, OutcomesHonest
<1>2. done \in BOOLEAN  BY <1>1 DEF Answers
<1>3. c \in Answers /\ c.st = 500 /\ c.code = "none"  BY Plain DEF Statuses
<1> HIDE DEF done, c
<1>4. b.st = 500 /\ b.code = "none" /\ b \in Answers  BY <1>2, <1>3 DEF Answers
<1> HIDE DEF b
<1>5. CodeOf(b) = 1  BY <1>4 DEF CodeOf
<1> QED  BY <1>4, <1>5 DEF b, c, done

LEMMA ThrowsStep == ASSUME IInv, Throws PROVE IInv'
<1>1. call.pc = "in" /\ UNCHANGED world  BY DEF Throws
<1>2. PICK a \in Outcomes(call) \cup {Bare(500)} :
        Took(call, a) /\ call' = Back(call, [Bare(500) EXCEPT !.done = a.done])
  BY DEF Throws
<1> DEFINE b == [Bare(500) EXCEPT !.done = a.done]
<1>3. b \in Answers /\ b.st = 500 /\ CodeOf(b) = 1
  BY <1>1, ThrownTyped, OfferedVerbs DEF IInv, Typed
<1>4. hits' \in {0, 1} /\ (hits' = 1 => a.done /\ call.step = "main")  BY <1>1, <1>2, TookOnce
<1>5. call' = Back(call, b)  BY <1>2
<1> HIDE DEF b
<1>6. Honest(call, b)  BY <1>3 DEF Honest
<1> QED  BY <1>1, <1>3, <1>4, <1>5, <1>6, AnsweredOK

LEMMA CutStep == ASSUME IInv, Cut PROVE IInv'
<1> DEFINE code == IF Lenient(call) THEN 0 ELSE 1
<1>1. call.pc \in {"sent", "in", "back"} /\ UNCHANGED world /\ call' = Exit(call, code, "")
  BY DEF Cut
<1>2. PICK a \in (IF call.pc = "in" THEN Outcomes(call) ELSE {NoAnswer}) : Took(call, a)
  BY DEF Cut
<1>3. hits' \in {0, 1}
  <2>1. CASE call.pc = "in"  BY <1>2, <2>1, TookOnce
  <2>2. CASE call.pc # "in"
    <3>1. ~a.done  BY <1>2, <2>2 DEF NoAnswer, Answer
    <3> QED  BY <1>2, <3>1 DEF Took, IInv, AskedOnce
  <2> QED  BY <2>1, <2>2
<1>4. code \in Codes /\ (code = 0 => Lenient(call))  BY DEF Codes
<1> HIDE DEF code
<1>5. call \in Calls /\ call.verb \in Offered(call.inRun) /\ "" \in Sayings
  BY <1>1 DEF IInv, Typed, Sayings
<1> QED  BY <1>1, <1>3, <1>4, <1>5, EndsOK

LEMMA EmptiedTyped ==
  ASSUME NEW r \in Calls
  PROVE  Emptied(r) \in Answers /\ Emptied(r).st = r.ans.st /\ ~Emptied(r).text
<1>1. r.ans \in Answers  BY DEF Calls
<1> DEFINE d == r.ans.done /\ r.step = "main"
<1>2. d \in BOOLEAN  OBVIOUS
<1> HIDE DEF d
<1>3. Emptied(r) = [r.ans EXCEPT !.text = FALSE, !.code = "none", !.done = d]  BY <1>1 DEF Emptied, Answers, d
<1> QED  BY <1>1, <1>2, <1>3 DEF Answers

(* What is lost of an answer leaves its status. *)
LEMMA LostShape ==
  ASSUME IInv, BodyLost
  PROVE  /\ call \in Calls /\ call.pc = "back" /\ UNCHANGED <<world, hits>> /\ call' \in Calls
         /\ call'.pc = "back" /\ call'.ans = Emptied(call) /\ call'.why = call.why \cup {"lost"}
         /\ call'.verb = call.verb /\ call'.inRun = call.inRun /\ call'.to = call.to
         /\ call'.step = call.step /\ call'.exit = call.exit /\ call'.said = call.said
<1>1. call \in Calls /\ call.pc = "back"  BY DEF BodyLost, IInv, Typed
<1> DEFINE a == Emptied(call)
           w == call.why \cup {"lost"}
<1>2. a \in Answers  BY <1>1, EmptiedTyped
<1>3. w \in SUBSET {"old", "failed", "gone", "lost"}  BY <1>1 DEF Calls
<1>4. call' = [call EXCEPT !.ans = a, !.why = w] /\ UNCHANGED <<world, hits>>  BY <1>1 DEF BodyLost, Calls
<1> HIDE DEF a, w
<1>5. /\ call' \in Calls /\ call'.pc = "back" /\ call'.ans = a /\ call'.why = w
      /\ call'.verb = call.verb /\ call'.inRun = call.inRun /\ call'.to = call.to
      /\ call'.step = call.step /\ call'.exit = call.exit /\ call'.said = call.said
  BY <1>1, <1>2, <1>3, <1>4 DEF Calls
<1> QED  BY <1>1, <1>4, <1>5 DEF a, w

LEMMA LostStep == ASSUME IInv, BodyLost PROVE IInv'
<1>1. Typed'  BY LostShape DEF IInv, Typed, world, Offered
<1>2. ~call'.ans.text /\ call'.ans.st = call.ans.st  BY LostShape, EmptiedTyped
<1>3. AskedOnce'  BY <1>2, LostShape DEF IInv, AskedOnce
<1>4. ZeroMeansDone'  BY LostShape DEF ZeroMeansDone
<1>5. (call.pc = "back" /\ call.step = "main" /\ call.ans.text => Honest(call, call.ans))'  BY <1>2 DEF Honest
<1> QED  BY <1>1, <1>3, <1>4, <1>5 DEF IInv

(* The client asks again: what it asked before had no effect. *)
LEMMA FallBackStep == ASSUME IInv, FallBack PROVE IInv'
<1>1. call.pc = "back" /\ call.ans.st = 404 /\ UNCHANGED world  BY DEF FallBack, Fallen, MeansOld
<1>2. hits = 0 /\ hits' = 0  BY <1>1 DEF FallBack, IInv, AskedOnce
<1>3. call \in Calls /\ call.verb \in Offered(call.inRun)  BY <1>1 DEF IInv, Typed
<1>4. CASE call' = [call EXCEPT !.to = "legacy", !.pc = "sent"]
  <2>1. call' \in Calls /\ call'.pc = "sent" /\ call'.verb = call.verb /\ call'.inRun = call.inRun
    BY <1>3, <1>4 DEF Calls
  <2> QED  BY <1>1, <1>2, <1>3, <2>1, AsksOK
<1>5. CASE call' = [call EXCEPT !.to = "legacy", !.ans = Bare(501)]
  <2> DEFINE a == Bare(501)
  <2>0. a \in Answers /\ CodeOf(a) = 1  BY DEF Bare, Answer, Answers, Statuses, CodeOf
  <2>1. call' = [call EXCEPT !.to = "legacy", !.ans = a]  BY <1>5
  <2> HIDE DEF a
  <2>2. /\ call' \in Calls /\ call'.pc = "back" /\ call'.ans = a /\ call'.verb = call.verb
        /\ call'.inRun = call.inRun
    BY <1>1, <1>3, <2>0, <2>1 DEF Calls
  <2>3. Typed'  BY <1>1, <1>3, <2>2 DEF IInv, Typed, world, Offered
  <2>4. AskedOnce' /\ ZeroMeansDone'  BY <1>2, <2>2 DEF AskedOnce, ZeroMeansDone
  <2>5. CodeOf(call.ans)' = 1
    <3>1. CodeOf(call'.ans) = 1  BY <2>0, <2>2
    <3> QED  BY <3>1 DEF CodeOf
  <2> QED  BY <2>3, <2>4, <2>5 DEF IInv, Honest
<1> QED  BY <1>4, <1>5 DEF FallBack

LEMMA ResolveStep == ASSUME IInv, Resolve PROVE IInv'
<1>1. call.pc = "back" /\ call.step = "list" /\ UNCHANGED world  BY DEF Resolve
<1>2. hits = 0 /\ hits' = 0  BY <1>1 DEF Resolve, IInv, AskedOnce
<1>3. call \in Calls /\ call.verb \in Offered(call.inRun)  BY <1>1 DEF IInv, Typed
<1> DEFINE a == NoAnswer
<1>4. a \in Answers  BY DEF NoAnswer, Answer, Answers, Statuses
<1>5. CASE call' = [call EXCEPT !.step = "main", !.to = "cli", !.pc = "sent", !.ans = a]
  <2> HIDE DEF a
  <2>1. call' \in Calls /\ call'.pc = "sent" /\ call'.verb = call.verb /\ call'.inRun = call.inRun
    BY <1>3, <1>4, <1>5 DEF Calls
  <2> QED  BY <1>1, <1>2, <1>3, <2>1, AsksOK
<1>6. CASE \E code \in {1, 2} : call' = Exit([call EXCEPT !.ans = a], code, "")
  <2> DEFINE r == [call EXCEPT !.ans = a]
  <2>1. PICK code \in {1, 2} : call' = Exit(r, code, "")  BY <1>6
  <2> HIDE DEF a
  <2>2. r \in Calls /\ r.verb = call.verb /\ r.inRun = call.inRun  BY <1>3, <1>4 DEF Calls
  <2> HIDE DEF r
  <2>3. code \in Codes /\ code # 0  BY DEF Codes
  <2>4. "" \in Sayings  BY DEF Sayings
  <2>5. hits' \in {0, 1}  BY <1>2
  <2> QED  BY <1>1, <1>3, <2>1, <2>2, <2>3, <2>4, <2>5, EndsOK
<1>7. \/ call' = [call EXCEPT !.step = "main", !.to = "cli", !.pc = "sent", !.ans = a]
      \/ \E code \in {1, 2} : call' = Exit([call EXCEPT !.ans = a], code, "")
  BY DEF Resolve
<1> QED  BY <1>5, <1>6, <1>7

LEMMA RenderStep == ASSUME IInv, Render PROVE IInv'
<1>1. call.pc = "back" /\ call.step = "main" /\ UNCHANGED <<world, hits>>  BY DEF Render
<1>2. /\ call \in Calls /\ call.verb \in Offered(call.inRun) /\ hits' \in {0, 1}
      /\ call.ans.text => Honest(call, call.ans)
  BY <1>1 DEF IInv, Typed, AskedOnce
<1>3. UNCHANGED world /\ 0 \in Codes /\ "" \in Sayings /\ "too old" \in Sayings
  BY <1>1 DEF Codes, Sayings
<1>4. CASE Lenient(call) /\ call' = Exit(call, 0, "")
  BY <1>2, <1>3, <1>4, EndsOK
<1>5. CASE call.ans.text /\ call' = Exit(call, CodeOf(call.ans), "text")
  <2> DEFINE code == CodeOf(call.ans)
  <2>1. code \in Codes /\ "text" \in Sayings  BY DEF CodeOf, Codes, Sayings
  <2>2. code = 0 => call.ans.done \/ Excused(call)  BY <1>2, <1>5 DEF Honest
  <2>3. call' = Exit(call, code, "text")  BY <1>5
  <2> HIDE DEF code
  <2> QED  BY <1>2, <1>3, <2>1, <2>2, <2>3, EndsOK
<1>6. CASE call' = Exit(call, 1, "too old")
  <2> DEFINE code == 1
             said == "too old"
  <2>1. code # 0 /\ code \in Codes  BY DEF Codes
  <2>2. said \in Sayings  BY <1>3
  <2>3. call' = Exit(call, code, said)  BY <1>6
  <2> HIDE DEF code, said
  <2> QED  BY <1>2, <1>3, <2>1, <2>2, <2>3, EndsOK
<1>7. call.verb = "progress" => Lenient(call)  BY <1>2, OfferedVerbs
<1> QED  BY <1>4, <1>5, <1>6, <1>7 DEF Render

LEMMA WorldStep == ASSUME IInv, Deploy \/ LoopDeleted \/ LeaseEnds PROVE IInv'
<1>0. there \in BOOLEAN  BY DEF IInv, Typed
<1>1. UNCHANGED <<call, hits>> /\ there' \in BOOLEAN /\ (there' => there)
  <2>1. CASE Deploy  BY <1>0, <2>1 DEF Deploy
  <2>2. CASE LoopDeleted  BY <2>2 DEF LoopDeleted
  <2>3. CASE LeaseEnds  BY <1>0, <2>3 DEF LeaseEnds
  <2> QED  BY <2>1, <2>2, <2>3
<1>2. Typed'
  <2>1. CASE Deploy  BY <1>1, <2>1, TransportBounds DEF Deploy, IInv, Typed, Offered
  <2>2. CASE LoopDeleted  BY <1>1, <2>2 DEF LoopDeleted, IInv, Typed, Offered
  <2>3. CASE LeaseEnds  BY <1>1, <2>3 DEF LeaseEnds, IInv, Typed, Offered
  <2> QED  BY <2>1, <2>2, <2>3
<1>3. (call.pc = "back" /\ call.step = "main" /\ call.ans.text => Honest(call, call.ans))'
  BY <1>1 DEF IInv, Honest, Excused, CodeOf
<1>4. AskedOnce'  BY <1>1 DEF IInv, AskedOnce
<1>5. ZeroMeansDone'  BY <1>1 DEF IInv, ZeroMeansDone, Lenient
<1> QED  BY <1>2, <1>3, <1>4, <1>5 DEF IInv

LEMMA InitIInv == CallInit => IInv
<1> SUFFICES ASSUME CallInit PROVE IInv
  OBVIOUS
<1>1. call = NoCall /\ call.pc = "unborn" /\ hits = 0  BY DEF CallInit, NoCall
<1>2. Typed  BY <1>1, NoCallTyped, TransportBounds DEF CallInit, Typed
<1> QED  BY <1>1, <1>2 DEF IInv, AskedOnce, ZeroMeansDone

LEMMA StepIInv == IInv /\ [CallNext]_callVars => IInv'
<1> SUFFICES ASSUME IInv, [CallNext]_callVars PROVE IInv'
  OBVIOUS
<1>1. CASE CallNext
  BY <1>1, MisusedStep, StartStep, AdmitStep, ServeStep, ThrowsStep, CutStep, LostStep, FallBackStep,
     ResolveStep, RenderStep, WorldStep
  DEF CallNext
<1>2. CASE UNCHANGED callVars
  BY <1>2 DEF callVars, world, IInv, Typed, AskedOnce, ZeroMeansDone, Lenient, Honest, Excused, CodeOf, Offered
<1> QED  BY <1>1, <1>2

(* The calls are sound: the invariant of the first kind. *)
THEOREM CallIsSound == CallSpec => []IInv
  BY InitIInv, StepIInv, PTL DEF CallSpec

(* The type invariant. *)
THEOREM CallTypeOKHolds == CallSpec => []CallTypeOK
<1>1. ASSUME IInv PROVE CallTypeOK
  <2>1. /\ call.pc \in {"unborn", "sent", "in", "back", "over"} /\ call.to \in {"cli", "legacy"}
        /\ call.step \in {"list", "main"} /\ call.exit \in {0, 1, 2, 9}
        /\ call.said \in {"", "text", "too old"} /\ call.why \in SUBSET {"old", "failed", "gone", "lost"}
    BY <1>1 DEF IInv, Typed, Calls, Codes, Sayings
  <2>2. hits \in 0..2  BY <1>1 DEF IInv, AskedOnce
  <2> QED  BY <1>1, <2>1, <2>2 DEF IInv, Typed, CallTypeOK
<1> QED  BY <1>1, CallIsSound, PTL

(* postCli: one command takes effect once, whatever came between its requests. *)
THEOREM TakesEffectOnceHolds == CallSpec => []TakesEffectOnce
<1>1. IInv => TakesEffectOnce  BY DEF IInv, AskedOnce, TakesEffectOnce
<1> QED  BY <1>1, CallIsSound, PTL

(* A command that ends with 0 did what it was asked for. *)
THEOREM ZeroMeansDoneHolds == CallSpec => []ZeroMeansDone
<1>1. IInv => ZeroMeansDone  BY DEF IInv
<1> QED  BY <1>1, CallIsSound, PTL

(***************************************************************************)
(* What a call is called, and what it may do: on top of IInv, which it     *)
(* uses and does not disturb.                                              *)
(***************************************************************************)
(* The client asks the endpoint of before only after an answer that has a cause; *)
(* a run is let in only where it may act.                                        *)
Caused ==
  /\ call.to = "legacy" => call.why # {}
  /\ call.pc = "back" /\ (~call.ans.text \/ call.ans.st = 404) => call.why # {}
  /\ TooOldHasCause
Entitled ==
  /\ call.pc = "in" /\ call.inRun => Verb(call) \notin {"new", "edit"}
  /\ RunActsAsRun
JInv == Caused /\ Entitled

(* An answer without a text, or one that means an old server, has a cause. *)
Blamed(r, a) == ~a.text \/ a.st = 404 => Cause(r, a) # {}

LEMMA SentIsBlamed ==
  ASSUME NEW r \in Calls, NEW a \in Answers, r.to = "legacy" => r.why # {}
  PROVE  Blamed(r, Sent(r, a))
<1>1. CASE server # "text"
  <2>1. "old" \in Cause(r, Sent(r, a))  BY <1>1 DEF Cause
  <2> QED  BY <2>1 DEF Blamed
<1>2. CASE server = "text" /\ Sent(r, a).st = 404
  <2>1. "gone" \in Cause(r, Sent(r, a))  BY <1>2 DEF Cause
  <2> QED  BY <2>1 DEF Blamed
<1>3. CASE r.to = "legacy"
  <2>1. r.why \subseteq Cause(r, Sent(r, a))  BY DEF Cause
  <2> QED  BY <1>3, <2>1 DEF Blamed
<1>4. CASE server = "text" /\ r.to = "cli" /\ Sent(r, a).st # 404
  <2>1. Sent(r, a) = Finalized(a)  BY <1>4 DEF Sent
  <2>2. Finalized(a).text  BY DEF Finalized, Answers
  <2> QED  BY <1>4, <2>1, <2>2 DEF Blamed
<1>5. r.to \in {"cli", "legacy"}  BY DEF Calls
<1> QED  BY <1>1, <1>2, <1>3, <1>4, <1>5

LEMMA EndsEntitled ==
  ASSUME NEW r \in Calls, NEW code \in Codes, NEW said \in Sayings, call' = Exit(r, code, said),
         said = "too old" => r.why # {},
         r.inRun /\ hits' > 0 => r.verb = "report"
  PROVE  JInv'
<1> DEFINE e == Exit(r, code, said)
<1>1. /\ e.pc = "over" /\ e.to = "cli" /\ e.verb = r.verb /\ e.inRun = r.inRun
      /\ e.said = said /\ e.why = r.why
  <2>1. r \in Calls /\ code \in Codes /\ said \in Sayings  OBVIOUS
  <2> QED  BY ONLY <2>1, ExitTyped
<1>2. call' = e  OBVIOUS
<1> HIDE DEF e
<1> QED  BY <1>1, <1>2 DEF JInv, Caused, Entitled, TooOldHasCause, RunActsAsRun

LEMMA AnsweredEntitled ==
  ASSUME IInv, JInv, NEW a \in Answers, call' = Back(call, a), Blamed(call, a),
         call.inRun /\ hits' > 0 => call.verb = "report"
  PROVE  JInv'
<1>0. call \in Calls  BY DEF IInv, Typed
<1>1. /\ call'.pc = "back" /\ call'.ans = a /\ call'.verb = call.verb /\ call'.inRun = call.inRun
      /\ call'.to = call.to /\ call'.why = Cause(call, a) /\ call'.said = call.said
  BY <1>0, BackTyped
<1>2. call.why \subseteq call'.why  BY <1>1 DEF Cause
<1>3. Caused'  BY <1>1, <1>2 DEF JInv, Caused, Blamed, TooOldHasCause
<1>4. Entitled'  BY <1>1 DEF Entitled, RunActsAsRun
<1> QED  BY <1>3, <1>4 DEF JInv

(* What a run is let in for takes effect as a report, or not at all. *)
LEMMA TookEntitled ==
  ASSUME IInv, JInv, NEW a, Took(call, a), call.pc = "in" \/ ~a.done
  PROVE  call.inRun /\ hits' > 0 => call.verb = "report"
<1>1. hits \in {0, 1}  BY DEF IInv, AskedOnce
<1>2. CASE hits' = hits  BY <1>2 DEF JInv, Entitled, RunActsAsRun
<1>3. CASE a.done /\ Verb(call) \in Mutating
  <2>1. call.verb = Verb(call)  BY <1>3 DEF Verb, Mutating
  <2> QED  BY <1>3, <2>1 DEF JInv, Entitled, Mutating
<1> QED  BY <1>2, <1>3 DEF Took

LEMMA RunEntitled ==
  ASSUME NEW r, r.inRun, Denied(r) = {} PROVE Verb(r) \notin {"new", "edit"}
<1>1. RunDenied(r) = {}  BY DEF Denied, Credential
<1>2. held = "live" /\ Verb(r) \in {"new", "edit"} => Told(IF r.to = "cli" THEN 403 ELSE 400) \in RunDenied(r)
  BY DEF RunDenied
<1>3. held # "live" => Told(IF held = "gone" THEN 401 ELSE 409) \in RunDenied(r)  BY DEF RunDenied
<1> QED  BY <1>1, <1>2, <1>3

LEMMA AdmitJ == ASSUME IInv, JInv, Admit PROVE JInv'
<1>1. call.pc = "sent" /\ hits' = hits /\ hits = 0 /\ call \in Calls
  BY DEF Admit, IInv, Typed, AskedOnce
<1>2. ASSUME NEW a \in Answers, Blamed(call, a), call' = Back(call, a) PROVE JInv'
  BY <1>1, <1>2, AnsweredEntitled
<1>3. CASE \E a \in Refusals(call) : call' = Back(call, a)
  <2>1. PICK a \in Refusals(call) : call' = Back(call, a)  BY <1>3
  <2>2. a \in Answers  BY RefusalsRefuse DEF Refuses
  <2>3. Blamed(call, a)
    <3>1. CASE a = Told(413)  BY <3>1 DEF Told, Answer, Blamed
    <3>2. CASE a \in {Bare(413), Bare(429)}
      <4>1. "failed" \in Cause(call, a)  BY <3>2 DEF Bare, Answer, Cause
      <4> QED  BY <4>1 DEF Blamed
    <3>3. CASE server = "old"
      <4>1. "old" \in Cause(call, a)  BY <3>3 DEF Cause
      <4> QED  BY <4>1 DEF Blamed
    <3> QED  BY <3>1, <3>2, <3>3 DEF Refusals
  <2> QED  BY <1>2, <2>1, <2>2, <2>3
<1>4. CASE \E a \in Denied(call) : call' = Back(call, Sent(call, a))
  <2>1. PICK a \in Denied(call) : call' = Back(call, Sent(call, a))  BY <1>4
  <2>2. a \in Answers  BY DenialsRefuse DEF Refuses
  <2>3. Sent(call, a) \in Answers /\ Blamed(call, Sent(call, a))
    BY <1>1, <2>2, SentSame, SentIsBlamed DEF JInv, Caused
  <2> QED  BY <1>2, <2>1, <2>3
<1>5. CASE Denied(call) = {} /\ call' = [call EXCEPT !.pc = "in"]
  <2>1. /\ call'.pc = "in" /\ call'.verb = call.verb /\ call'.inRun = call.inRun /\ call'.step = call.step
        /\ call'.to = call.to /\ call'.why = call.why /\ call'.said = call.said
    BY <1>1, <1>5 DEF Calls
  <2>2. call.inRun => Verb(call) \notin {"new", "edit"}  BY <1>5, RunEntitled
  <2>3. Verb(call)' = Verb(call)  BY <2>1 DEF Verb
  <2> QED  BY <1>1, <2>1, <2>2, <2>3 DEF JInv, Caused, Entitled, TooOldHasCause, RunActsAsRun
<1> QED  BY <1>3, <1>4, <1>5 DEF Admit

LEMMA ServeJ == ASSUME IInv, JInv, Serve PROVE JInv'
<1>1. call.pc = "in" /\ call \in Calls  BY DEF Serve, IInv, Typed
<1>2. PICK a \in Outcomes(call) : Took(call, a) /\ call' = Back(call, Sent(call, a))  BY DEF Serve
<1>3. a \in Answers  BY <1>1, OutcomesHonest, OfferedVerbs DEF IInv, Typed
<1>4. Sent(call, a) \in Answers /\ Blamed(call, Sent(call, a))
  BY <1>1, <1>3, SentSame, SentIsBlamed DEF JInv, Caused
<1>5. call.inRun /\ hits' > 0 => call.verb = "report"  BY <1>1, <1>2, TookEntitled
<1> QED  BY <1>2, <1>4, <1>5, AnsweredEntitled

LEMMA ThrowsJ == ASSUME IInv, JInv, Throws PROVE JInv'
<1>1. call.pc = "in" /\ call \in Calls  BY DEF Throws, IInv, Typed
<1>2. PICK a \in Outcomes(call) \cup {Bare(500)} :
        Took(call, a) /\ call' = Back(call, [Bare(500) EXCEPT !.done = a.done])
  BY DEF Throws
<1> DEFINE b == [Bare(500) EXCEPT !.done = a.done]
<1>3. b \in Answers /\ b.st = 500 /\ call' = Back(call, b)
  BY <1>1, <1>2, ThrownTyped, OfferedVerbs DEF IInv, Typed
<1> HIDE DEF b
<1>4. "failed" \in Cause(call, b)  BY <1>3 DEF Cause
<1>5. call.inRun /\ hits' > 0 => call.verb = "report"  BY <1>1, <1>2, TookEntitled
<1> QED  BY <1>3, <1>4, <1>5, AnsweredEntitled DEF Blamed

LEMMA CutJ == ASSUME IInv, JInv, Cut PROVE JInv'
<1> DEFINE code == IF Lenient(call) THEN 0 ELSE 1
           said == ""
<1>1. PICK a \in (IF call.pc = "in" THEN Outcomes(call) ELSE {NoAnswer}) : Took(call, a)
  BY DEF Cut
<1>2. call.pc = "in" \/ ~a.done
  <2>1. ~NoAnswer.done  BY DEF NoAnswer, Answer
  <2> QED  BY <1>1, <2>1
<1>3. call.inRun /\ hits' > 0 => call.verb = "report"  BY <1>1, <1>2, TookEntitled
<1>4. call \in Calls /\ call' = Exit(call, code, said)  BY DEF Cut, IInv, Typed
<1>5. code \in Codes  BY DEF Codes
<1>6. said \in Sayings /\ said # "too old"  BY DEF Sayings
<1> HIDE DEF code, said
<1> QED  BY <1>3, <1>4, <1>5, <1>6, EndsEntitled

LEMMA LostJ == ASSUME IInv, JInv, BodyLost PROVE JInv'
<1>1. "lost" \in call'.why /\ call'.pc = "back" /\ hits' = hits  BY LostShape
<1>2. Caused'  BY <1>1 DEF Caused, TooOldHasCause
<1>3. Entitled'  BY <1>1, LostShape DEF JInv, Entitled, RunActsAsRun
<1> QED  BY <1>2, <1>3 DEF JInv

LEMMA FallBackJ == ASSUME IInv, JInv, FallBack PROVE JInv'
<1>1. call.pc = "back" /\ call.ans.st = 404 /\ hits' = hits /\ call \in Calls
  BY DEF FallBack, Fallen, MeansOld, IInv, Typed
<1>2. call.why # {}  BY <1>1 DEF JInv, Caused
<1>3. hits' = 0 /\ ~(hits' > 0)
  <2>1. hits = 0  BY <1>1 DEF IInv, AskedOnce
  <2> QED  BY <1>1, <2>1
<1> DEFINE a == Bare(501)
<1>4. \/ call' = [call EXCEPT !.to = "legacy", !.ans = a]
      \/ call' = [call EXCEPT !.to = "legacy", !.pc = "sent"]
  BY DEF FallBack
<1> HIDE DEF a
<1>5. call'.why = call.why /\ call'.pc # "in"  BY <1>1, <1>4 DEF Calls
<1> QED  BY <1>1, <1>2, <1>3, <1>5 DEF JInv, Caused, Entitled, TooOldHasCause, RunActsAsRun

LEMMA ResolveJ == ASSUME IInv, JInv, Resolve PROVE JInv'
<1>1. call.pc = "back" /\ call.step = "list" /\ hits' = hits /\ call \in Calls
  BY DEF Resolve, IInv, Typed
<1>2. hits' = 0 /\ ~(hits' > 0)
  <2>1. hits = 0  BY <1>1 DEF IInv, AskedOnce
  <2> QED  BY <1>1, <2>1
<1> DEFINE a == NoAnswer
<1>3. a \in Answers  BY DEF NoAnswer, Answer, Answers, Statuses
<1>4. \/ call' = [call EXCEPT !.step = "main", !.to = "cli", !.pc = "sent", !.ans = a]
      \/ \E code \in {1, 2} : call' = Exit([call EXCEPT !.ans = a], code, "")
  BY DEF Resolve
<1>5. CASE call' = [call EXCEPT !.step = "main", !.to = "cli", !.pc = "sent", !.ans = a]
  <2> HIDE DEF a
  <2>1. call'.pc = "sent" /\ call'.to = "cli" /\ call'.why = call.why /\ call'.said = call.said
    BY <1>1, <1>5 DEF Calls
  <2> QED  BY <1>1, <1>2, <2>1 DEF JInv, Caused, Entitled, TooOldHasCause, RunActsAsRun
<1>6. CASE \E code \in {1, 2} : call' = Exit([call EXCEPT !.ans = a], code, "")
  <2> DEFINE r == [call EXCEPT !.ans = a]
             said == ""
  <2>1. PICK code \in {1, 2} : call' = Exit(r, code, said)  BY <1>6
  <2> HIDE DEF a
  <2>2. r \in Calls  BY <1>1, <1>3 DEF Calls
  <2> HIDE DEF r
  <2>3. code \in Codes  BY DEF Codes
  <2>4. said \in Sayings /\ said # "too old"  BY DEF Sayings
  <2> HIDE DEF said
  <2> QED  BY <1>1, <1>2, <2>1, <2>2, <2>3, <2>4, EndsEntitled
<1> QED  BY <1>4, <1>5, <1>6

LEMMA RenderJ == ASSUME IInv, JInv, Render PROVE JInv'
<1>1. call.pc = "back" /\ hits' = hits /\ call \in Calls  BY DEF Render, IInv, Typed
<1>2. call.inRun /\ hits' > 0 => call.verb = "report"  BY <1>1 DEF JInv, Entitled, RunActsAsRun
<1>3. PICK code \in Codes, said \in Sayings :
        /\ call' = Exit(call, code, said)
        /\ said = "too old" => ~call.ans.text
  <2>1. CodeOf(call.ans) \in Codes /\ 0 \in Codes /\ 1 \in Codes  BY DEF CodeOf, Codes
  <2>2. "" \in Sayings /\ "text" \in Sayings /\ "too old" \in Sayings  BY DEF Sayings
  <2> QED  BY <2>1, <2>2 DEF Render
<1>4. said = "too old" => call.why # {}  BY <1>1, <1>3 DEF JInv, Caused
<1> QED  BY <1>1, <1>2, <1>3, <1>4, EndsEntitled

(* Before its first request a call has had no effect. *)
LEMMA BeginsJ ==
  ASSUME IInv, JInv, NEW verb, NEW inRun \in BOOLEAN, Misused(verb, inRun) \/ Start(verb, inRun)
  PROVE  JInv'
<1>1. hits' = 0 /\ ~(hits' > 0)
  <2>1. hits = 0 /\ hits' = hits  BY DEF Misused, Start, IInv, AskedOnce
  <2> QED  BY <2>1
<1>2. verb \in RunVerbs \cup OwnerVerbs  BY DEF Misused, Start, Offered
<1> DEFINE said == ""
<1>3. said \in Sayings /\ said # "too old"  BY DEF Sayings
<1>4. CASE Misused(verb, inRun)
  <2> DEFINE r == [NoCall EXCEPT !.verb = verb, !.inRun = inRun]
  <2>1. r \in Calls  BY <1>2, NoCallTyped DEF Calls
  <2>2. PICK code \in Blames(verb, inRun) : call' = Exit(r, code, said)  BY <1>4 DEF Misused
  <2> HIDE DEF r, said
  <2>3. code \in Codes  BY <2>2, BlamesTyped
  <2> QED  BY <1>1, <1>3, <2>1, <2>2, <2>3, EndsEntitled
<1>5. CASE Start(verb, inRun)
  <2> DEFINE step == FirstStep(verb, inRun)
             r == [NoCall EXCEPT !.pc = "sent", !.verb = verb, !.inRun = inRun, !.step = step]
             code == IF Lenient(r) THEN 0 ELSE 2
  <2>1. call' = IF Credential(r) = "none" THEN Exit(r, code, said) ELSE r  BY <1>5 DEF Start
  <2>2. step \in {"list", "main"}  BY DEF FirstStep
  <2> HIDE DEF step
  <2>3. r \in Calls /\ r.pc = "sent"  BY <1>2, <2>2, NoCallTyped DEF Calls
  <2>4. code \in Codes  BY DEF Codes
  <2>5. NoCall.to = "cli" /\ NoCall.said = ""  BY DEF NoCall
  <2>6. r.to = "cli" /\ r.said = ""  BY <2>5, NoCallTyped DEF Calls
  <2> HIDE DEF r, code, said
  <2>7. CASE call' = r
    BY <1>1, <2>3, <2>6, <2>7 DEF JInv, Caused, Entitled, TooOldHasCause, RunActsAsRun
  <2>8. CASE call' = Exit(r, code, said)  BY <1>1, <1>3, <2>3, <2>4, <2>8, EndsEntitled
  <2> QED  BY <2>1, <2>7, <2>8
<1> QED  BY <1>4, <1>5

LEMMA StepJInv == IInv /\ JInv /\ [CallNext]_callVars => JInv'
<1> SUFFICES ASSUME IInv, JInv, [CallNext]_callVars PROVE JInv'
  OBVIOUS
<1>1. CASE UNCHANGED <<call, hits>>
  BY <1>1 DEF JInv, Caused, Entitled, TooOldHasCause, RunActsAsRun, Verb
<1>2. CASE CallNext
  <2>1. CASE Deploy \/ LoopDeleted \/ LeaseEnds  BY <1>1, <2>1 DEF Deploy, LoopDeleted, LeaseEnds
  <2> QED  BY <1>2, <2>1, BeginsJ, AdmitJ, ServeJ, ThrowsJ, CutJ, LostJ, FallBackJ, ResolveJ, RenderJ
           DEF CallNext
<1> QED  BY <1>1, <1>2 DEF callVars

LEMMA InitJInv == CallInit => JInv
<1> SUFFICES ASSUME CallInit PROVE JInv
  OBVIOUS
<1>1. call.pc = "unborn" /\ call.to = "cli" /\ call.said = ""  BY DEF CallInit, NoCall
<1>2. ~(hits > 0)
  <2>1. hits = 0  BY DEF CallInit
  <2> QED  BY <2>1
<1> QED  BY <1>1, <1>2 DEF JInv, Caused, Entitled, TooOldHasCause, RunActsAsRun

LEMMA CallIsEntitled == CallSpec => []JInv
<1>1. CallInit => JInv  BY InitJInv
<1>2. IInv /\ JInv /\ [CallNext]_callVars => JInv'  BY StepJInv
<1> QED  BY <1>1, <1>2, CallIsSound, PTL DEF CallSpec

(* printTextOrTooOld: what is called too old was, or failed, or named a loop that is gone, or was lost half-way. *)
THEOREM TooOldHasCauseHolds == CallSpec => []TooOldHasCause
<1>1. JInv => TooOldHasCause  BY DEF JInv, Caused
<1> QED  BY <1>1, CallIsEntitled, PTL

(* runCli: a command inside a run has the authority of its run only. *)
THEOREM RunActsAsRunHolds == CallSpec => []RunActsAsRun
<1>1. JInv => RunActsAsRun  BY DEF JInv, Entitled
<1> QED  BY <1>1, CallIsEntitled, PTL

-------------------------------------------------------------------------------
(***************************************************************************)
(* CliVerbs: the rows, the requests in flight and the logs of the runs.    *)
(***************************************************************************)

Stages == {"idle", "ui", "runs", "peek", "write", "state", "goal", "row", "stamp", "audit", "log"}
AnyPatch == Patches \cup {PatchOf(c) : c \in Verbs} \cup {NoReq.patch}
AnyVal == {c.val : c \in Verbs} \cup {""}
VerbNames == {"", "report", "finish"} \cup Schedule \cup Structure
Requests == [pc: Stages, run: Runs \cup {None}, verb: VerbNames,
             keys: SUBSET Keys, val: AnyVal, patch: AnyPatch, used: SUBSET Keys, peeked: BOOLEAN, log: Nat]
RunRow == [phase: Phases, keys: SUBSET Keys, log: Nat]

(* The values the row may have: those of a patch that passed validation. *)
Stored(f) == CASE f \in {"goal", "on", "control"} -> BOOLEAN
               [] f \in {"ui", "schema"} -> SUBSET Keys
               [] f = "cron"  -> {"hourly", "often"}
               [] f = "at"    -> Times
               [] f = "flow"  -> {"null", "js"}
               [] f = "label" -> {"p", "q"}
Fits(p) == DOMAIN p \subseteq Fields /\ \A f \in DOMAIN p : p[f] \in Stored(f)
Completion == [done |-> TRUE, on |-> FALSE]

RowsTyped ==
  /\ loop \in Row
  /\ run \in [Runs -> RunRow]
  /\ req \in [Reqs -> Requests]
  /\ audited \in [Runs -> Nat]

(* What a request is about to write was validated; a `finish` carries the completion. *)
CarriesFit ==
  \A q \in Reqs :
    /\ req[q].pc \in {"ui", "runs", "peek", "write"} => Fits(req[q].patch)
    /\ req[q].pc = "stamp" => req[q].patch = Completion
    /\ req[q].pc \in {"goal", "row", "state"} /\ req[q].verb = "finish" => req[q].patch = Completion
    /\ req[q].pc \in {"audit", "log", "row", "stamp", "goal", "state"} => req[q].run \in Runs

(* A log that one command at a time writes has an entry for each, and the next is put after them. *)
LogKept ==
  \A r \in Runs \ overlapped :
    /\ run[r].log = audited[r]
    /\ \A q \in Reqs : At(q, "log") /\ req[q].run = r => req[q].log = run[r].log
    /\ \A q, s \in Reqs : At(q, "log") /\ At(s, "log") /\ req[q].run = r /\ req[s].run = r => q = s

VInv == RowsTyped /\ CarriesFit /\ LogKept

(***************************************************************************)
(* Rows and patches.                                                       *)
(***************************************************************************)
LEMMA RowDomain == ASSUME NEW row \in Row PROVE DOMAIN row = Fields \cup {"st", "done"}
<1>1. DOMAIN row = {"st", "goal", "done", "on", "cron", "at", "control", "ui", "schema", "flow", "label"}
  BY DEF Row
<1> QED  BY <1>1 DEF Fields

(* A row is one when each of its fields has a value of its kind. *)
LEMMA RowFields ==
  ASSUME NEW row, DOMAIN row = Fields \cup {"st", "done"}, row = [f \in DOMAIN row |-> row[f]]
  PROVE  row \in Row <=> /\ row["st"] \in {"live", "gone"} /\ row["done"] \in BOOLEAN
                         /\ \A f \in Fields : row[f] \in Stored(f)
<1>1. DOMAIN row = {"st", "goal", "done", "on", "cron", "at", "control", "ui", "schema", "flow", "label"}
  BY DEF Fields
<1>2. (\A f \in Fields : row[f] \in Stored(f)) <=>
         /\ row["goal"] \in BOOLEAN /\ row["on"] \in BOOLEAN /\ row["control"] \in BOOLEAN
         /\ row["ui"] \in SUBSET Keys /\ row["schema"] \in SUBSET Keys
         /\ row["cron"] \in {"hourly", "often"} /\ row["at"] \in Times
         /\ row["flow"] \in {"null", "js"} /\ row["label"] \in {"p", "q"}
  BY DEF Fields, Stored
<1> QED  BY <1>1, <1>2 DEF Row

(* What the row after a patch says. *)
Follows(row, p, completed, new) ==
  /\ \A f \in Fields \cup {"st"} : new[f] = IF f \in DOMAIN p THEN p[f] ELSE row[f]
  /\ new["done"] = IF Clears(p, completed) THEN FALSE ELSE IF "done" \in DOMAIN p THEN p["done"] ELSE row["done"]

(* updateLoop: a row that a fitting patch changed is a row; only the completion clears by itself. *)
LEMMA PatchedRow ==
  ASSUME NEW row \in Row, NEW p, DOMAIN p \subseteq Fields \cup {"done"},
         \A f \in DOMAIN p \cap Fields : p[f] \in Stored(f),
         "done" \in DOMAIN p => p["done"] \in BOOLEAN, NEW completed
  PROVE  Patched(row, p, completed) \in Row /\ Follows(row, p, completed, Patched(row, p, completed))
<1> DEFINE set == [f \in DOMAIN row |-> IF f \in DOMAIN p THEN p[f] ELSE row[f]]
           new == Patched(row, p, completed)
<1>1. DOMAIN row = Fields \cup {"st", "done"} /\ row = [f \in DOMAIN row |-> row[f]]  BY RowDomain DEF Row
<1>2. row["st"] \in {"live", "gone"} /\ row["done"] \in BOOLEAN /\ \A f \in Fields : row[f] \in Stored(f)
  BY <1>1, RowFields
<1>3. "st" \notin DOMAIN p /\ "done" \notin Fields /\ "st" \notin Fields  BY DEF Fields
<1>4. /\ DOMAIN set = Fields \cup {"st", "done"}
      /\ \A f \in DOMAIN set : set[f] = IF f \in DOMAIN p THEN p[f] ELSE row[f]
      /\ set = [f \in DOMAIN set |-> set[f]]
  BY <1>1
<1>5. new = IF Clears(p, completed) THEN [set EXCEPT !.done = FALSE] ELSE set  BY DEF Patched
<1> HIDE DEF set, new
<1>6. /\ DOMAIN new = Fields \cup {"st", "done"} /\ new = [f \in DOMAIN new |-> new[f]]
      /\ \A f \in Fields \cup {"st"} : new[f] = set[f]
      /\ new["done"] = IF Clears(p, completed) THEN FALSE ELSE set["done"]
  <2>1. CASE Clears(p, completed)
    <3>1. new = [set EXCEPT !.done = FALSE]  BY <1>5, <2>1
    <3> QED  BY <1>3, <1>4, <2>1, <3>1
  <2>2. CASE ~Clears(p, completed)  BY <1>4, <1>5, <2>2
  <2> QED  BY <2>1, <2>2
<1>7. /\ new["st"] \in {"live", "gone"} /\ new["done"] \in BOOLEAN
      /\ \A f \in Fields : new[f] \in Stored(f)
  BY <1>2, <1>3, <1>4, <1>6
<1>8. new \in Row  BY <1>6, <1>7, RowFields
<1>9. Follows(row, p, completed, new)  BY <1>3, <1>4, <1>6 DEF Follows
<1> QED  BY <1>8, <1>9 DEF new

(* Both kinds of patch a request may write leave a row. *)
LEMMA FitPatched ==
  ASSUME NEW row \in Row, NEW p, Fits(p) \/ p = Completion, NEW completed
  PROVE  Patched(row, p, completed) \in Row
<1>1. CASE Fits(p)
  <2>1. "done" \notin DOMAIN p  BY <1>1 DEF Fits, Fields
  <2> QED  BY <1>1, <2>1, PatchedRow DEF Fits
<1>2. CASE p = Completion
  <2>1. DOMAIN p = {"done", "on"} /\ p["done"] = TRUE /\ p["on"] = FALSE  BY <1>2 DEF Completion
  <2>2. DOMAIN p \subseteq Fields \cup {"done"} /\ \A f \in DOMAIN p \cap Fields : p[f] \in Stored(f)
    BY <2>1 DEF Fields, Stored
  <2> QED  BY <2>1, <2>2, PatchedRow
<1> QED  BY <1>1, <1>2

(* What a run may ask for is within its floors; a `finish` carries the completion. *)
LEMMA PatchOfFits ==
  ASSUME VerbsConstants, NEW c \in Verbs
  PROVE  /\ c.verb \in Schedule \cup Structure /\ Acceptable(c) => Fits(PatchOf(c))
         /\ c.verb \in {"report", "finish"} => PatchOf(c) = Completion
<1>1. /\ c.verb \in {"report", "finish"} \cup Schedule \cup Structure /\ c.keys \in SUBSET Keys
      /\ c.verb = "set-workflow" => c.val \in {"null", "js", "module"}
      /\ c.verb = "label" => c.val \in {"p", "q", "bad"}
  BY DEF VerbsConstants, Carried
<1>2. CASE c.verb \in {"report", "finish"}  BY <1>2 DEF PatchOf, Completion, Schedule, Structure
<1>3. ASSUME NEW f \in Fields, NEW p, DOMAIN p = {f}, p[f] \in Stored(f) PROVE Fits(p)
  BY <1>3 DEF Fits
<1>4. ASSUME c.verb \in Schedule \cup Structure, Acceptable(c) PROVE Fits(PatchOf(c))
  <2> DEFINE p == PatchOf(c)
  <2>1. CASE c.verb = "reschedule"
    <3>1. DOMAIN p = {"at"} /\ p["at"] = c.val  BY <2>1 DEF PatchOf
    <3>2. c.val = "soon"  BY <1>1, <1>4, <2>1 DEF Acceptable
    <3>3. "at" \in Fields /\ p["at"] \in Stored("at")  BY <3>1, <3>2 DEF Fields, Stored, Times
    <3> QED  BY <1>3, <3>1, <3>3
  <2>2. CASE c.verb = "set-cron"
    <3>1. DOMAIN p = {"cron"} /\ p["cron"] = c.val  BY <2>2 DEF PatchOf
    <3>2. c.val = "hourly"  BY <1>1, <1>4, <2>2 DEF Acceptable
    <3>3. "cron" \in Fields /\ p["cron"] \in Stored("cron")  BY <3>1, <3>2 DEF Fields, Stored
    <3> QED  BY <1>3, <3>1, <3>3
  <2>3. CASE c.verb = "pause"
    <3>1. DOMAIN p = {"on"} /\ p["on"] = FALSE  BY <2>3 DEF PatchOf
    <3>3. "on" \in Fields /\ p["on"] \in Stored("on")  BY <3>1 DEF Fields, Stored
    <3> QED  BY <1>3, <3>1, <3>3
  <2>4. CASE c.verb = "resume"
    <3>1. DOMAIN p = {"on"} /\ p["on"] = TRUE  BY <2>4 DEF PatchOf
    <3>3. "on" \in Fields /\ p["on"] \in Stored("on")  BY <3>1 DEF Fields, Stored
    <3> QED  BY <1>3, <3>1, <3>3
  <2>5. CASE c.verb = "label"
    <3>1. DOMAIN p = {"label"} /\ p["label"] = c.val  BY <2>5 DEF PatchOf
    <3>2. c.val \in {"p", "q"}  BY <1>1, <1>4, <2>5 DEF Acceptable
    <3>3. "label" \in Fields /\ p["label"] \in Stored("label")  BY <3>1, <3>2 DEF Fields, Stored
    <3> QED  BY <1>3, <3>1, <3>3
  <2>6. CASE c.verb = "set-ui"
    <3>1. DOMAIN p = {"ui"} /\ p["ui"] = c.keys  BY <2>6 DEF PatchOf
    <3>3. "ui" \in Fields /\ p["ui"] \in Stored("ui")  BY <1>1, <3>1 DEF Fields, Stored
    <3> QED  BY <1>3, <3>1, <3>3
  <2>7. CASE c.verb = "set-schema"
    <3>1. DOMAIN p = {"schema"} /\ p["schema"] = c.keys  BY <2>7 DEF PatchOf
    <3>3. "schema" \in Fields /\ p["schema"] \in Stored("schema")  BY <1>1, <3>1 DEF Fields, Stored
    <3> QED  BY <1>3, <3>1, <3>3
  <2>8. CASE c.verb = "set-workflow"
    <3>1. DOMAIN p = {"flow"} /\ p["flow"] = c.val  BY <2>8 DEF PatchOf
    <3>2. c.val \in {"null", "js"}  BY <1>1, <1>4, <2>8 DEF Acceptable
    <3>3. "flow" \in Fields /\ p["flow"] \in Stored("flow")  BY <3>1, <3>2 DEF Fields, Stored
    <3> QED  BY <1>3, <3>1, <3>3
  <2> QED  BY <1>4, <2>1, <2>2, <2>3, <2>4, <2>5, <2>6, <2>7, <2>8 DEF Schedule, Structure
<1> QED  BY <1>2, <1>4 DEF Schedule, Structure

(* buildEditUpdate: a patch that is valid fits. *)
LEMMA ValidFits ==
  ASSUME VerbsConstants, NEW row \in Row, NEW p \in Patches, \A f \in DOMAIN p : Valid(row, f, p[f])
  PROVE  Fits(p)
<1>1. DOMAIN p \subseteq Fields /\ \A f \in DOMAIN p : p[f] \in Carried(f)  BY DEF VerbsConstants
<1>2. ASSUME NEW f \in DOMAIN p PROVE p[f] \in Stored(f)
  <2>1. f \in Fields /\ p[f] \in Carried(f) /\ Valid(row, f, p[f])  BY <1>1
  <2>2. CASE f \in {"goal", "on", "control"}  BY <2>1, <2>2 DEF Carried, Stored
  <2>3. CASE f \in {"ui", "schema"}  BY <2>1, <2>3 DEF Carried, Stored
  <2>4. CASE f = "cron"  BY <2>1, <2>4 DEF Carried, Stored, Valid
  <2>5. CASE f = "at"
    <3>1. row.at \in Times  BY DEF Row
    <3> QED  BY <2>1, <2>5, <3>1 DEF Stored, Valid, Times
  <2>6. CASE f = "flow"  BY <2>1, <2>6 DEF Carried, Stored, Valid
  <2>7. CASE f = "label"  BY <2>1, <2>7 DEF Carried, Stored, Valid
  <2> QED  BY <2>1, <2>2, <2>3, <2>4, <2>5, <2>6, <2>7 DEF Fields
<1> QED  BY <1>1, <1>2 DEF Fits

(***************************************************************************)
(* One request moves at a time.                                            *)
(***************************************************************************)
LEMMA NoReqTyped == NoReq \in Requests /\ NoReq.pc = "idle"
<1> DEFINE empty == NoReq.patch
<1>1. empty \in AnyPatch /\ "" \in AnyVal /\ "" \in VerbNames  BY DEF AnyPatch, AnyVal, VerbNames
<1>2. empty = [f \in {} |-> ""]  BY DEF NoReq
<1> DEFINE e == [f \in {} |-> ""]
<1>3. NoReq = [pc |-> "idle", run |-> None, verb |-> "", keys |-> {}, val |-> "",
               patch |-> e, used |-> {}, peeked |-> FALSE, log |-> 0]
  BY DEF NoReq
<1> HIDE DEF e, empty
<1>4. e \in AnyPatch  BY <1>1, <1>2 DEF e
<1> QED  BY <1>1, <1>3, <1>4 DEF Requests, Stages

(* What the history gains when only q moves: its entry, if it wrote one. *)
LEMMA Remembered ==
  ASSUME RowsTyped, NEW q \in Reqs, \A s \in Reqs \ {q} : req'[s] = req[s], Remember
  PROVE  /\ audited' \in [Runs -> Nat]
         /\ \A r \in Runs : audited'[r] = audited[r] +
              IF At(q, "log") /\ req[q].run = r /\ req'[q] = NoReq THEN 1 ELSE 0
<1> DEFINE Written(r) == {s \in Reqs : At(s, "log") /\ req[s].run = r /\ req'[s] = NoReq}
<1>1. ASSUME NEW s \in Reqs \ {q} PROVE ~(At(s, "log") /\ req'[s] = NoReq)
  BY <1>1, NoReqTyped DEF At
<1>2. ASSUME NEW r \in Runs PROVE Cardinality(Written(r)) = IF At(q, "log") /\ req[q].run = r /\ req'[q] = NoReq THEN 1 ELSE 0
  <2>1. CASE At(q, "log") /\ req[q].run = r /\ req'[q] = NoReq
    <3>1. Written(r) = {q}  BY <1>1, <2>1
    <3> QED  BY <2>1, <3>1, FS_Singleton
  <2>2. CASE ~(At(q, "log") /\ req[q].run = r /\ req'[q] = NoReq)
    <3>1. Written(r) = {}  BY <1>1, <2>2
    <3> QED  BY <2>2, <3>1, FS_EmptySet
  <2> QED  BY <2>1, <2>2
<1>3. audited' = [r \in Runs |-> audited[r] + Cardinality(Written(r))]  BY DEF Remember
<1> HIDE DEF Written
<1> QED  BY <1>2, <1>3 DEF RowsTyped

(* A step that neither enters nor leaves the writing of a log. *)
LogCalm ==
  /\ \A s \in Reqs : At(s, "log") \/ req'[s].pc = "log" => req'[s] = req[s]
  /\ \A r \in Runs : run'[r].log = run[r].log
  /\ Remember

(* Such a step leaves the logs and their history as they were. *)
LEMMA CalmKeepsLog ==
  ASSUME RowsTyped, LogKept, LogCalm
  PROVE  audited' = audited /\ LogKept'
<1>1. ASSUME NEW r \in Runs PROVE audited'[r] = audited[r]
  <2>1. {s \in Reqs : At(s, "log") /\ req[s].run = r /\ req'[s] = NoReq} = {}
    BY NoReqTyped DEF LogCalm, At
  <2> QED  BY <2>1, FS_EmptySet DEF LogCalm, Remember, RowsTyped
<1>2. audited' = audited  BY <1>1 DEF LogCalm, Remember, RowsTyped
<1>3. overlapped \subseteq overlapped'  BY DEF LogCalm, Remember
<1>4. \A s \in Reqs : At(s, "log")' => At(s, "log") /\ req'[s] = req[s]  BY DEF LogCalm, At
<1>5. LogKept'
  <2> SUFFICES ASSUME NEW r \in Runs, r \notin overlapped
               PROVE  /\ run'[r].log = audited'[r]
                      /\ \A q \in Reqs : At(q, "log")' /\ req'[q].run = r => req'[q].log = run'[r].log
                      /\ \A q, s \in Reqs : At(q, "log")' /\ At(s, "log")' /\ req'[q].run = r /\ req'[s].run = r
                                           => q = s
    BY <1>3 DEF LogKept
  <2>1. run'[r].log = run[r].log  BY DEF LogCalm
  <2> QED  BY <1>2, <1>4, <2>1 DEF LogKept
<1> QED  BY <1>2, <1>5

(***************************************************************************)
(* The steps.                                                              *)
(***************************************************************************)
(* A request that moves on, or ends, without coming to the log. *)
Moved(q, x) ==
  /\ q \in Reqs /\ x \in Requests /\ req' = [req EXCEPT ![q] = x]
  /\ x.pc \in {"ui", "runs", "peek", "write"} => Fits(x.patch)
  /\ x.pc = "stamp" => x.patch = Completion
  /\ x.pc \in {"goal", "row", "state"} /\ x.verb = "finish" => x.patch = Completion
  /\ x.pc \in {"audit", "log", "row", "stamp", "goal", "state"} => x.run \in Runs

(* It keeps the requests typed and what they carry fit. *)
LEMMA MovedStep ==
  ASSUME RowsTyped, CarriesFit, NEW q, NEW x, Moved(q, x)
  PROVE  /\ req' \in [Reqs -> Requests] /\ CarriesFit'
         /\ req'[q] = x /\ \A s \in Reqs \ {q} : req'[s] = req[s]
<1>1. req' \in [Reqs -> Requests] /\ req'[q] = x /\ \A s \in Reqs \ {q} : req'[s] = req[s]
  BY DEF RowsTyped, Moved
<1> QED  BY <1>1 DEF CarriesFit, Moved

(* The steps that do not touch a log: one request at most moves on, outside of it. *)
LEMMA QuietStep ==
  ASSUME VInv, NEW q, NEW x, Moved(q, x), ~At(q, "log"), x.pc # "log", Remember,
         loop' \in Row, run' \in [Runs -> RunRow], \A r \in Runs : run'[r].log = run[r].log
  PROVE  VInv'
<1>1. /\ req' \in [Reqs -> Requests] /\ CarriesFit'
      /\ req'[q] = x /\ \A s \in Reqs \ {q} : req'[s] = req[s]
  BY MovedStep DEF VInv
<1>2. LogCalm  BY <1>1 DEF LogCalm, At, Moved
<1>3. audited' = audited /\ LogKept'  BY <1>2, CalmKeepsLog DEF VInv
<1> QED  BY <1>1, <1>3 DEF VInv, RowsTyped

(* So do the steps that move no request. *)
LEMMA StillStep ==
  ASSUME VInv, req' = req, Remember,
         loop' \in Row, run' \in [Runs -> RunRow], \A r \in Runs : run'[r].log = run[r].log
  PROVE  VInv'
<1>1. LogCalm  BY DEF LogCalm
<1>2. audited' = audited /\ LogKept'  BY <1>1, CalmKeepsLog DEF VInv
<1> QED  BY <1>2 DEF VInv, RowsTyped, CarriesFit

(* The claims, reports and sweeps, the pinned time and the deletion. *)
LEMMA LifeKeeps == ASSUME VInv, LifeStep PROVE VInv'
<1> USE DEF VInv, RowsTyped
<1>1. ASSUME NEW r \in Runs, NEW row \in RunRow, row.log = run[r].log, run' = [run EXCEPT ![r] = row],
             req' = req, Remember, loop' = loop
      PROVE  VInv'
  BY <1>1, StillStep
<1>2. ASSUME NEW r \in Runs, NEW role \in Roles, Claim(r, role) PROVE VInv'
  <2> DEFINE row == [run[r] EXCEPT !.phase = "running"]
  <2>1. row \in RunRow /\ row.log = run[r].log  BY DEF RunRow, Phases
  <2>2. run' = [run EXCEPT ![r] = row] /\ req' = req /\ Remember /\ loop' = loop  BY <1>2 DEF Claim
  <2> HIDE DEF row
  <2> QED  BY <1>1, <2>1, <2>2
<1>3. ASSUME NEW r \in Runs, NEW ks \in SUBSET Keys, Report(r, ks) PROVE VInv'
  <2> DEFINE keys == IF ks = {} THEN run[r].keys ELSE ks
             row == [run[r] EXCEPT !.phase = "done", !.keys = keys]
  <2>0. keys \in SUBSET Keys  BY DEF RunRow
  <2>1. req' = req /\ Remember /\ loop' = loop /\ run' \in {run, [run EXCEPT ![r] = row]}  BY <1>3 DEF Report
  <2> HIDE DEF keys
  <2>2. row \in RunRow /\ row.log = run[r].log  BY <2>0 DEF RunRow, Phases
  <2> HIDE DEF row
  <2>3. CASE run' = run  BY <2>1, <2>3, StillStep
  <2>4. CASE run' = [run EXCEPT ![r] = row]  BY <1>1, <2>1, <2>2, <2>4
  <2> QED  BY <2>1, <2>3, <2>4
<1>4. ASSUME NEW r \in Runs, Reclaim(r) PROVE VInv'
  <2> DEFINE row == [run[r] EXCEPT !.phase = "error"]
  <2>1. row \in RunRow /\ row.log = run[r].log  BY DEF RunRow, Phases
  <2>2. run' = [run EXCEPT ![r] = row] /\ req' = req /\ Remember /\ loop' = loop  BY <1>4 DEF Reclaim
  <2> HIDE DEF row
  <2> QED  BY <1>1, <2>1, <2>2
<1>5. CASE PinPasses
  <2>1. PICK t \in Times : loop' = [loop EXCEPT !.at = t]  BY <1>5 DEF PinPasses, Times
  <2>2. loop' \in Row  BY <2>1 DEF Row
  <2> QED  BY <1>5, <2>2, StillStep DEF PinPasses
<1>6. CASE DeleteLoop
  <2>1. loop' \in Row  BY <1>6 DEF DeleteLoop, Row
  <2>2. ASSUME NEW r \in Runs PROVE [run[r] EXCEPT !.phase = "gone"] \in RunRow
                                    /\ [run[r] EXCEPT !.phase = "gone"].log = run[r].log
    BY DEF RunRow, Phases
  <2>3. run' \in [Runs -> RunRow] /\ \A r \in Runs : run'[r].log = run[r].log
    BY <1>6, <2>2 DEF DeleteLoop
  <2> QED  BY <1>6, <2>1, <2>3, StillStep DEF DeleteLoop
<1> QED  BY <1>2, <1>3, <1>4, <1>5, <1>6 DEF LifeStep

(* A request that goes to its next step keeps what it carries. *)
CarriesTo(q, pc) ==
  /\ pc \in {"ui", "runs", "peek", "write"} => Fits(req[q].patch)
  /\ pc = "stamp" => req[q].patch = Completion
  /\ pc \in {"goal", "row", "state"} /\ req[q].verb = "finish" => req[q].patch = Completion
  /\ pc \in {"audit", "log", "row", "stamp", "goal", "state"} => req[q].run \in Runs

(* Going to a next step is such a move, and so is ending. *)
LEMMA GoToMoves ==
  ASSUME RowsTyped, NEW q \in Reqs, NEW pc \in Stages, GoTo(q, pc), CarriesTo(q, pc)
  PROVE  \E x : Moved(q, x) /\ x.pc = pc
<1> DEFINE x == [req[q] EXCEPT !.pc = pc]
<1>1. req[q] \in Requests  BY DEF RowsTyped
<1>2. req' = [req EXCEPT ![q] = x]  BY DEF GoTo, RowsTyped
<1>3. /\ x \in Requests /\ x.pc = pc /\ x.patch = req[q].patch /\ x.verb = req[q].verb
      /\ x.run = req[q].run
  BY <1>1 DEF Requests
<1> HIDE DEF x
<1>4. Moved(q, x)  BY <1>2, <1>3 DEF Moved, CarriesTo
<1> QED  BY <1>3, <1>4

LEMMA EndMoves ==
  ASSUME NEW q \in Reqs, End(q) PROVE Moved(q, NoReq)
<1>1. NoReq \in Requests /\ NoReq.pc = "idle"  BY NoReqTyped
<1> QED  BY <1>1 DEF Moved, End

(* The rows a step may leave when it touches no log. *)
RowsKept == loop' \in Row /\ run' \in [Runs -> RunRow] /\ \A r \in Runs : run'[r].log = run[r].log

(* The three ways a request moves on outside the writing of a log. *)
LEMMA QuietGo ==
  ASSUME VInv, NEW q \in Reqs, NEW pc \in Stages \ {"log"}, GoTo(q, pc), CarriesTo(q, pc),
         ~At(q, "log"), Remember, RowsKept
  PROVE  VInv'
<1>1. PICK x : Moved(q, x) /\ x.pc = pc  BY GoToMoves DEF VInv
<1> QED  BY <1>1, QuietStep DEF RowsKept

LEMMA QuietEnd ==
  ASSUME VInv, NEW q \in Reqs, End(q), ~At(q, "log"), Remember, RowsKept
  PROVE  VInv'
<1>1. Moved(q, NoReq) /\ NoReq.pc # "log"  BY EndMoves, NoReqTyped
<1> QED  BY <1>1, QuietStep DEF RowsKept

LEMMA QuietConclude ==
  ASSUME VInv, NEW q \in Reqs, Conclude(q), ~At(q, "log"), Remember, RowsKept
  PROVE  VInv'
<1>1. CASE Owner(q)  BY <1>1, QuietEnd DEF Conclude
<1>2. CASE ~Owner(q)
  <2>1. req[q].run \in Runs  BY <1>2 DEF VInv, RowsTyped, Requests, Owner
  <2>2. GoTo(q, "audit") /\ "audit" \in Stages \ {"log"}  BY <1>2 DEF Conclude, Stages
  <2>3. CarriesTo(q, "audit")  BY <2>1 DEF CarriesTo
  <2> QED  BY <2>2, <2>3, QuietGo
<1> QED  BY <1>1, <1>2

(* The steps of an edit. *)
LEMMA EditKeeps ==
  ASSUME VerbsConstants, VInv, NEW q \in Reqs, EditStep(q)
  PROVE  VInv'
<1> USE DEF VInv, RowsTyped
<1>0. req[q] \in Requests  OBVIOUS
<1>1. ASSUME NEW p \in Patches, EditBegin(q, p) PROVE VInv'
  <2> DEFINE pc == IF "schema" \in DOMAIN p /\ p["schema"] # {} THEN "ui" ELSE WriteWith(p)
             x == [NoReq EXCEPT !.patch = p, !.pc = pc]
  <2>1. req' = [req EXCEPT ![q] = x] /\ UNCHANGED <<loop, run>> /\ Remember /\ At(q, "idle")  BY <1>1 DEF EditBegin
  <2>2. Fits(p)  BY <1>1, ValidFits DEF EditBegin
  <2>3. pc \in {"ui", "peek", "write"}  BY DEF WriteWith
  <2> HIDE DEF pc
  <2>4. x \in Requests /\ x.pc = pc /\ x.patch = p  BY <2>3, NoReqTyped DEF Requests, Stages, AnyPatch
  <2> HIDE DEF x
  <2>5. Moved(q, x)  BY <2>1, <2>2, <2>3, <2>4 DEF Moved
  <2> QED  BY <2>1, <2>3, <2>4, <2>5, QuietStep DEF At
<1>2. CASE SchemaUi(q)
  <2> DEFINE used == IF loop.st = "live" THEN loop.ui ELSE {}
             x == [req[q] EXCEPT !.pc = "runs", !.used = used]
  <2>1. used \in SUBSET Keys  BY DEF Row
  <2>2. req' = [req EXCEPT ![q] = x] /\ UNCHANGED <<loop, run>> /\ Remember /\ At(q, "ui")  BY <1>2 DEF SchemaUi
  <2> HIDE DEF used
  <2>3. x \in Requests /\ x.pc = "runs" /\ x.patch = req[q].patch  BY <1>0, <2>1 DEF Requests, Stages
  <2>4. Fits(req[q].patch)  BY <2>2 DEF CarriesFit, At
  <2> HIDE DEF x
  <2>5. Moved(q, x)  BY <2>2, <2>3, <2>4 DEF Moved
  <2> QED  BY <2>2, <2>3, <2>5, QuietStep DEF At
<1>3. CASE SchemaRuns(q)
  <2>1. At(q, "runs") /\ ~At(q, "log") /\ UNCHANGED <<loop, run>> /\ Remember  BY <1>3 DEF SchemaRuns, At
  <2>2. Fits(req[q].patch) /\ RowsKept  BY <2>1 DEF CarriesFit, At, RowsKept
  <2>3. CASE Conclude(q)  BY <2>1, <2>2, <2>3, QuietConclude
  <2>4. CASE GoTo(q, WriteWith(req[q].patch))
    <3> DEFINE pc == WriteWith(req[q].patch)
    <3>1. pc \in {"peek", "write"}  BY DEF WriteWith
    <3> HIDE DEF pc
    <3>2. pc \in Stages \ {"log"} /\ GoTo(q, pc) /\ CarriesTo(q, pc)
      BY <2>2, <2>4, <3>1 DEF CarriesTo, Stages, pc
    <3> QED  BY <2>1, <2>2, <3>2, QuietGo
  <2> QED  BY <1>3, <2>3, <2>4 DEF SchemaRuns
<1>4. CASE Peek(q)
  <2> DEFINE done == loop.done
             x == [req[q] EXCEPT !.pc = "write", !.peeked = done]
  <2>1. done \in BOOLEAN  BY DEF Row
  <2>2. req' = [req EXCEPT ![q] = x] /\ UNCHANGED <<loop, run>> /\ Remember /\ At(q, "peek")  BY <1>4 DEF Peek
  <2> HIDE DEF done
  <2>3. x \in Requests /\ x.pc = "write" /\ x.patch = req[q].patch  BY <1>0, <2>1 DEF Requests, Stages
  <2>4. Fits(req[q].patch)  BY <2>2 DEF CarriesFit, At
  <2> HIDE DEF x
  <2>5. Moved(q, x)  BY <2>2, <2>3, <2>4 DEF Moved
  <2> QED  BY <2>2, <2>3, <2>5, QuietStep DEF At
<1>5. CASE Write(q)
  <2>1. At(q, "write") /\ ~At(q, "log") /\ UNCHANGED run /\ Remember /\ Conclude(q)
    BY <1>5 DEF Write, At
  <2>2. Fits(req[q].patch)  BY <2>1 DEF CarriesFit, At
  <2>3. loop' \in Row  BY <1>5, <2>2, FitPatched DEF Write
  <2> QED  BY <2>1, <2>3, QuietConclude DEF RowsKept
<1> QED  BY <1>1, <1>2, <1>3, <1>4, <1>5 DEF EditStep

(* report and finish: the run's row gets its keys and its phase, and keeps its log. *)
LEMMA RowWithKept ==
  ASSUME RowsTyped, NEW r \in Runs, NEW ks \in SUBSET Keys, NEW phase \in Phases, run' = RowWith(r, ks, phase)
  PROVE  run' \in [Runs -> RunRow] /\ \A s \in Runs : run'[s].log = run[s].log
<1> DEFINE keys == IF ks = {} THEN run[r].keys ELSE ks
           row == [run[r] EXCEPT !.keys = keys, !.phase = phase]
<1>0. run \in [Runs -> RunRow]  BY DEF RowsTyped
<1>1. keys \in SUBSET Keys  BY <1>0 DEF RunRow
<1>2. run' \in {run, [run EXCEPT ![r] = row]}  BY DEF RowWith
<1> HIDE DEF keys
<1>3. row \in RunRow /\ row.log = run[r].log  BY <1>0, <1>1 DEF RunRow
<1> HIDE DEF row
<1> QED  BY <1>0, <1>2, <1>3

(* The audit reads a log: it is alone with it, or the run counts as overlapped. *)
LEMMA AuditReadKeeps ==
  ASSUME VInv, NEW q \in Reqs, AuditRead(q)
  PROVE  VInv'
<1> DEFINE n == run[req[q].run].log
           x == [req[q] EXCEPT !.pc = "log", !.log = n]
<1>0. RowsTyped /\ CarriesFit /\ LogKept /\ req[q] \in Requests  BY DEF VInv, RowsTyped
<1>1. /\ At(q, "audit") /\ req' = [req EXCEPT ![q] = x] /\ UNCHANGED <<loop, run>> /\ Remember
      /\ req[q].run \in Runs
  BY <1>0 DEF AuditRead, CarriesFit, At
<1>2. n \in Nat  BY <1>0, <1>1 DEF RowsTyped, RunRow
<1> HIDE DEF n
<1>3. x \in Requests /\ x.pc = "log" /\ x.log = n /\ x.run = req[q].run  BY <1>0, <1>2 DEF Requests, Stages
<1> HIDE DEF x
<1>4. Moved(q, x)  BY <1>1, <1>3 DEF Moved
<1>5. /\ req' \in [Reqs -> Requests] /\ CarriesFit'
      /\ req'[q] = x /\ \A s \in Reqs \ {q} : req'[s] = req[s]
  BY <1>0, <1>4, MovedStep
<1>6. audited' = audited
  <2>1. /\ audited' \in [Runs -> Nat]
        /\ \A r \in Runs : audited'[r] = audited[r] +
              IF At(q, "log") /\ req[q].run = r /\ req'[q] = NoReq THEN 1 ELSE 0
    BY <1>0, <1>1, <1>5, Remembered
  <2>2. ~At(q, "log")  BY <1>1 DEF At
  <2>3. \A r \in Runs : audited'[r] = audited[r]  BY <1>0, <2>1, <2>2 DEF RowsTyped
  <2> QED  BY <1>0, <2>1, <2>3 DEF RowsTyped
<1>7. LogKept'
  <2> SUFFICES ASSUME NEW r \in Runs, r \notin overlapped'
               PROVE  /\ run'[r].log = audited'[r]
                      /\ \A s \in Reqs : At(s, "log")' /\ req'[s].run = r => req'[s].log = run'[r].log
                      /\ \A s, t \in Reqs : At(s, "log")' /\ At(t, "log")' /\ req'[s].run = r /\ req'[t].run = r
                                           => s = t
    BY DEF LogKept
  <2>1. r \notin overlapped  BY <1>1 DEF Remember
  <2>2. \A s \in Reqs \ {q} : At(s, "log")' => At(s, "log") /\ req'[s] = req[s]  BY <1>5 DEF At
  <2>3. ASSUME req[q].run = r, NEW s \in Reqs \ {q}, At(s, "log") PROVE req[s].run # r
    BY <1>1, <1>3, <1>5, <2>3 DEF Remember
  <2>4. run'[r].log = audited'[r]  BY <1>0, <1>1, <1>6, <2>1 DEF LogKept
  <2>5. ASSUME NEW s \in Reqs, At(s, "log")', req'[s].run = r PROVE req'[s].log = run'[r].log
    <3>1. CASE s = q  BY <1>1, <1>3, <1>5, <2>5, <3>1 DEF n
    <3>2. CASE s # q  BY <1>0, <1>1, <2>1, <2>2, <2>5, <3>2 DEF LogKept
    <3> QED  BY <3>1, <3>2
  <2>6. ASSUME NEW s \in Reqs, NEW t \in Reqs, At(s, "log")', At(t, "log")', req'[s].run = r, req'[t].run = r
        PROVE  s = t
    <3>1. CASE s = q  BY <1>3, <1>5, <2>2, <2>3, <2>6, <3>1
    <3>2. CASE t = q  BY <1>3, <1>5, <2>2, <2>3, <2>6, <3>2
    <3>3. CASE s # q /\ t # q  BY <1>0, <2>1, <2>2, <2>6, <3>3 DEF LogKept
    <3> QED  BY <3>1, <3>2, <3>3
  <2> QED  BY <2>4, <2>5, <2>6
<1> QED  BY <1>0, <1>1, <1>5, <1>6, <1>7 DEF VInv, RowsTyped

(* The audit writes the log back with its entry. *)
LEMMA AuditWriteKeeps ==
  ASSUME VInv, NEW q \in Reqs, AuditWrite(q)
  PROVE  VInv'
<1> DEFINE o == req[q].run
           n == req[q].log + 1
           row == [run[o] EXCEPT !.log = n]
<1>0. RowsTyped /\ CarriesFit /\ LogKept /\ req[q] \in Requests  BY DEF VInv, RowsTyped
<1>1. /\ At(q, "log") /\ End(q) /\ UNCHANGED loop /\ Remember /\ run' = [run EXCEPT ![o] = row] /\ o \in Runs
  BY <1>0 DEF AuditWrite, CarriesFit, At
<1>2. n \in Nat  BY <1>0 DEF Requests
<1>3. row \in RunRow /\ row.log = n
  <2> HIDE DEF n
  <2> QED  BY <1>0, <1>1, <1>2 DEF RowsTyped, RunRow
<1> HIDE DEF row
<1>4. run' \in [Runs -> RunRow] /\ run'[o].log = n /\ \A r \in Runs \ {o} : run'[r] = run[r]
  BY <1>0, <1>1, <1>3 DEF RowsTyped
<1>5. Moved(q, NoReq) /\ NoReq.pc = "idle"  BY <1>1, EndMoves, NoReqTyped
<1>6. /\ req' \in [Reqs -> Requests] /\ CarriesFit'
      /\ req'[q] = NoReq /\ \A s \in Reqs \ {q} : req'[s] = req[s]
  BY <1>0, <1>5, MovedStep
<1>7. /\ audited' \in [Runs -> Nat]
      /\ audited'[o] = audited[o] + 1 /\ \A r \in Runs \ {o} : audited'[r] = audited[r]
  <2>1. /\ audited' \in [Runs -> Nat]
        /\ \A r \in Runs : audited'[r] = audited[r] +
              IF At(q, "log") /\ req[q].run = r /\ req'[q] = NoReq THEN 1 ELSE 0
    BY <1>0, <1>1, <1>6, Remembered
  <2>2. \A r \in Runs : audited[r] \in Nat  BY <1>0 DEF RowsTyped
  <2> QED  BY <1>1, <1>6, <2>1, <2>2
<1>8. LogKept'
  <2> SUFFICES ASSUME NEW r \in Runs, r \notin overlapped'
               PROVE  /\ run'[r].log = audited'[r]
                      /\ \A s \in Reqs : At(s, "log")' /\ req'[s].run = r => req'[s].log = run'[r].log
                      /\ \A s, t \in Reqs : At(s, "log")' /\ At(t, "log")' /\ req'[s].run = r /\ req'[t].run = r
                                           => s = t
    BY DEF LogKept
  <2>1. r \notin overlapped  BY <1>1 DEF Remember
  <2>2. \A s \in Reqs : At(s, "log")' => s # q /\ At(s, "log") /\ req'[s] = req[s]  BY <1>5, <1>6 DEF At
  <2>3. CASE r = o
    <3>1. n = run[o].log + 1 /\ run[o].log = audited[o]  BY <1>0, <1>1, <2>1, <2>3 DEF LogKept
    <3>2. run'[r].log = audited'[r]  BY <1>4, <1>7, <2>3, <3>1
    <3>3. ASSUME NEW s \in Reqs, At(s, "log")', req'[s].run = r PROVE FALSE
      BY <1>0, <1>1, <2>1, <2>2, <2>3, <3>3 DEF LogKept
    <3> QED  BY <3>2, <3>3
  <2>4. CASE r # o
    <3>1. run'[r].log = run[r].log /\ audited'[r] = audited[r]  BY <1>4, <1>7, <2>4
    <3> QED  BY <1>0, <2>1, <2>2, <3>1 DEF LogKept
  <2> QED  BY <2>3, <2>4
<1> QED  BY <1>0, <1>1, <1>4, <1>6, <1>7, <1>8 DEF VInv, RowsTyped

(* The verbs of a run; what each carries was checked before it is written. *)
LEMMA VerbBeginKeeps ==
  ASSUME VerbsConstants, VInv, NEW q \in Reqs, NEW r \in Runs, NEW c \in Verbs, VerbBegin(q, r, c)
  PROVE  VInv'
<1> DEFINE p == PatchOf(c)
           pc == IF c.verb \in {"report", "finish"} THEN "state"
                 ELSE IF c.verb \in Schedule \cup Structure /\ ~Acceptable(c) THEN "audit"
                 ELSE IF c.verb = "set-schema" THEN "ui" ELSE WriteWith(p)
           v == c.verb
           ks == c.keys
           w == c.val
           x == [NoReq EXCEPT !.run = r, !.verb = v, !.keys = ks, !.val = w, !.patch = p, !.pc = pc]
<1>1. req' = [req EXCEPT ![q] = x] /\ UNCHANGED <<loop, run>> /\ Remember /\ At(q, "idle")
  BY DEF VerbBegin
<1>a. v \in VerbNames /\ p \in AnyPatch /\ w \in AnyVal
  <2>1. v \in {"report", "finish"} \cup Schedule \cup Structure  BY DEF VerbsConstants
  <2> QED  BY <2>1, Zenon DEF VerbNames, AnyPatch, AnyVal
<1>2. ks \in SUBSET Keys /\ pc \in {"state", "audit", "ui", "peek", "write"}
  BY DEF VerbsConstants, WriteWith
<1>3. pc \in {"ui", "peek", "write"} => Fits(p)
  <2>1. pc \in {"ui", "peek", "write"} => v \in Schedule \cup Structure /\ Acceptable(c)
    BY DEF VerbsConstants
  <2> QED  BY <2>1, PatchOfFits
<1>4. pc = "state" => p = Completion
  <2>1. pc = "state" => v \in {"report", "finish"}  BY DEF WriteWith
  <2> QED  BY <2>1, PatchOfFits
<1> HIDE DEF p, pc, v, ks, w
<1>5. x \in Requests /\ x.pc = pc /\ x.patch = p /\ x.run = r
  BY <1>a, <1>2, NoReqTyped DEF Requests, Stages
<1> HIDE DEF x
<1>6. Moved(q, x)  BY <1>1, <1>2, <1>3, <1>4, <1>5 DEF Moved
<1> QED  BY <1>1, <1>2, <1>5, <1>6, QuietStep DEF At, VInv, RowsTyped

(* The steps of a verb. *)
LEMMA VerbKeeps ==
  ASSUME VerbsConstants, VInv, NEW q \in Reqs, VerbStep(q)
  PROVE  VInv'
<1>0. RowsTyped /\ CarriesFit /\ req[q] \in Requests  BY DEF VInv, RowsTyped
<1>a. ASSUME UNCHANGED <<loop, run>> PROVE RowsKept  BY <1>0, <1>a DEF RowsKept, RowsTyped
<1>1. CASE VerbState(q)
  <2>1. At(q, "state") /\ ~At(q, "log") /\ RowsKept /\ Remember  BY <1>1, <1>a DEF VerbState, At
  <2>2. /\ req[q].run \in Runs
        /\ req[q].verb = "finish" => req[q].patch = Completion
    BY <1>0, <2>1 DEF CarriesFit, At
  <2>3. CASE End(q)  BY <2>1, <2>3, QuietEnd
  <2>4. ASSUME NEW pc \in {"goal", "row"}, GoTo(q, pc) PROVE VInv'
    <3>1. pc \in Stages \ {"log"} /\ CarriesTo(q, pc)  BY <2>2 DEF Stages, CarriesTo
    <3> QED  BY <2>1, <2>4, <3>1, QuietGo
  <2> QED  BY <1>1, <2>3, <2>4 DEF VerbState
<1>2. CASE ReportRow(q)
  <2>1. At(q, "row") /\ ~At(q, "log") /\ UNCHANGED loop /\ Remember /\ End(q)  BY <1>2 DEF ReportRow, At
  <2>2. req[q].run \in Runs  BY <1>0, <2>1 DEF CarriesFit, At
  <2>3. req[q].keys \in SUBSET Keys /\ run[req[q].run].phase \in Phases
    BY <1>0, <2>2 DEF RowsTyped, Requests, RunRow
  <2>4. RowsKept  BY <1>0, <1>2, <2>1, <2>2, <2>3, RowWithKept DEF ReportRow, RowsKept, RowsTyped
  <2> QED  BY <2>1, <2>4, QuietEnd
<1>3. CASE FinishGoal(q)
  <2>1. At(q, "goal") /\ ~At(q, "log") /\ RowsKept /\ Remember  BY <1>3, <1>a DEF FinishGoal, At
  <2>2. /\ req[q].run \in Runs
        /\ req[q].verb = "finish" => req[q].patch = Completion
    BY <1>0, <2>1 DEF CarriesFit, At
  <2>3. CASE End(q)  BY <2>1, <2>3, QuietEnd
  <2>4. CASE GoTo(q, "row")
    <3>1. "row" \in Stages \ {"log"} /\ CarriesTo(q, "row")  BY <2>2 DEF Stages, CarriesTo
    <3> QED  BY <2>1, <2>4, <3>1, QuietGo
  <2> QED  BY <1>3, <2>3, <2>4 DEF FinishGoal
<1>4. CASE FinishRow(q)
  <2>1. /\ At(q, "row") /\ ~At(q, "log") /\ req[q].verb = "finish" /\ UNCHANGED loop /\ Remember
        /\ GoTo(q, "stamp")
    BY <1>4 DEF FinishRow, At
  <2>2. req[q].run \in Runs /\ req[q].patch = Completion  BY <1>0, <2>1 DEF CarriesFit, At
  <2>3. req[q].keys \in SUBSET Keys /\ "done" \in Phases  BY <1>0 DEF Requests, Phases
  <2>4. RowsKept  BY <1>0, <1>4, <2>1, <2>2, <2>3, RowWithKept DEF FinishRow, RowsKept, RowsTyped
  <2>5. "stamp" \in Stages \ {"log"} /\ CarriesTo(q, "stamp")  BY <2>2 DEF Stages, CarriesTo
  <2> QED  BY <2>1, <2>4, <2>5, QuietGo
<1>5. CASE FinishStamp(q)
  <2>1. At(q, "stamp") /\ ~At(q, "log") /\ UNCHANGED run /\ Remember /\ End(q)  BY <1>5 DEF FinishStamp, At
  <2>2. req[q].patch = Completion  BY <1>0, <2>1 DEF CarriesFit, At
  <2>3. loop' \in Row  BY <1>0, <1>5, <2>2, FitPatched DEF FinishStamp, RowsTyped
  <2>4. RowsKept  BY <1>0, <2>1, <2>3 DEF RowsKept, RowsTyped
  <2> QED  BY <2>1, <2>4, QuietEnd
<1> QED  BY <1>1, <1>2, <1>3, <1>4, <1>5, VerbBeginKeeps, AuditReadKeeps, AuditWriteKeeps DEF VerbStep

(* The invariant at the start, and at every step. *)
LEMMA InitKeeps == Init => VInv
<1> SUFFICES ASSUME Init PROVE VInv  OBVIOUS
<1>1. loop \in Row  BY DEF Init, Row, Times
<1>2. run \in [Runs -> RunRow] /\ \A r \in Runs : run[r].log = 0  BY DEF Init, RunRow, Phases
<1>3. req \in [Reqs -> Requests] /\ \A q \in Reqs : req[q].pc = "idle"  BY NoReqTyped DEF Init
<1>4. audited \in [Runs -> Nat] /\ \A r \in Runs : audited[r] = 0  BY DEF Init
<1>5. RowsTyped  BY <1>1, <1>2, <1>3, <1>4 DEF RowsTyped
<1>6. CarriesFit  BY <1>3 DEF CarriesFit
<1>7. LogKept  BY <1>2, <1>3, <1>4 DEF LogKept, At
<1> QED  BY <1>5, <1>6, <1>7 DEF VInv

LEMMA StutterKeeps == ASSUME VInv, UNCHANGED vars PROVE VInv'
  BY DEF vars, history, VInv, RowsTyped, CarriesFit, LogKept, At

LEMMA VInvInductive == Spec => []VInv
<1>1. VInv /\ [Next]_vars => VInv'
  BY VerbsConstants, LifeKeeps, EditKeeps, VerbKeeps, StutterKeeps DEF Next
<1> QED  BY <1>1, InitKeeps, PTL DEF Spec

(* Every command of a run is in its log, unless two of them wrote it at once. *)
THEOREM AuditCompleteHolds == Spec => []AuditComplete
<1>1. VInv => AuditComplete  BY DEF VInv, LogKept, AuditComplete
<1> QED  BY <1>1, VInvInductive, PTL

(***************************************************************************)
(* What the writes do to the completion.                                   *)
(***************************************************************************)
LEMMA FitNames ==
  ASSUME NEW p, Fits(p)
  PROVE  /\ DOMAIN p \subseteq Fields \cup {"done"} /\ DOMAIN p \subseteq Fields /\ "done" \notin DOMAIN p
         /\ \A f \in DOMAIN p \cap Fields : p[f] \in Stored(f)
BY DEF Fits, Fields

(* What a patch that fits makes of a row. *)
LEMMA FitRow ==
  ASSUME NEW row \in Row, NEW p, Fits(p), NEW completed
  PROVE  /\ \A f \in Fields \cup {"st"} : Patched(row, p, completed)[f] = IF f \in DOMAIN p THEN p[f] ELSE row[f]
         /\ Patched(row, p, completed)["done"] = IF Clears(p, completed) THEN FALSE ELSE row["done"]
<1>1. /\ DOMAIN p \subseteq Fields \cup {"done"} /\ "done" \notin DOMAIN p
      /\ \A f \in DOMAIN p \cap Fields : p[f] \in Stored(f)
  BY FitNames
<1>2. "done" \in DOMAIN p => p["done"] \in BOOLEAN  BY <1>1
<1>3. Follows(row, p, completed, Patched(row, p, completed))  BY <1>1, <1>2, PatchedRow
<1> QED  BY <1>1, <1>3 DEF Follows

(* The write of a patch that fits: only a patch that enables by a stale look breaks the agreement. *)
LEMMA WriteAgrees ==
  ASSUME NEW row \in Row, NEW p, Fits(p), NEW peeked \in BOOLEAN, Agrees(row),
         ~Agrees(Patched(row, p, peeked))
  PROVE  ~peeked /\ row.done /\ "on" \in DOMAIN p
<1> DEFINE new == Patched(row, p, peeked)
<1>1. /\ \A f \in Fields \cup {"st"} : new[f] = IF f \in DOMAIN p THEN p[f] ELSE row[f]
      /\ new["done"] = IF Clears(p, peeked) THEN FALSE ELSE row["done"]
  BY FitRow
<1>2. new["done"] /\ (~new["goal"] \/ new["on"])  BY DEF Agrees
<1>3. new["goal"] = (IF "goal" \in DOMAIN p THEN p["goal"] ELSE row["goal"])
      /\ new["on"] = (IF "on" \in DOMAIN p THEN p["on"] ELSE row["on"])
  BY <1>1 DEF Fields
<1> HIDE DEF new
<1>4. ~Clears(p, peeked) /\ row["done"]  BY <1>1, <1>2, FitNames
<1>5. row["goal"] /\ ~row["on"]  BY <1>4 DEF Agrees
<1>6. new["goal"]  BY <1>3, <1>4, <1>5 DEF Clears
<1>7. "on" \in DOMAIN p /\ p["on"]  BY <1>2, <1>3, <1>5, <1>6
<1> QED  BY <1>4, <1>7, FitNames DEF Clears

(* The completion: the goal it is stamped over may be gone. *)
LEMMA StampAgrees ==
  ASSUME NEW row \in Row, ~Agrees(Patched(row, Completion, FALSE))
  PROVE  ~row.goal
<1> DEFINE new == Patched(row, Completion, FALSE)
<1>1. DOMAIN Completion = {"done", "on"} /\ Completion["done"] = TRUE /\ Completion["on"] = FALSE  BY DEF Completion
<1>2. DOMAIN Completion \subseteq Fields \cup {"done"} /\ \A f \in DOMAIN Completion \cap Fields : Completion[f] \in Stored(f)
  BY <1>1 DEF Fields, Stored
<1>3. \A f \in Fields \cup {"st"} : new[f] = IF f \in DOMAIN Completion THEN Completion[f] ELSE row[f]
  BY <1>1, <1>2, PatchedRow DEF Follows
<1>4. new["goal"] = row["goal"] /\ new["on"] = FALSE  BY <1>1, <1>3 DEF Fields
<1> QED  BY <1>4 DEF Agrees

(* Only the writes, the pinned time and the deletion touch the row. *)
LEMMA RowSteps ==
  ASSUME Next
  PROVE  \/ loop' = loop
         \/ PinPasses \/ DeleteLoop
         \/ \E q \in Reqs : Write(q) \/ FinishStamp(q)
<1>1. CASE LifeStep  BY <1>1 DEF LifeStep, Claim, Report, Reclaim
<1>2. ASSUME NEW q \in Reqs, EditStep(q) PROVE loop' = loop \/ Write(q)
  BY <1>2 DEF EditStep, EditBegin, SchemaUi, SchemaRuns, Peek
<1>3. ASSUME NEW q \in Reqs, VerbStep(q) PROVE loop' = loop \/ FinishStamp(q)
  BY <1>3 DEF VerbStep, VerbBegin, VerbState, ReportRow, FinishGoal, FinishRow, AuditRead, AuditWrite
<1> QED  BY <1>1, <1>2, <1>3 DEF Next

(* updateLoop and finishLoop: the completion agrees with the goal and the switch, but for a   *)
(* `finish` whose goal was cleared after its last look and a reopening that looked too early. *)
THEOREM CompletionAgreesHolds == Spec => CompletionAgrees
<1> DEFINE Fault == \E q \in Reqs : \/ At(q, "stamp") /\ ~loop.goal
                                    \/ At(q, "write") /\ ~req[q].peeked /\ loop.done
                                       /\ "on" \in DOMAIN req[q].patch
<1>1. ASSUME VInv, Next, Agrees(loop), ~Agrees(loop)' PROVE Fault
  <2>0. loop \in Row /\ CarriesFit /\ \A q \in Reqs : req[q] \in Requests  BY <1>1 DEF VInv, RowsTyped
  <2>1. loop' # loop  BY <1>1 DEF Agrees
  <2>2. CASE PinPasses
    <3>1. loop'.done = loop.done /\ loop'.goal = loop.goal /\ loop'.on = loop.on
      BY <2>0, <2>2 DEF PinPasses, Row
    <3> QED  BY <1>1, <3>1 DEF Agrees
  <2>3. CASE DeleteLoop
    <3>1. loop'.done = loop.done /\ loop'.goal = loop.goal /\ loop'.on = loop.on
      BY <2>0, <2>3 DEF DeleteLoop, Row
    <3> QED  BY <1>1, <3>1 DEF Agrees
  <2>4. ASSUME NEW q \in Reqs, Write(q) PROVE Fault
    <3> DEFINE p == req[q].patch
               peeked == req[q].peeked
    <3>1. At(q, "write") /\ loop' = Patched(loop, p, peeked)  BY <2>1, <2>4 DEF Write
    <3>2. Fits(p) /\ peeked \in BOOLEAN  BY <2>0, <3>1 DEF CarriesFit, At, Requests
    <3>3. ~Agrees(Patched(loop, p, peeked))  BY <1>1, <3>1 DEF Agrees
    <3>4. ~peeked /\ loop.done /\ "on" \in DOMAIN p  BY <1>1, <2>0, <3>2, <3>3, WriteAgrees
    <3> QED  BY <3>1, <3>4
  <2>5. ASSUME NEW q \in Reqs, FinishStamp(q) PROVE Fault
    <3>1. At(q, "stamp") /\ loop' = Patched(loop, req[q].patch, FALSE)  BY <2>1, <2>5 DEF FinishStamp
    <3>2. req[q].patch = Completion  BY <2>0, <3>1 DEF CarriesFit, At
    <3>3. ~Agrees(Patched(loop, Completion, FALSE))  BY <1>1, <3>1, <3>2 DEF Agrees
    <3>4. ~loop.goal  BY <2>0, <3>3, StampAgrees
    <3> QED  BY <3>1, <3>4
  <2> QED  BY <1>1, <2>1, <2>2, <2>3, <2>4, <2>5, RowSteps
<1>2. VInv /\ [Next]_vars => [Agrees(loop) /\ ~Agrees(loop)' => Fault]_vars  BY <1>1
<1> QED  BY <1>2, VInvInductive, PTL DEF Spec, CompletionAgrees

(* A request that is about to write leaves that place by its write. *)
LEMMA LeavesByWriting ==
  ASSUME Next, RowsTyped, NEW q \in Reqs, At(q, "write"), req'[q] # req[q]
  PROVE  Write(q)
<1>1. ASSUME NEW s \in Reqs, NEW x, req' = [req EXCEPT ![s] = x] PROVE s = q
  BY <1>1 DEF RowsTyped
<1>2. ASSUME LifeStep PROVE FALSE
  BY <1>2 DEF LifeStep, Claim, Report, Reclaim, PinPasses, DeleteLoop
<1>3. ASSUME NEW s \in Reqs, EditStep(s) PROVE s = q /\ Write(s)
  <2>1. ASSUME NEW p \in Patches, EditBegin(s, p) PROVE FALSE
    BY <1>1, <2>1 DEF EditBegin, At
  <2>2. CASE SchemaUi(s)  BY <1>1, <2>2 DEF SchemaUi, At, RowsTyped
  <2>3. CASE SchemaRuns(s)  BY <1>1, <2>3 DEF SchemaRuns, At, RowsTyped, Conclude, GoTo, End
  <2>4. CASE Peek(s)  BY <1>1, <2>4 DEF Peek, At, RowsTyped
  <2>5. CASE Write(s)  BY <1>1, <2>5 DEF Write, At, RowsTyped, Conclude, GoTo, End
  <2> QED  BY <1>3, <2>1, <2>2, <2>3, <2>4, <2>5 DEF EditStep
<1>4. ASSUME NEW s \in Reqs, VerbStep(s) PROVE FALSE
  <2>1. ASSUME NEW r \in Runs, NEW c \in Verbs, VerbBegin(s, r, c) PROVE FALSE
    BY <1>1, <2>1 DEF VerbBegin, At
  <2>2. CASE VerbState(s)  BY <1>1, <2>2 DEF VerbState, At, RowsTyped, GoTo, End
  <2>3. CASE ReportRow(s)  BY <1>1, <2>3 DEF ReportRow, At, RowsTyped, End
  <2>4. CASE FinishGoal(s)  BY <1>1, <2>4 DEF FinishGoal, At, RowsTyped, GoTo, End
  <2>5. CASE FinishRow(s)  BY <1>1, <2>5 DEF FinishRow, At, RowsTyped, GoTo
  <2>6. CASE FinishStamp(s)  BY <1>1, <2>6 DEF FinishStamp, At, RowsTyped, End
  <2>7. CASE AuditRead(s)  BY <1>1, <2>7 DEF AuditRead, At, RowsTyped
  <2>8. CASE AuditWrite(s)  BY <1>1, <2>8 DEF AuditWrite, At, RowsTyped, End
  <2> QED  BY <1>4, <2>1, <2>2, <2>3, <2>4, <2>5, <2>6, <2>7, <2>8 DEF VerbStep
<1> QED  BY <1>2, <1>3, <1>4 DEF Next

(* editLoop and its dry run agree on a row: what the write changes is what was announced. *)
LEMMA PreviewedRow ==
  ASSUME NEW row \in Row, NEW used, NEW p, Fits(p), NEW peeked \in BOOLEAN,
         Rejections(row, used, p) = {}, "on" \in DOMAIN p => peeked = row.done
  PROVE  {f \in DOMAIN row : Patched(row, p, peeked)[f] # row[f]} = Preview(row, used, p)
<1> DEFINE new == Patched(row, p, peeked)
           Reopens == ("goal" \in DOMAIN p /\ ~p["goal"]) \/ ("on" \in DOMAIN p /\ p["on"])
<1>1. /\ \A f \in Fields \cup {"st"} : new[f] = IF f \in DOMAIN p THEN p[f] ELSE row[f]
      /\ new["done"] = IF Clears(p, peeked) THEN FALSE ELSE row["done"]
  BY FitRow
<1>2. DOMAIN p \subseteq Fields /\ "done" \notin DOMAIN p /\ "st" \notin DOMAIN p
  BY FitNames DEF Fields
<1>3. DOMAIN row = Fields \cup {"st", "done"} /\ row["done"] \in BOOLEAN  BY RowDomain DEF Row
<1>4. Preview(row, used, p) = {f \in DOMAIN p : p[f] # row[f]} \cup (IF row.done /\ Reopens THEN {"done"} ELSE {})
  <2>1. DOMAIN p \ Rejections(row, used, p) = DOMAIN p  OBVIOUS
  <2> QED  BY <2>1 DEF Preview
<1>5. (new["done"] # row["done"]) <=> (row.done /\ Reopens)
  <2>1. new["done"] = IF Clears(p, peeked) THEN FALSE ELSE row["done"]  BY <1>1, <1>2
  <2>2. (Clears(p, peeked) /\ row.done) <=> (row.done /\ Reopens)  BY <1>2, <1>3 DEF Clears
  <2> QED  BY <1>3, <2>1, <2>2
<1>6. \A f \in Fields \cup {"st"} : (new[f] # row[f]) <=> (f \in DOMAIN p /\ p[f] # row[f])  BY <1>1
<1> HIDE DEF new, Reopens
<1>7. {f \in DOMAIN row : new[f] # row[f]} = {f \in DOMAIN p : p[f] # row[f]}
                                              \cup (IF row.done /\ Reopens THEN {"done"} ELSE {})
  <2>1. ASSUME NEW f \in DOMAIN row, new[f] # row[f]
        PROVE  (f \in DOMAIN p /\ p[f] # row[f]) \/ (f = "done" /\ row.done /\ Reopens)
    BY <1>3, <1>5, <1>6, <2>1
  <2>2. ASSUME NEW f \in DOMAIN p, p[f] # row[f] PROVE f \in DOMAIN row /\ new[f] # row[f]
    BY <1>2, <1>3, <1>6, <2>2
  <2>3. ASSUME row.done, Reopens PROVE "done" \in DOMAIN row /\ new["done"] # row["done"]
    BY <1>3, <1>5, <2>3
  <2> QED  BY <2>1, <2>2, <2>3
<1> QED  BY <1>4, <1>7 DEF new

(* The owner's edit changes what a dry run would have announced just before it. *)
THEOREM PreviewIsHonestHolds == Spec => PreviewIsHonest
<1> DEFINE Foretold(q) ==
      LET p == req[q].patch
      IN  At(q, "write") /\ Owner(q) /\ req'[q] = NoReq /\ loop.st = "live"
          /\ Rejections(loop, Used, p) = {} /\ ("on" \in DOMAIN p => req[q].peeked = loop.done)
          => {f \in DOMAIN loop : loop'[f] # loop[f]} = Preview(loop, Used, p)
<1>1. ASSUME VInv, Next, NEW q \in Reqs PROVE Foretold(q)
  <2> DEFINE p == req[q].patch
             peeked == req[q].peeked
  <2> SUFFICES ASSUME At(q, "write"), req'[q] = NoReq, loop.st = "live", Rejections(loop, Used, p) = {},
                      "on" \in DOMAIN p => peeked = loop.done
               PROVE  {f \in DOMAIN loop : loop'[f] # loop[f]} = Preview(loop, Used, p)
    OBVIOUS
  <2>0. RowsTyped /\ loop \in Row /\ CarriesFit /\ req[q] \in Requests  BY <1>1 DEF VInv, RowsTyped
  <2>1. Write(q)  BY <1>1, <2>0, NoReqTyped, LeavesByWriting DEF At
  <2>2. loop' = Patched(loop, p, peeked)  BY <2>1 DEF Write
  <2>3. Fits(p) /\ peeked \in BOOLEAN  BY <2>0 DEF CarriesFit, At, Requests
  <2> HIDE DEF p, peeked
  <2>4. {f \in DOMAIN loop : Patched(loop, p, peeked)[f] # loop[f]} = Preview(loop, Used, p)
    BY <2>0, <2>3, PreviewedRow
  <2> QED  BY <2>2, <2>4
<1> HIDE DEF Foretold
<1>2. VInv /\ [Next]_vars => [\A q \in Reqs : Foretold(q)]_vars  BY <1>1
<1>3. (Spec => [][\A q \in Reqs : Foretold(q)]_vars) => (Spec => PreviewIsHonest)  BY DEF PreviewIsHonest, Foretold
<1> QED  BY <1>2, <1>3, VInvInductive, PTL DEF Spec

(***************************************************************************)
(* LocalSetup.  A command that a hook may be given stays one: it lasts, or *)
(* the user took it away, or it is the bare name that was asked for.       *)
(***************************************************************************)
Fit(p) ==
  \/ p = "bare" /\ asked
  \/ p \in Setup!Places \ {"npx"} /\ (bin[p] # "none" \/ p \in removed)
CommandFits(c) ==
  /\ DOMAIN c = {"pc", "verb", "via", "i", "cmd", "copy"}
  /\ c.pc \in {"unborn", "skill", "look", "shim", "resolve"} => c.cmd = "bare"
  /\ c.pc \in {"look", "shim", "resolve"} => c.verb \in {"up", "install", "remove"}
  /\ c.pc \in {"read", "empty", "fill"} => c.verb = "remove" \/ Fit(c.cmd)
  /\ c.pc \in {"empty", "fill"} =>
       DOMAIN c.copy = {"is", "theirs", "mixed", "ours"} /\ \A p \in c.copy.ours : Fit(p)

HookInv ==
  /\ DOMAIN bin = Setup!Places /\ DOMAIN conf = Setup!AgentIds /\ DOMAIN cli = Reqs
  /\ \A a \in Setup!AgentIds : DOMAIN conf[a] = {"is", "theirs", "mixed", "ours"} /\ \A p \in conf[a].ours : Fit(p)
  /\ \A c \in Reqs : CommandFits(cli[c])

LEMMA NoFileShape ==
  /\ DOMAIN Setup!NoFile = {"is", "theirs", "mixed", "ours"} /\ Setup!NoFile.ours = {}
  /\ DOMAIN Setup!Torn = {"is", "theirs", "mixed", "ours"} /\ Setup!Torn.ours = {}
BY DEF Setup!NoFile, Setup!Torn

LEMMA OverCommandFits == CommandFits([Setup!NoProc EXCEPT !.pc = "over"])
BY DEF CommandFits, Setup!NoProc

LEMMA HookStart == Setup!Init => HookInv
<1> SUFFICES ASSUME Setup!Init PROVE HookInv  OBVIOUS
<1>1. \A a \in Setup!AgentIds : conf[a] = Setup!NoFile  BY DEF Setup!Init
<1>2. \A c \in Reqs : CommandFits(cli[c])  BY DEF Setup!Init, CommandFits, Setup!NoProc
<1> QED  BY <1>1, <1>2, NoFileShape DEF HookInv, Setup!Init

(* A step that takes no `loopany` away, but by the user's hand, and moves one command. *)
LEMMA OneMoves ==
  ASSUME HookInv, NEW q \in Reqs, NEW x, cli' = [cli EXCEPT ![q] = x], CommandFits(x)',
         DOMAIN bin' = DOMAIN bin, \A p : Fit(p) => Fit(p)',
         DOMAIN conf' = DOMAIN conf,
         \A a \in Setup!AgentIds : conf'[a] = conf[a] \/
           (DOMAIN conf'[a] = {"is", "theirs", "mixed", "ours"} /\ \A p \in conf'[a].ours : Fit(p)')
  PROVE  HookInv'
<1>1. DOMAIN cli' = Reqs /\ \A c \in Reqs : cli'[c] = x \/ cli'[c] = cli[c]  BY DEF HookInv
<1>2. \A c \in Reqs : CommandFits(cli[c])'  BY <1>1 DEF HookInv, CommandFits
<1>3. \A a \in Setup!AgentIds :
        DOMAIN conf'[a] = {"is", "theirs", "mixed", "ours"} /\ \A p \in conf'[a].ours : Fit(p)'
  BY DEF HookInv
<1> QED  BY <1>1, <1>2, <1>3 DEF HookInv, Setup!AgentIds, Setup!Places

(* No step forgets what was asked for, or removes what lasts but by the user's hand. *)
LEMMA FitStays ==
  ASSUME HookInv, Setup!Next
  PROVE  DOMAIN bin' = DOMAIN bin /\ \A p : Fit(p) => Fit(p)'
<1>1. ASSUME NEW p, UNCHANGED removed, asked => asked', DOMAIN bin' = DOMAIN bin,
             \A r \in Setup!Places \ {"npx"} : bin[r] # "none" => bin'[r] # "none"
      PROVE  DOMAIN bin' = DOMAIN bin /\ (Fit(p) => Fit(p)')
  BY <1>1 DEF Fit, Setup!Places
<1>2. ASSUME UNCHANGED <<bin, removed>>, asked => asked' PROVE DOMAIN bin' = DOMAIN bin /\ \A p : Fit(p) => Fit(p)'
  BY <1>1, <1>2
<1>3. ASSUME NEW q \in Reqs, NEW verb, NEW via, Setup!Begin(q, verb, via)
      PROVE  DOMAIN bin' = DOMAIN bin /\ \A p : Fit(p) => Fit(p)'
  BY <1>1, <1>3 DEF Setup!Begin, Setup!history, HookInv, Setup!Places
<1>4. ASSUME NEW q \in Reqs, Setup!ShimWrite(q) PROVE DOMAIN bin' = DOMAIN bin /\ \A p : Fit(p) => Fit(p)'
  BY <1>1, <1>4 DEF Setup!ShimWrite, Setup!history, HookInv
<1>5. ASSUME NEW q \in Reqs,
             Setup!SkillStep(q) \/ Setup!ShimLook(q) \/ Setup!Resolve(q) \/ Setup!HookRead(q) \/ Setup!HookEmpty(q)
             \/ Setup!HookFill(q) \/ Setup!Killed(q)
      PROVE  DOMAIN bin' = DOMAIN bin /\ \A p : Fit(p) => Fit(p)'
  <2>1. UNCHANGED <<bin, removed>>
    <3>1. CASE Setup!Resolve(q)  BY <3>1 DEF Setup!Resolve, Setup!fs
    <3>2. CASE Setup!SkillStep(q) \/ Setup!ShimLook(q) \/ Setup!Killed(q)
      BY <3>2 DEF Setup!SkillStep, Setup!ShimLook, Setup!Killed, Setup!fs, Setup!history
    <3>3. CASE Setup!HookRead(q) \/ Setup!HookEmpty(q) \/ Setup!HookFill(q)
      BY <3>3 DEF Setup!HookRead, Setup!HookEmpty, Setup!HookFill, Setup!fs, Setup!history
    <3> QED  BY <1>5, <3>1, <3>2, <3>3
  <2>2. asked => asked'
    <3>1. CASE Setup!Resolve(q)  BY <3>1, Zenon DEF Setup!Resolve
    <3>2. CASE Setup!SkillStep(q) \/ Setup!ShimLook(q) \/ Setup!Killed(q)
      BY <3>2, Zenon DEF Setup!SkillStep, Setup!ShimLook, Setup!Killed, Setup!fs, Setup!history
    <3>3. CASE Setup!HookRead(q) \/ Setup!HookEmpty(q) \/ Setup!HookFill(q)
      BY <3>3, Zenon DEF Setup!HookRead, Setup!HookEmpty, Setup!HookFill, Setup!fs, Setup!history
    <3> QED  BY <1>5, <3>1, <3>2, <3>3
  <2> QED  BY <1>2, <2>1, <2>2
<1>6. ASSUME NEW a, NEW n, Setup!TheyAdd(a, n) PROVE DOMAIN bin' = DOMAIN bin /\ \A p : Fit(p) => Fit(p)'
  BY <1>2, <1>6 DEF Setup!TheyAdd
<1>7. ASSUME NEW r \in Setup!Places, Setup!TheyInstall(r) PROVE DOMAIN bin' = DOMAIN bin /\ \A p : Fit(p) => Fit(p)'
  BY <1>1, <1>7 DEF Setup!TheyInstall, Setup!history, HookInv
<1>8. ASSUME NEW r \in Setup!Places, Setup!TheyUninstall(r) PROVE DOMAIN bin' = DOMAIN bin /\ \A p : Fit(p) => Fit(p)'
  BY <1>8 DEF Setup!TheyUninstall, HookInv, Fit
<1>9. CASE Setup!Prune
  BY <1>1, <1>9 DEF Setup!Prune, Setup!history, HookInv
<1> QED  BY <1>3, <1>4, <1>5, <1>6, <1>7, <1>8, <1>9 DEF Setup!Next

(* The place a command was found at. *)
LEMMA SeenArePlaces == ASSUME NEW via, NEW i \in DOMAIN Setup!Seen(via) PROVE Setup!Seen(via)[i] \in Setup!Places
BY DEF Setup!Seen, Setup!Candidates, Setup!OnPath, Setup!Places

(* Over, or on to the next file. *)
LEMMA AdvanceFits ==
  ASSUME HookInv, Setup!Next, NEW q \in Reqs, cli[q].pc \in {"read", "empty", "fill"}
  PROVE  \E x : Setup!Advance(q) = [cli EXCEPT ![q] = x] /\ CommandFits(x)'
<1>1. CommandFits(cli[q]) /\ \A p : Fit(p) => Fit(p)'  BY FitStays DEF HookInv
<1>2. CASE cli[q].i < Len(Agents)
  <2>0. PICK n, x : n = cli[q].i + 1 /\ x = [cli[q] EXCEPT !.pc = "read", !.i = n, !.copy = Setup!NoFile]  OBVIOUS
  <2>1. Setup!Advance(q) = [cli EXCEPT ![q] = x]  BY <1>2, <2>0 DEF Setup!Advance, HookInv
  <2>2. DOMAIN x = {"pc", "verb", "via", "i", "cmd", "copy"} /\ x.pc = "read" /\ x.verb = cli[q].verb /\ x.cmd = cli[q].cmd
    BY <1>1, <2>0 DEF CommandFits
  <2>3. CommandFits(x)'  BY <1>1, <2>2 DEF CommandFits
  <2> QED  BY <2>1, <2>3
<1>3. CASE ~(cli[q].i < Len(Agents))
  <2>0. PICK x : x = [Setup!NoProc EXCEPT !.pc = "over"]  OBVIOUS
  <2>1. Setup!Advance(q) = [cli EXCEPT ![q] = x]  BY <1>3, <2>0 DEF Setup!Advance, Setup!Over
  <2>2. CommandFits(x)'  BY <2>0 DEF CommandFits, Setup!NoProc
  <2> QED  BY <2>1, <2>2
<1> QED  BY <1>2, <1>3

LEMMA HookReadKeeps == ASSUME HookInv, Setup!Next, NEW q \in Reqs, Setup!HookRead(q) PROVE HookInv'
<1>1. CommandFits(cli[q]) /\ cli[q].pc = "read" /\ UNCHANGED conf
  BY DEF HookInv, Setup!HookRead, Setup!At, Setup!fs
<1>2. DOMAIN bin' = DOMAIN bin /\ \A p : Fit(p) => Fit(p)'  BY FitStays
<1>0. PICK m : m = Setup!Merged(q, Setup!Parsed(conf[Setup!Agent(q)]))  OBVIOUS
<1>5. PICK x : x = [cli[q] EXCEPT !.pc = "empty", !.copy = m]  OBVIOUS
<1>3. CASE cli' = Setup!Advance(q)
  <2>1. PICK y : Setup!Advance(q) = [cli EXCEPT ![q] = y] /\ CommandFits(y)'  BY <1>1, AdvanceFits
  <2> QED  BY <1>1, <1>2, <1>3, <2>1, OneMoves
<1>4. CASE cli' = [cli EXCEPT ![q].pc = "empty", ![q].copy = m]
  <2>1. cli' = [cli EXCEPT ![q] = x]  BY <1>4, <1>5 DEF HookInv
  <2>2. DOMAIN m = {"is", "theirs", "mixed", "ours"} /\ \A p \in m.ours : Fit(p)
    BY <1>0, <1>1 DEF Setup!Merged, CommandFits
  <2>3. /\ DOMAIN x = {"pc", "verb", "via", "i", "cmd", "copy"} /\ x.pc = "empty" /\ x.verb = cli[q].verb
        /\ x.cmd = cli[q].cmd /\ x.copy = m
    BY <1>1, <1>5 DEF CommandFits
  <2>4. CommandFits(x)'  BY <1>1, <1>2, <2>2, <2>3 DEF CommandFits
  <2> QED  BY <1>1, <1>2, <2>1, <2>4, OneMoves
<1> QED  BY <1>0, <1>3, <1>4 DEF Setup!HookRead

LEMMA HookWritesKeep ==
  ASSUME HookInv, Setup!Next, NEW q \in Reqs, Setup!HookEmpty(q) \/ Setup!HookFill(q) PROVE HookInv'
<1>1. CommandFits(cli[q]) /\ cli[q].pc \in {"empty", "fill"}
  BY DEF HookInv, Setup!HookEmpty, Setup!HookFill, Setup!At
<1>2. DOMAIN bin' = DOMAIN bin /\ \A p : Fit(p) => Fit(p)'  BY FitStays
<1>3. PICK y : Setup!Advance(q) = [cli EXCEPT ![q] = y] /\ CommandFits(y)'  BY <1>1, AdvanceFits
<1>4. CASE Setup!HookEmpty(q)
  <2>1. CASE conf' = [conf EXCEPT ![Setup!Agent(q)] = Setup!Torn] /\ Setup!GoTo(q, "fill")
    <3>0. PICK x : x = [cli[q] EXCEPT !.pc = "fill"]  OBVIOUS
    <3>1. cli' = [cli EXCEPT ![q] = x] /\ DOMAIN conf' = DOMAIN conf  BY <2>1, <3>0 DEF Setup!GoTo, HookInv
    <3>2. \A a \in Setup!AgentIds : conf'[a] = conf[a] \/ conf'[a] = Setup!Torn  BY <2>1 DEF HookInv
    <3>3. /\ DOMAIN x = {"pc", "verb", "via", "i", "cmd", "copy"} /\ x.pc = "fill" /\ x.verb = cli[q].verb
          /\ x.cmd = cli[q].cmd /\ x.copy = cli[q].copy
      BY <1>1, <3>0 DEF CommandFits
    <3>4. cli[q].pc = "empty"  BY <1>4 DEF Setup!HookEmpty, Setup!At
    <3>5. CommandFits(x)'  BY <1>1, <1>2, <3>3, <3>4 DEF CommandFits
    <3> QED  BY <1>2, <3>1, <3>2, <3>5, NoFileShape, OneMoves
  <2>2. CASE cli' = Setup!Advance(q) /\ UNCHANGED conf  BY <1>2, <1>3, <2>2, OneMoves
  <2> QED  BY <1>4, <2>1, <2>2 DEF Setup!HookEmpty
<1>5. CASE Setup!HookFill(q)
  <2>1. PICK f \in {cli[q].copy, Setup!Torn} : conf' = [conf EXCEPT ![Setup!Agent(q)] = f]
    BY <1>5 DEF Setup!HookFill
  <2>2. cli' = Setup!Advance(q)  BY <1>5 DEF Setup!HookFill
  <2>3. DOMAIN conf' = DOMAIN conf /\ \A a \in Setup!AgentIds : conf'[a] = conf[a] \/ conf'[a] = f
    BY <2>1 DEF HookInv
  <2>4. DOMAIN f = {"is", "theirs", "mixed", "ours"} /\ \A p \in f.ours : Fit(p)'
    BY <1>1, <1>2, <2>1, NoFileShape DEF CommandFits
  <2> QED  BY <1>2, <1>3, <2>2, <2>3, <2>4, OneMoves
<1> QED  BY <1>4, <1>5

(* The shim, and the search for a command that lasts. *)
LEMMA ShimKeeps ==
  ASSUME HookInv, Setup!Next, NEW q \in Reqs,
         \/ \E verb \in {"up", "skill", "install", "remove"}, via \in {"npx", "npm", "installed"} : Setup!Begin(q, verb, via)
         \/ Setup!SkillStep(q) \/ Setup!ShimLook(q) \/ Setup!ShimWrite(q) \/ Setup!Resolve(q) \/ Setup!Killed(q)
  PROVE  HookInv'
<1>1. CommandFits(cli[q])  BY DEF HookInv
<1>2. UNCHANGED conf
  BY DEF Setup!Begin, Setup!SkillStep, Setup!ShimLook, Setup!ShimWrite, Setup!Resolve, Setup!Killed, Setup!fs
<1>3. DOMAIN bin' = DOMAIN bin /\ \A p : Fit(p) => Fit(p)'  BY FitStays
<1>4. CASE cli' = Setup!Over(q)
  <2>1. CommandFits([Setup!NoProc EXCEPT !.pc = "over"])'  BY DEF CommandFits, Setup!NoProc
  <2> QED  BY <1>2, <1>3, <1>4, <2>1, OneMoves DEF Setup!Over
<1>5. ASSUME NEW x, cli' = [cli EXCEPT ![q] = x], DOMAIN x = DOMAIN cli[q], x.cmd = "bare",
             x.pc \in {"skill", "look", "shim", "resolve"}, x.pc \in {"look", "shim", "resolve"} => x.verb \in {"up", "install", "remove"}
      PROVE  HookInv'
  <2>1. CommandFits(x)'  BY <1>1, <1>5 DEF CommandFits
  <2> QED  BY <1>2, <1>3, <1>5, <2>1, OneMoves
<1>6. ASSUME NEW verb \in {"up", "skill", "install", "remove"}, NEW via \in {"npx", "npm", "installed"}, Setup!Begin(q, verb, via)
      PROVE  HookInv'
  <2>0. PICK pc, x : /\ pc = IF verb \in {"up", "skill"} THEN "skill" ELSE "resolve"
                     /\ x = [cli[q] EXCEPT !.pc = pc, !.verb = verb, !.via = via]
    OBVIOUS
  <2>1. cli' = [cli EXCEPT ![q] = x]  BY <1>6, <2>0 DEF Setup!Begin, HookInv
  <2>2. pc \in {"skill", "resolve"} /\ (pc = "resolve" => verb \in {"up", "install", "remove"})  BY <2>0
  <2>3. DOMAIN x = DOMAIN cli[q] /\ x.pc = pc /\ x.verb = verb /\ x.cmd = cli[q].cmd  BY <1>1, <2>0 DEF CommandFits
  <2>4. cli[q].cmd = "bare"  BY <1>1, <1>6 DEF CommandFits, Setup!Begin, Setup!At
  <2> QED  BY <1>5, <2>1, <2>2, <2>3, <2>4
<1>7. ASSUME NEW pc \in {"look", "shim", "resolve"}, NEW i, cli' = [cli EXCEPT ![q].pc = pc, ![q].i = i],
             cli[q].pc \in {"skill", "look", "shim", "resolve"}, cli[q].verb \in {"up", "install", "remove"}
      PROVE  HookInv'
  <2>0. PICK x : x = [cli[q] EXCEPT !.pc = pc, !.i = i]  OBVIOUS
  <2>1. cli' = [cli EXCEPT ![q] = x]  BY <1>7, <2>0 DEF HookInv
  <2>2. DOMAIN x = DOMAIN cli[q] /\ x.pc = pc /\ x.verb = cli[q].verb /\ x.cmd = cli[q].cmd
    BY <1>1, <2>0 DEF CommandFits
  <2>3. cli[q].cmd = "bare"  BY <1>1, <1>7 DEF CommandFits
  <2> QED  BY <1>5, <1>7, <2>1, <2>2, <2>3
<1>8. CASE Setup!SkillStep(q)
  <2>1. CASE cli[q].verb = "up" /\ Setup!GoTo(q, "look")
    <3>0. PICK x : x = [cli[q] EXCEPT !.pc = "look"]  OBVIOUS
    <3>1. cli' = [cli EXCEPT ![q] = x]  BY <2>1, <3>0 DEF Setup!GoTo, HookInv
    <3>2. DOMAIN x = DOMAIN cli[q] /\ x.pc = "look" /\ x.verb = cli[q].verb /\ x.cmd = cli[q].cmd
      BY <1>1, <3>0 DEF CommandFits
    <3>3. cli[q].cmd = "bare"  BY <1>1, <1>8 DEF CommandFits, Setup!SkillStep, Setup!At
    <3> QED  BY <1>5, <2>1, <3>1, <3>2, <3>3
  <2> QED  BY <1>4, <1>8, <2>1 DEF Setup!SkillStep
<1>9. CASE Setup!ShimLook(q)
  <2>1. cli[q].pc = "look" /\ cli[q].verb \in {"up", "install", "remove"}  BY <1>1, <1>9 DEF Setup!ShimLook, Setup!At, CommandFits
  <2>2. \/ cli' = [cli EXCEPT ![q].pc = "resolve", ![q].i = 1]
        \/ cli' = [cli EXCEPT ![q].i = cli[q].i + 1]
        \/ cli' = [cli EXCEPT ![q].pc = "shim"]
    BY <1>9 DEF Setup!ShimLook, Setup!ShimDone
  <2>3. CASE cli' = [cli EXCEPT ![q].i = cli[q].i + 1]
    <3>0. PICK n : n = cli[q].i + 1  OBVIOUS
    <3>1. [cli[q] EXCEPT !.i = n] = [cli[q] EXCEPT !.pc = "look", !.i = n]  BY <1>1, <2>1 DEF CommandFits
    <3>2. cli' = [cli EXCEPT ![q].pc = "look", ![q].i = n]  BY <2>3, <3>0, <3>1 DEF HookInv
    <3> QED  BY <1>7, <2>1, <3>2
  <2>4. CASE cli' = [cli EXCEPT ![q].pc = "shim"]
    <3>0. PICK n : n = cli[q].i  OBVIOUS
    <3>1. [cli[q] EXCEPT !.pc = "shim"] = [cli[q] EXCEPT !.pc = "shim", !.i = n]  BY <1>1, <3>0 DEF CommandFits
    <3>2. cli' = [cli EXCEPT ![q].pc = "shim", ![q].i = n]  BY <2>4, <3>1 DEF HookInv
    <3> QED  BY <1>7, <2>1, <3>2
  <2> QED  BY <1>7, <2>1, <2>2, <2>3, <2>4
<1>10. CASE Setup!ShimWrite(q)
  <2>1. cli[q].pc = "shim" /\ cli[q].verb \in {"up", "install", "remove"}  BY <1>1, <1>10 DEF Setup!ShimWrite, Setup!At, CommandFits
  <2>0. PICK n : n = cli[q].i + 1  OBVIOUS
  <2>2. cli' = [cli EXCEPT ![q].pc = "resolve", ![q].i = 1] \/ cli' = [cli EXCEPT ![q].pc = "look", ![q].i = n]
    BY <1>10, <2>0 DEF Setup!ShimWrite, Setup!ShimDone
  <2> QED  BY <1>7, <2>1, <2>2
<1>11. CASE Setup!Resolve(q)
  <2>1. cli[q].pc = "resolve" /\ cli[q].verb \in {"up", "install", "remove"} /\ cli[q].cmd = "bare"
    BY <1>1, <1>11 DEF Setup!Resolve, Setup!At, CommandFits
  <2>2. ASSUME NEW p, cli' = [cli EXCEPT ![q].pc = "read", ![q].cmd = p], cli[q].verb = "remove" \/ Fit(p)'
        PROVE  HookInv'
    <3>0. PICK x : x = [cli[q] EXCEPT !.pc = "read", !.cmd = p]  OBVIOUS
    <3>1. cli' = [cli EXCEPT ![q] = x]  BY <2>2, <3>0 DEF HookInv
    <3>2. DOMAIN x = DOMAIN cli[q] /\ x.pc = "read" /\ x.verb = cli[q].verb /\ x.cmd = p  BY <1>1, <3>0 DEF CommandFits
    <3>3. CommandFits(x)'  BY <1>1, <2>2, <3>2 DEF CommandFits
    <3> QED  BY <1>2, <1>3, <3>1, <3>3, OneMoves
  <2> DEFINE seen == Setup!Seen(cli[q].via)
  <2>3. ASSUME NEW i \in DOMAIN seen, Setup!Lasts(seen[i]), cli' = [cli EXCEPT ![q].pc = "read", ![q].cmd = seen[i]]
        PROVE  HookInv'
    <3>0. PICK p : p = seen[i]  OBVIOUS
    <3>1. p \in Setup!Places  BY <2>3, <3>0, SeenArePlaces
    <3>2. bin[p] # "none" /\ p # "npx"  BY <2>3, <3>0 DEF Setup!Lasts, Setup!Ephemeral
    <3>3. Fit(p)  BY <3>1, <3>2 DEF Fit
    <3>4. cli' = [cli EXCEPT ![q].pc = "read", ![q].cmd = p]  BY <2>3, <3>0
    <3> QED  BY <1>3, <2>2, <3>3, <3>4
  <2>4. CASE cli[q].verb # "up" /\ Setup!GoTo(q, "read") /\ asked' = (asked \/ cli[q].verb = "install")
    <3>0. PICK x : x = [cli[q] EXCEPT !.pc = "read"]  OBVIOUS
    <3>1. cli' = [cli EXCEPT ![q] = x]  BY <2>4, <3>0 DEF Setup!GoTo, HookInv
    <3>2. DOMAIN x = DOMAIN cli[q] /\ x.pc = "read" /\ x.verb = cli[q].verb /\ x.cmd = "bare"
      BY <1>1, <2>1, <3>0 DEF CommandFits
    <3>3. cli[q].verb \in {"install", "remove"}  BY <1>1, <2>1, <2>4 DEF CommandFits
    <3>4. cli[q].verb = "remove" \/ Fit("bare")'  BY <2>4, <3>3 DEF Fit
    <3>5. CommandFits(x)'  BY <1>1, <3>2, <3>4 DEF CommandFits
    <3> QED  BY <1>2, <1>3, <3>1, <3>5, OneMoves
  <2> QED  BY <1>4, <1>11, <2>3, <2>4 DEF Setup!Resolve
<1>12. CASE Setup!Killed(q)  BY <1>4, <1>12 DEF Setup!Killed
<1> QED  BY <1>6, <1>8, <1>9, <1>10, <1>11, <1>12

(* What other tools write leaves our hooks as they were, and the user's hand is on record. *)
LEMMA TheyKeep ==
  ASSUME HookInv, Setup!Next,
         \/ \E a \in Setup!AgentIds, n \in Others : Setup!TheyAdd(a, n)
         \/ \E p \in Setup!Places : Setup!TheyInstall(p) \/ Setup!TheyUninstall(p)
         \/ Setup!Prune
  PROVE  HookInv'
<1>1. DOMAIN bin' = DOMAIN bin /\ \A p : Fit(p) => Fit(p)'  BY FitStays
<1>2. UNCHANGED cli  BY DEF Setup!TheyAdd, Setup!TheyInstall, Setup!TheyUninstall, Setup!Prune
<1>3. \A c \in Reqs : CommandFits(cli[c])'  BY <1>1, <1>2 DEF HookInv, CommandFits
<1>4. DOMAIN conf' = DOMAIN conf /\ \A a \in Setup!AgentIds : DOMAIN conf'[a] = DOMAIN conf[a] /\ conf'[a].ours = conf[a].ours
  <2>1. ASSUME NEW a \in Setup!AgentIds, NEW n \in Others, Setup!TheyAdd(a, n)
        PROVE  DOMAIN conf' = DOMAIN conf /\ \A b \in Setup!AgentIds : DOMAIN conf'[b] = DOMAIN conf[b] /\ conf'[b].ours = conf[b].ours
    BY <2>1 DEF Setup!TheyAdd, HookInv
  <2>2. CASE UNCHANGED conf  BY <2>2
  <2> QED  BY <2>1, <2>2 DEF Setup!TheyInstall, Setup!TheyUninstall, Setup!Prune
<1>5. \A a \in Setup!AgentIds :
        DOMAIN conf'[a] = {"is", "theirs", "mixed", "ours"} /\ \A p \in conf'[a].ours : Fit(p)'
  BY <1>1, <1>4 DEF HookInv
<1> QED  BY <1>1, <1>2, <1>3, <1>4, <1>5 DEF HookInv, Setup!AgentIds, Setup!Places

(* setup.ts: for any commands and agents, a hook names a `loopany` that is there, unless the user took it away or asked *)
(* for the hook without having one: not the cache of npx, and not a shim that was refused.                             *)
THEOREM HookCanRunHolds == Setup!Spec => []HookCanRun
<1>1. HookInv /\ [Setup!Next]_(Setup!vars) => HookInv'
  <2>1. ASSUME HookInv, UNCHANGED Setup!vars PROVE HookInv'
    BY <2>1 DEF HookInv, CommandFits, Fit, Setup!vars, Setup!history, Setup!AgentIds, Setup!Places
  <2>2. ASSUME HookInv, Setup!Next PROVE HookInv'
    <3>1. CASE \E q \in Reqs :
                 \/ \E verb \in {"up", "skill", "install", "remove"}, via \in {"npx", "npm", "installed"} : Setup!Begin(q, verb, via)
                 \/ Setup!SkillStep(q) \/ Setup!ShimLook(q) \/ Setup!ShimWrite(q) \/ Setup!Resolve(q) \/ Setup!Killed(q)
      BY <2>2, <3>1, ShimKeeps
    <3>2. CASE \E q \in Reqs : Setup!HookRead(q) \/ Setup!HookEmpty(q) \/ Setup!HookFill(q)
      BY <2>2, <3>2, HookReadKeeps, HookWritesKeep
    <3>3. CASE \/ \E a \in Setup!AgentIds, n \in Others : Setup!TheyAdd(a, n)
               \/ \E p \in Setup!Places : Setup!TheyInstall(p) \/ Setup!TheyUninstall(p)
               \/ Setup!Prune
      BY <2>2, <3>3, TheyKeep
    <3> QED  BY <2>2, <3>1, <3>2, <3>3 DEF Setup!Next
  <2> QED  BY <2>1, <2>2
<1>2. HookInv => HookCanRun
  BY DEF HookInv, Fit, HookCanRun, Setup!HookCanRun, Setup!Places
<1> QED  BY <1>1, <1>2, HookStart, PTL DEF Setup!Spec

(***************************************************************************)
(* RunReport.                                                              *)
(***************************************************************************)
ReportTyped == Reports!TypeOK

LEMMA ReportNumbers ==
  /\ ReportRuns \subseteq Nat /\ None \notin Nat
  /\ TransientRetries \in Nat /\ MaxItems \in Nat /\ MaxStamp \in Nat /\ MaxToggles \in Nat /\ MaxUpsets \in Nat
  /\ AutopauseStreak \in Nat \ {0} /\ NotifyEvery \in Nat \ {0}
BY ReportConstants DEF Reports!ReportConstantsOK

LEMMA BlanksTyped == Reports!NoJob \in Reports!Job /\ Reports!NoReport \in Reports!Handler
BY ReportNumbers DEF Reports!NoJob, Reports!NoReport, Reports!Job, Reports!Handler, Reports!Cursors

LEMMA ReportStartTyped == Reports!Init => ReportTyped
<1> SUFFICES ASSUME Reports!Init PROVE ReportTyped  OBVIOUS
<1>1. [phase |-> "none", ts |-> 0, shown |-> {}] \in Reports!Row  BY ReportNumbers DEF Reports!Row
<1>2. 0 \in Reports!Cursors /\ 0 \in 0..MaxStamp /\ 0 \in 0..MaxToggles /\ 0 \in 0..MaxUpsets
  BY ReportNumbers DEF Reports!Cursors
<1> QED  BY <1>1, <1>2, BlanksTyped DEF Reports!Init, ReportTyped, Reports!TypeOK

LEMMA DeliverTyped == ASSUME ReportTyped, NEW r \in ReportRuns, Reports!Deliver(r) PROVE ReportTyped'
<1>1. [runRows[r] EXCEPT !.phase = "running"] \in Reports!Row  BY DEF ReportTyped, Reports!TypeOK, Reports!Row
<1>2. runRows' \in [ReportRuns -> Reports!Row]  BY <1>1 DEF Reports!Deliver, ReportTyped, Reports!TypeOK
<1>3. job' \in [ReportRuns -> Reports!Job]
  <2>1. \A pc \in {"gate", "agent"} : [Reports!NoJob EXCEPT !.pc = pc, !.prev = state] \in Reports!Job
    BY BlanksTyped DEF ReportTyped, Reports!TypeOK, Reports!Job
  <2> QED  BY <2>1 DEF Reports!Deliver, ReportTyped, Reports!TypeOK
<1>4. upsets' \in 0..MaxUpsets  BY ReportNumbers DEF Reports!Deliver, Reports!Upset, ReportTyped, Reports!TypeOK
<1> QED  BY <1>2, <1>3, <1>4 DEF Reports!Deliver, Reports!loopVars, Reports!alerts, ReportTyped, Reports!TypeOK

LEMMA BecomesTyped ==
  ASSUME ReportTyped, NEW r \in ReportRuns, NEW j \in Reports!Job, Reports!Becomes(r, j), feed' \in Reports!Cursors
  PROVE  ReportTyped'
BY DEF Reports!Becomes, Reports!loopVars, Reports!alerts, ReportTyped, Reports!TypeOK

LEMMA GateTyped == ASSUME ReportTyped, NEW r \in ReportRuns, Reports!Gate(r) PROVE ReportTyped'
<1>1. job[r] \in Reports!Job /\ feed' \in Reports!Cursors
  BY ReportNumbers DEF Reports!Gate, ReportTyped, Reports!TypeOK, Reports!Cursors
<1>2. /\ [job[r] EXCEPT !.pc = "report", !.ok = TRUE, !.cursor = feed'] \in Reports!Job
      /\ [job[r] EXCEPT !.pc = "agent", !.cursor = feed'] \in Reports!Job
      /\ [job[r] EXCEPT !.pc = "agent"] \in Reports!Job
  BY <1>1 DEF Reports!Job
<1> QED  BY <1>1, <1>2, BecomesTyped DEF Reports!Gate

LEMMA AttemptsTyped ==
  ASSUME NEW j \in Reports!Job
  PROVE  /\ \A ok \in BOOLEAN : [j EXCEPT !.pc = "report", !.ok = ok, !.attempts = 0] \in Reports!Job
         /\ [j EXCEPT !.pc = "report", !.attempts = 0] \in Reports!Job
         /\ [j EXCEPT !.pc = "agent"] \in Reports!Job
         /\ j.attempts < TransientRetries => [j EXCEPT !.pc = "backoff", !.attempts = @ + 1] \in Reports!Job
<1> DEFINE A == 0..TransientRetries + 1
<1>1. j.attempts \in A  BY DEF Reports!Job
<1>2. 0 \in A /\ (j.attempts < TransientRetries => j.attempts + 1 \in A)  BY <1>1, ReportNumbers
<1>3. Reports!Job = [pc : {"idle", "gate", "agent", "backoff", "report", "over"}, prev : Reports!Cursors,
                     cursor : Reports!Cursors \cup {None}, ok : BOOLEAN, attempts : A, again : BOOLEAN]
  BY DEF Reports!Job
<1> HIDE DEF A
<1> QED  BY <1>1, <1>2, <1>3

LEMMA InvokeTyped == ASSUME ReportTyped, NEW r \in ReportRuns, Reports!Invoke(r) PROVE ReportTyped'
<1>1. job[r] \in Reports!Job /\ feed' \in Reports!Cursors  BY DEF Reports!Invoke, ReportTyped, Reports!TypeOK
<1> QED  BY <1>1, AttemptsTyped, BecomesTyped DEF Reports!Invoke

LEMMA BackoffTyped == ASSUME ReportTyped, NEW r \in ReportRuns, Reports!Backoff(r) PROVE ReportTyped'
<1>1. job[r] \in Reports!Job /\ feed' \in Reports!Cursors  BY DEF Reports!Backoff, ReportTyped, Reports!TypeOK
<1> QED  BY <1>1, AttemptsTyped, BecomesTyped DEF Reports!Backoff

LEMMA SendTyped ==
  ASSUME ReportTyped, NEW r \in ReportRuns, NEW h \in Reqs, Reports!Send(r, h) PROVE ReportTyped'
<1>1. job[r] \in Reports!Job  BY DEF ReportTyped, Reports!TypeOK
<1>2. [job[r] EXCEPT !.again = TRUE] \in Reports!Job /\ [Reports!NoJob EXCEPT !.pc = "over"] \in Reports!Job
  BY <1>1, BlanksTyped DEF Reports!Job
<1>3. job' \in [ReportRuns -> Reports!Job]
  <2>1. CASE job' = [job EXCEPT ![r].again = TRUE]
    <3>1. job' = [job EXCEPT ![r] = [job[r] EXCEPT !.again = TRUE]]  BY <2>1 DEF ReportTyped, Reports!TypeOK
    <3> QED  BY <1>2, <3>1 DEF ReportTyped, Reports!TypeOK
  <2>2. CASE job' = [job EXCEPT ![r] = [Reports!NoJob EXCEPT !.pc = "over"]]
    BY <1>2, <2>2 DEF ReportTyped, Reports!TypeOK
  <2> QED  BY <2>1, <2>2 DEF Reports!Send
<1>6. upsets' \in 0..MaxUpsets  BY ReportNumbers DEF Reports!Send, Reports!Upset, ReportTyped, Reports!TypeOK
<1>4. [pc |-> "read", run |-> r, grace |-> reportLease[r] = "grace",
       prev |-> job[r].prev, cursor |-> job[r].cursor, ok |-> job[r].ok] \in Reports!Handler
  BY <1>1 DEF Reports!Job, Reports!Handler
<1>5. handler' \in [Reqs -> Reports!Handler]  BY <1>4 DEF Reports!Send, ReportTyped, Reports!TypeOK
<1> QED  BY <1>3, <1>5, <1>6 DEF Reports!Send, Reports!loopVars, Reports!alerts, ReportTyped, Reports!TypeOK

LEMMA HandlerMoves ==
  ASSUME ReportTyped, NEW h \in Reqs
  PROVE  /\ handler[h] \in Reports!Handler
         /\ \A pc \in {"idle", "read", "cursor", "row", "retire"} : [handler[h] EXCEPT !.pc = pc] \in Reports!Handler
         /\ handler[h].run \in ReportRuns => [Reports!NoReport EXCEPT !.pc = "retire", !.run = handler[h].run] \in Reports!Handler
<1>1. handler[h] \in Reports!Handler  BY DEF ReportTyped, Reports!TypeOK
<1> QED  BY <1>1, BlanksTyped DEF Reports!Handler

RequestsKnown == \A h \in Reqs : handler[h].pc # "idle" => handler[h].run \in ReportRuns

LEMMA ReadTyped == ASSUME ReportTyped, RequestsKnown, NEW h \in Reqs, Reports!Read(h) PROVE ReportTyped'
<1> DEFINE x == [Reports!NoReport EXCEPT !.pc = "retire", !.run = handler[h].run]
           y == [handler[h] EXCEPT !.pc = "cursor", !.grace = handler[h].grace /\ runRows[handler[h].run].phase = "error"]
<1>1. handler[h].pc = "read" /\ handler[h].run \in ReportRuns  BY DEF Reports!Read, RequestsKnown
<1>2. x \in Reports!Handler  BY <1>1, HandlerMoves
<1>3. y \in Reports!Handler
  <2>1. handler[h] \in Reports!Handler  BY HandlerMoves
  <2> DEFINE b == handler[h].grace /\ runRows[handler[h].run].phase = "error"
  <2>2. b \in BOOLEAN  OBVIOUS
  <2> HIDE DEF b
  <2>3. [handler[h] EXCEPT !.pc = "cursor", !.grace = b] \in Reports!Handler  BY <2>1, <2>2 DEF Reports!Handler
  <2> QED  BY <2>3 DEF b
<1>4. handler' = [handler EXCEPT ![h] = x] \/ handler' = [handler EXCEPT ![h] = y]
  BY DEF Reports!Read, ReportTyped, Reports!TypeOK
<1> HIDE DEF x, y
<1>5. handler' \in [Reqs -> Reports!Handler]  BY <1>2, <1>3, <1>4 DEF ReportTyped, Reports!TypeOK
<1> QED  BY <1>5 DEF Reports!Read, Reports!loopVars, Reports!alerts, ReportTyped, Reports!TypeOK

LEMMA GotoTyped ==
  ASSUME ReportTyped, NEW h \in Reqs, NEW pc \in {"idle", "read", "cursor", "row", "retire"}, Reports!Goto(h, pc)
  PROVE  handler' = [handler EXCEPT ![h] = [handler[h] EXCEPT !.pc = pc]] /\ handler' \in [Reqs -> Reports!Handler]
<1>1. [handler[h] EXCEPT !.pc = pc] \in Reports!Handler  BY HandlerMoves
<1>2. handler' = [handler EXCEPT ![h] = [handler[h] EXCEPT !.pc = pc]]
  BY DEF Reports!Goto, ReportTyped, Reports!TypeOK
<1> QED  BY <1>1, <1>2 DEF ReportTyped, Reports!TypeOK

LEMMA PassedOfItems ==
  ASSUME NEW c \in Reports!Handler
  PROVE  Reports!Passed(c) \subseteq Reports!Items /\ Reports!Output(c) \subseteq Reports!Items
BY ReportNumbers DEF Reports!Passed, Reports!Output, Reports!Handler, Reports!Items, Reports!Cursors

LEMMA CursorTyped == ASSUME ReportTyped, NEW h \in Reqs, Reports!Cursor(h) PROVE ReportTyped'
<1>1. handler' \in [Reqs -> Reports!Handler]  BY GotoTyped DEF Reports!Cursor
<1>2. state' \in Reports!Cursors
  BY HandlerMoves DEF Reports!Cursor, Reports!KeepsCursor, Reports!Handler, ReportTyped, Reports!TypeOK
<1>3. dropped' \subseteq Reports!Items
  <2>1. dropped \subseteq Reports!Items /\ Reports!Passed(handler[h]) \subseteq Reports!Items
    BY HandlerMoves, PassedOfItems DEF ReportTyped, Reports!TypeOK
  <2> QED  BY <2>1 DEF Reports!Cursor
<1> QED  BY <1>1, <1>2, <1>3 DEF Reports!Cursor, Reports!alerts, ReportTyped, Reports!TypeOK

LEMMA VerdictTyped ==
  ASSUME ReportTyped, NEW r \in ReportRuns, NEW phase \in {"done", "error"}, NEW shown, shown \subseteq Reports!Items,
         Reports!Verdict(r, phase, shown)
  PROVE  /\ stamp' = stamp + 1 /\ stamp' \in 0..MaxStamp /\ runRows' \in [ReportRuns -> Reports!Row]
         /\ runRows' = [runRows EXCEPT ![r] = [phase |-> phase, ts |-> stamp + 1, shown |-> runRows[r].shown \cup shown]]
<1>1. stamp \in 0..MaxStamp /\ runRows[r] \in Reports!Row  BY DEF ReportTyped, Reports!TypeOK
<1>2. stamp < MaxStamp /\ stamp' = stamp + 1  BY DEF Reports!Verdict
<1>3. stamp + 1 \in 0..MaxStamp  BY <1>1, <1>2, ReportNumbers
<1>4. runRows[r].shown \cup shown \in SUBSET Reports!Items  BY <1>1 DEF Reports!Row
<1>5. [phase |-> phase, ts |-> stamp + 1, shown |-> runRows[r].shown \cup shown] \in Reports!Row
  BY <1>3, <1>4 DEF Reports!Row
<1>6. runRows' = [runRows EXCEPT ![r] = [phase |-> phase, ts |-> stamp + 1, shown |-> runRows[r].shown \cup shown]]
  BY DEF Reports!Verdict, ReportTyped, Reports!TypeOK
<1> QED  BY <1>2, <1>3, <1>5, <1>6 DEF ReportTyped, Reports!TypeOK

LEMMA FailedTyped ==
  ASSUME ReportTyped, NEW r \in ReportRuns, Reports!Failed(r)
  PROVE  alerting' \subseteq ReportRuns /\ unheard' \subseteq ReportRuns
BY DEF Reports!Failed, ReportTyped, Reports!TypeOK

LEMMA RecordTyped == ASSUME ReportTyped, RequestsKnown, NEW h \in Reqs, Reports!Record(h) PROVE ReportTyped'
<1> DEFINE r == handler[h].run
<1>1. r \in ReportRuns /\ handler[h] \in Reports!Handler  BY HandlerMoves DEF Reports!Record, RequestsKnown
<1>2. Reports!Output(handler[h]) \subseteq Reports!Items  BY <1>1, PassedOfItems
<1>3. /\ stamp' \in 0..MaxStamp /\ runRows' \in [ReportRuns -> Reports!Row]
  <2>1. CASE handler[h].ok
    <3>1. Reports!Verdict(r, "done", Reports!Output(handler[h]))  BY <2>1 DEF Reports!Record
    <3> QED  BY <1>1, <1>2, <3>1, VerdictTyped
  <2>2. CASE ~handler[h].ok
    <3>1. Reports!Verdict(r, "error", Reports!Output(handler[h]))  BY <2>2 DEF Reports!Record
    <3> QED  BY <1>1, <1>2, <3>1, VerdictTyped
  <2> QED  BY <2>1, <2>2
<1>4. handler' \in [Reqs -> Reports!Handler]
  BY <1>1, HandlerMoves DEF Reports!Record, ReportTyped, Reports!TypeOK
<1>5. alerting' \subseteq ReportRuns /\ unheard' \subseteq ReportRuns
  BY <1>1, FailedTyped DEF Reports!Record, ReportTyped, Reports!TypeOK
<1>6. reportLate' \subseteq ReportRuns  BY <1>1 DEF Reports!Record, ReportTyped, Reports!TypeOK
<1> QED  BY <1>3, <1>4, <1>5, <1>6 DEF Reports!Record, Reports!loopVars, ReportTyped, Reports!TypeOK

LEMMA RetireTyped == ASSUME ReportTyped, NEW h \in Reqs, Reports!Retire(h) PROVE ReportTyped'
<1>1. handler' \in [Reqs -> Reports!Handler]  BY BlanksTyped DEF Reports!Retire, ReportTyped, Reports!TypeOK
<1>2. reportLease' \in [ReportRuns -> {"none", "active", "grace", "retired"}]
  BY DEF Reports!Retire, ReportTyped, Reports!TypeOK
<1> QED  BY <1>1, <1>2 DEF Reports!Retire, Reports!loopVars, Reports!alerts, ReportTyped, Reports!TypeOK

LEMMA FailsTyped == ASSUME ReportTyped, NEW h \in Reqs, Reports!Fails(h) PROVE ReportTyped'
<1>1. handler' \in [Reqs -> Reports!Handler]  BY BlanksTyped DEF Reports!Fails, ReportTyped, Reports!TypeOK
<1>2. dropped' \subseteq Reports!Items
  <2>1. dropped \subseteq Reports!Items /\ Reports!Output(handler[h]) \subseteq Reports!Items
    BY HandlerMoves, PassedOfItems DEF ReportTyped, Reports!TypeOK
  <2> QED  BY <2>1 DEF Reports!Fails
<1>3. upsets' \in 0..MaxUpsets  BY ReportNumbers DEF Reports!Fails, Reports!Upset, ReportTyped, Reports!TypeOK
<1> QED  BY <1>1, <1>2, <1>3 DEF Reports!Fails, Reports!loopVars, Reports!alerts, ReportTyped, Reports!TypeOK

LEMMA ReclaimTyped == ASSUME ReportTyped, NEW r \in ReportRuns, Reports!Reclaim(r) PROVE ReportTyped'
<1>1. stamp' \in 0..MaxStamp /\ runRows' \in [ReportRuns -> Reports!Row]
  BY VerdictTyped DEF Reports!Reclaim
<1>2. alerting' \subseteq ReportRuns /\ unheard' \subseteq ReportRuns  BY FailedTyped DEF Reports!Reclaim
<1>3. reportLease' \in [ReportRuns -> {"none", "active", "grace", "retired"}]
  BY DEF Reports!Reclaim, ReportTyped, Reports!TypeOK
<1>4. upsets' \in 0..MaxUpsets  BY ReportNumbers DEF Reports!Reclaim, Reports!Upset, ReportTyped, Reports!TypeOK
<1> QED  BY <1>1, <1>2, <1>3, <1>4 DEF Reports!Reclaim, Reports!loopVars, ReportTyped, Reports!TypeOK

(* The rest: the owner, the end of a grace, and the alerts. *)
LEMMA OwnerTyped ==
  ASSUME ReportTyped, \/ Reports!Enable
                      \/ \E r \in ReportRuns : \/ Reports!GraceEnds(r) \/ Reports!Cancel(r)
                                               \/ Reports!Alert(r) \/ Reports!AlertLost(r)
  PROVE  ReportTyped'
<1>1. CASE Reports!Enable
  <2>1. toggles' \in 0..MaxToggles  BY <1>1, ReportNumbers DEF Reports!Enable, ReportTyped, Reports!TypeOK
  <2> QED  BY <1>1, <2>1 DEF Reports!Enable, Reports!alerts, ReportTyped, Reports!TypeOK
<1>2. ASSUME NEW r \in ReportRuns, Reports!GraceEnds(r) PROVE ReportTyped'
  <2>1. reportLease' \in [ReportRuns -> {"none", "active", "grace", "retired"}]
    BY <1>2 DEF Reports!GraceEnds, ReportTyped, Reports!TypeOK
  <2> QED  BY <1>2, <2>1 DEF Reports!GraceEnds, Reports!loopVars, Reports!alerts, ReportTyped, Reports!TypeOK
<1>3. ASSUME NEW r \in ReportRuns, Reports!Alert(r) PROVE ReportTyped'
  <2>1. alerting' \subseteq ReportRuns /\ alerted' \subseteq ReportRuns
    BY <1>3 DEF Reports!Alert, ReportTyped, Reports!TypeOK
  <2>2. enabled' \in BOOLEAN  BY <1>3 DEF Reports!Alert, ReportTyped, Reports!TypeOK
  <2> QED  BY <1>3, <2>1, <2>2 DEF Reports!Alert, ReportTyped, Reports!TypeOK
<1>4. ASSUME NEW r \in ReportRuns, Reports!Cancel(r) PROVE ReportTyped'
  <2>1. runRows[r] \in Reports!Row  BY DEF ReportTyped, Reports!TypeOK
  <2>2. [runRows[r] EXCEPT !.phase = "canceled"] \in Reports!Row  BY <2>1 DEF Reports!Row
  <2>3. runRows' = [runRows EXCEPT ![r] = [runRows[r] EXCEPT !.phase = "canceled"]]
    BY <1>4 DEF Reports!Cancel, ReportTyped, Reports!TypeOK
  <2>4. runRows' \in [ReportRuns -> Reports!Row]  BY <2>2, <2>3 DEF ReportTyped, Reports!TypeOK
  <2>5. upsets' \in 0..MaxUpsets
    BY <1>4, ReportNumbers DEF Reports!Cancel, Reports!Upset, ReportTyped, Reports!TypeOK
  <2> QED  BY <1>4, <2>4, <2>5 DEF Reports!Cancel, Reports!loopVars, Reports!alerts, ReportTyped, Reports!TypeOK
<1>5. ASSUME NEW r \in ReportRuns, Reports!AlertLost(r) PROVE ReportTyped'
  <2>1. upsets' \in 0..MaxUpsets
    BY <1>5, ReportNumbers DEF Reports!AlertLost, Reports!Upset, ReportTyped, Reports!TypeOK
  <2> QED  BY <1>5, <2>1 DEF Reports!AlertLost, Reports!loopVars, ReportTyped, Reports!TypeOK
<1> QED  BY <1>1, <1>2, <1>3, <1>4, <1>5

LEMMA ReadShape ==
  ASSUME ReportTyped, NEW h \in Reqs, Reports!Read(h)
  PROVE  /\ handler[h].pc = "read" /\ \A g \in Reqs \ {h} : handler'[g] = handler[g]
         /\ handler'[h].run = handler[h].run
         /\ \/ handler'[h].pc = "retire" /\ handler'[h].prev = 0 /\ handler'[h].cursor = None
            \/ /\ runRows[handler[h].run].phase \notin {"canceled", "done"}
               /\ handler'[h].pc = "cursor" /\ handler'[h].prev = handler[h].prev
               /\ handler'[h].cursor = handler[h].cursor /\ handler'[h].ok = handler[h].ok
<1> DEFINE x == [Reports!NoReport EXCEPT !.pc = "retire", !.run = handler[h].run]
           b == handler[h].grace /\ runRows[handler[h].run].phase = "error"
           y == [handler[h] EXCEPT !.pc = "cursor", !.grace = b]
<1>1. \/ handler' = [handler EXCEPT ![h] = x]
      \/ runRows[handler[h].run].phase \notin {"canceled", "done"} /\ handler' = [handler EXCEPT ![h] = y]
  BY DEF Reports!Read, ReportTyped, Reports!TypeOK
<1>2. handler[h].pc = "read"  BY DEF Reports!Read
<1>3. x.pc = "retire" /\ x.prev = 0 /\ x.cursor = None /\ x.run = handler[h].run  BY DEF Reports!NoReport
<1> HIDE DEF b
<1>4. y.pc = "cursor" /\ y.prev = handler[h].prev /\ y.cursor = handler[h].cursor /\ y.ok = handler[h].ok
      /\ y.run = handler[h].run
  <2>1. handler[h] \in Reports!Handler  BY DEF ReportTyped, Reports!TypeOK
  <2>2. DOMAIN handler[h] = {"pc", "run", "grace", "prev", "cursor", "ok"}  BY <2>1 DEF Reports!Handler
  <2> QED  BY <2>2, Zenon
<1> HIDE DEF x, y
<1>5. /\ \A g \in Reqs \ {h} : handler'[g] = handler[g]
      /\ handler'[h] = x \/ (runRows[handler[h].run].phase \notin {"canceled", "done"} /\ handler'[h] = y)
  BY <1>1 DEF ReportTyped, Reports!TypeOK
<1> QED  BY <1>2, <1>3, <1>4, <1>5

LEMMA RequestsStart == Reports!Init => RequestsKnown
BY DEF Reports!Init, Reports!NoReport, RequestsKnown

LEMMA RequestsStep == ASSUME ReportTyped, RequestsKnown, Reports!Next PROVE RequestsKnown'
<1>1. CASE Reports!Enable  BY <1>1 DEF Reports!Enable, RequestsKnown
<1>2. ASSUME NEW r \in ReportRuns,
             \/ Reports!Deliver(r) \/ Reports!Gate(r) \/ Reports!Invoke(r) \/ Reports!Backoff(r)
             \/ Reports!Reclaim(r) \/ Reports!GraceEnds(r) \/ Reports!Cancel(r)
             \/ Reports!Alert(r) \/ Reports!AlertLost(r)
      PROVE  RequestsKnown'
  <2>1. UNCHANGED handler
    <3>1. CASE Reports!Deliver(r)  BY <3>1 DEF Reports!Deliver
    <3>2. CASE Reports!Gate(r)  BY <3>2, Zenon DEF Reports!Gate, Reports!Becomes
    <3>3. CASE Reports!Invoke(r)  BY <3>3, Zenon DEF Reports!Invoke, Reports!Becomes
    <3>4. CASE Reports!Backoff(r)  BY <3>4, Zenon DEF Reports!Backoff, Reports!Becomes
    <3>5. CASE Reports!Reclaim(r) \/ Reports!GraceEnds(r) \/ Reports!Cancel(r)
      BY <3>5 DEF Reports!Reclaim, Reports!GraceEnds, Reports!Cancel
    <3>6. CASE Reports!Alert(r) \/ Reports!AlertLost(r)  BY <3>6 DEF Reports!Alert, Reports!AlertLost
    <3> QED  BY <1>2, <3>1, <3>2, <3>3, <3>4, <3>5, <3>6
  <2> QED  BY <2>1 DEF RequestsKnown
<1>3. ASSUME NEW r \in ReportRuns, NEW h \in Reqs, Reports!Send(r, h) PROVE RequestsKnown'
  BY <1>3 DEF Reports!Send, RequestsKnown, ReportTyped, Reports!TypeOK
<1>4. ASSUME NEW h \in Reqs, Reports!Read(h) PROVE RequestsKnown'
  <2>1. \A g \in Reqs : handler'[g].run = handler[g].run /\ (handler'[g].pc # "idle" => handler[g].pc # "idle")
    BY <1>4, ReadShape
  <2> QED  BY <2>1 DEF RequestsKnown
<1>5. ASSUME NEW h \in Reqs, Reports!Cursor(h) PROVE RequestsKnown'
  BY <1>5 DEF Reports!Cursor, Reports!Goto, RequestsKnown, ReportTyped, Reports!TypeOK, Reports!Handler
<1>6. ASSUME NEW h \in Reqs, Reports!Record(h) PROVE RequestsKnown'
  <2>1. handler' = [handler EXCEPT ![h] = [Reports!NoReport EXCEPT !.pc = "retire", !.run = handler[h].run]]
        /\ handler[h].pc = "row"
    BY <1>6 DEF Reports!Record
  <2> QED  BY <2>1 DEF Reports!NoReport, RequestsKnown, ReportTyped, Reports!TypeOK
<1>7. ASSUME NEW h \in Reqs, Reports!Retire(h) \/ Reports!Fails(h) PROVE RequestsKnown'
  BY <1>7 DEF Reports!Retire, Reports!Fails, Reports!NoReport, RequestsKnown, ReportTyped, Reports!TypeOK
<1> QED  BY <1>1, <1>2, <1>3, <1>4, <1>5, <1>6, <1>7 DEF Reports!Next

LEMMA ReportStepTyped == ASSUME ReportTyped, RequestsKnown, Reports!Next PROVE ReportTyped'
BY DeliverTyped, GateTyped, InvokeTyped, BackoffTyped, ReclaimTyped, OwnerTyped, SendTyped, ReadTyped, CursorTyped,
   RecordTyped, RetireTyped, FailsTyped DEF Reports!Next

ReportKnown == ReportTyped /\ RequestsKnown

LEMMA ReportStutters == ReportKnown /\ UNCHANGED Reports!vars => ReportKnown'
BY DEF Reports!vars, ReportKnown, ReportTyped, Reports!TypeOK, RequestsKnown

LEMMA ReportKnownHolds == Reports!Spec => []ReportKnown
<1>1. Reports!Init => ReportKnown  BY ReportStartTyped, RequestsStart DEF ReportKnown
<1>2. ReportKnown /\ [Reports!Next]_(Reports!vars) => ReportKnown'
  <2>1. ReportKnown /\ Reports!Next => ReportKnown'  BY ReportStepTyped, RequestsStep DEF ReportKnown
  <2> QED  BY <2>1, ReportStutters
<1> QED  BY <1>1, <1>2, PTL DEF Reports!Spec

(* An item is covered by a row, by the output of a report that has moved  *)
(* the cursor and is about to write its row, or is one of those named.     *)
Covered(i) == \/ \E r \in ReportRuns : i \in runRows[r].shown
              \/ \E h \in Reqs : handler[h].pc = "row" /\ i \in Reports!Output(handler[h])
              \/ i \in dropped

Ground == /\ \A i \in 1..state : Covered(i)
          /\ \A r \in ReportRuns : \A i \in 1..job[r].prev : Covered(i)
          /\ \A h \in Reqs : \A i \in 1..handler[h].prev : Covered(i)

LEMMA CoveredStays ==
  ASSUME ReportKnown, NEW i, Covered(i), dropped \subseteq dropped',
         \A r \in ReportRuns : runRows[r].shown \subseteq runRows'[r].shown,
         \A h \in Reqs : handler[h].pc = "row" =>
            \/ handler'[h].pc = "row" /\ Reports!Output(handler'[h]) = Reports!Output(handler[h])
            \/ Reports!Output(handler[h]) \subseteq runRows'[handler[h].run].shown
            \/ Reports!Output(handler[h]) \subseteq dropped'
  PROVE  Covered(i)'
<1>1. CASE (\E r \in ReportRuns : i \in runRows[r].shown) \/ i \in dropped  BY <1>1 DEF Covered
<1>2. ASSUME NEW h \in Reqs, handler[h].pc = "row", i \in Reports!Output(handler[h]) PROVE Covered(i)'
  <2>1. handler[h].run \in ReportRuns  BY <1>2 DEF ReportKnown, RequestsKnown
  <2>2. CASE handler'[h].pc = "row" /\ Reports!Output(handler'[h]) = Reports!Output(handler[h])
    <3>1. i \in Reports!Output(handler[h])'  BY <1>2, <2>2 DEF Reports!Output, Reports!Passed
    <3> QED  BY <2>2, <3>1 DEF Covered
  <2>3. CASE Reports!Output(handler[h]) \subseteq runRows'[handler[h].run].shown
    BY <1>2, <2>1, <2>3 DEF Covered
  <2>4. CASE Reports!Output(handler[h]) \subseteq dropped'  BY <1>2, <2>4 DEF Covered
  <2> QED  BY <1>2, <2>2, <2>3, <2>4
<1> QED  BY <1>1, <1>2 DEF Covered

(* What does not change a row's items or a request keeps what is covered. *)
LEMMA CoveredCarries ==
  ASSUME ReportKnown, UNCHANGED <<handler, dropped>>,
         \A r \in ReportRuns : runRows[r].shown \subseteq runRows'[r].shown
  PROVE  \A i : Covered(i) => Covered(i)'
<1>1. \A h \in Reqs : handler[h].pc = "row" =>
        handler'[h].pc = "row" /\ Reports!Output(handler'[h]) = Reports!Output(handler[h])
  OBVIOUS
<1> QED  BY <1>1, CoveredStays

SkipInv == ReportKnown /\ Ground

LEMMA SkipStart == Reports!Init => Ground
<1> SUFFICES ASSUME Reports!Init PROVE Ground  OBVIOUS
<1>1. 1..0 = {}  OBVIOUS
<1> QED  BY <1>1 DEF Reports!Init, Reports!NoJob, Reports!NoReport, Ground

(* A step of the daemon's pass, which keeps the cursor the run began from. *)
LEMMA JobKeepsGround ==
  ASSUME SkipInv, NEW r \in ReportRuns, NEW j, Reports!Becomes(r, j), j.prev = job[r].prev
  PROVE  Ground'
<1>1. UNCHANGED <<state, runRows, handler, dropped>> /\ job' = [job EXCEPT ![r] = j]
  BY DEF Reports!Becomes, Reports!loopVars
<1>2. \A i : Covered(i) => Covered(i)'  BY <1>1, CoveredCarries DEF SkipInv
<1>3. \A q \in ReportRuns : job'[q].prev = job[q].prev  BY <1>1 DEF SkipInv, ReportKnown, ReportTyped, Reports!TypeOK
<1> QED  BY <1>1, <1>2, <1>3 DEF SkipInv, Ground

LEMMA DaemonKeepsGround ==
  ASSUME SkipInv, NEW r \in ReportRuns, Reports!Gate(r) \/ Reports!Invoke(r) \/ Reports!Backoff(r)
  PROVE  Ground'
<1>1. job[r] \in Reports!Job  BY DEF SkipInv, ReportKnown, ReportTyped, Reports!TypeOK
<1>2. DOMAIN job[r] = {"pc", "prev", "cursor", "ok", "attempts", "again"}  BY <1>1 DEF Reports!Job
<1> DEFINE Fine(j) == j.prev = job[r].prev
<1>4. ASSUME NEW j, Reports!Becomes(r, j), Fine(j) PROVE Ground'  BY <1>4, JobKeepsGround
<1>5. CASE Reports!Gate(r)
  <2>1. Fine([job[r] EXCEPT !.pc = "report", !.ok = TRUE, !.cursor = feed'])  BY <1>2
  <2>2. Fine([job[r] EXCEPT !.pc = "agent", !.cursor = feed'])  BY <1>2
  <2>3. Fine([job[r] EXCEPT !.pc = "agent"])  BY <1>2
  <2> HIDE DEF Fine
  <2> QED  BY <1>4, <1>5, <2>1, <2>2, <2>3 DEF Reports!Gate
<1>6. CASE Reports!Invoke(r)
  <2>2. \A ok \in BOOLEAN : Fine([job[r] EXCEPT !.pc = "report", !.ok = ok, !.attempts = 0])  BY <1>2
  <2>3. Fine([job[r] EXCEPT !.pc = "backoff", !.attempts = job[r].attempts + 1])  BY <1>2
  <2> HIDE DEF Fine
  <2> QED  BY <1>4, <1>6, <2>2, <2>3, Zenon DEF Reports!Invoke
<1>7. CASE Reports!Backoff(r)
  <2>2. Fine([job[r] EXCEPT !.pc = "agent"]) /\ Fine([job[r] EXCEPT !.pc = "report", !.attempts = 0])  BY <1>2
  <2> HIDE DEF Fine
  <2> QED  BY <1>4, <1>7, <2>2 DEF Reports!Backoff
<1> QED  BY <1>5, <1>6, <1>7

(* The steps that leave the state, the jobs and the requests, and take no item from a row. *)
LEMMA OthersKeepGround ==
  ASSUME SkipInv, \/ Reports!Enable
                  \/ \E r \in ReportRuns : \/ Reports!Reclaim(r) \/ Reports!GraceEnds(r)
                                           \/ Reports!Alert(r) \/ Reports!AlertLost(r) \/ Reports!Cancel(r)
  PROVE  Ground'
<1>1. UNCHANGED <<state, job, handler, dropped>> /\ \A q \in ReportRuns : runRows[q].shown \subseteq runRows'[q].shown
  <2>1. CASE Reports!Enable  BY <2>1 DEF Reports!Enable
  <2>2. ASSUME NEW r \in ReportRuns, Reports!GraceEnds(r) \/ Reports!Alert(r) \/ Reports!AlertLost(r)
        PROVE  UNCHANGED <<state, job, handler, dropped, runRows>>
    BY <2>2 DEF Reports!GraceEnds, Reports!Alert, Reports!AlertLost, Reports!loopVars
  <2>3. ASSUME NEW r \in ReportRuns, Reports!Cancel(r)
        PROVE  UNCHANGED <<state, job, handler, dropped>> /\ \A q \in ReportRuns : runRows'[q].shown = runRows[q].shown
    <3>1. runRows[r] \in Reports!Row /\ runRows' = [runRows EXCEPT ![r] = [runRows[r] EXCEPT !.phase = "canceled"]]
      BY <2>3 DEF Reports!Cancel, SkipInv, ReportKnown, ReportTyped, Reports!TypeOK
    <3>2. [runRows[r] EXCEPT !.phase = "canceled"].shown = runRows[r].shown  BY <3>1 DEF Reports!Row
    <3>3. UNCHANGED <<state, job, handler, dropped>>  BY <2>3 DEF Reports!Cancel, Reports!loopVars
    <3> QED  BY <3>1, <3>2, <3>3 DEF SkipInv, ReportKnown, ReportTyped, Reports!TypeOK
  <2>4. ASSUME NEW r \in ReportRuns, Reports!Reclaim(r)
        PROVE  UNCHANGED <<state, job, handler, dropped>> /\ \A q \in ReportRuns : runRows[q].shown \subseteq runRows'[q].shown
    <3>1. UNCHANGED <<state, job, handler, dropped>>  BY <2>4 DEF Reports!Reclaim, Reports!loopVars
    <3>2. runRows' = [runRows EXCEPT ![r] = [phase |-> "error", ts |-> stamp + 1, shown |-> runRows[r].shown \cup {}]]
      BY <2>4, VerdictTyped DEF Reports!Reclaim, SkipInv, ReportKnown
    <3> QED  BY <3>1, <3>2 DEF SkipInv, ReportKnown, ReportTyped, Reports!TypeOK
  <2> QED  BY <2>1, <2>2, <2>3, <2>4
<1>2. \A i : Covered(i) => Covered(i)'  BY <1>1, CoveredCarries DEF SkipInv
<1> QED  BY <1>1, <1>2 DEF SkipInv, Ground

LEMMA DeliverKeepsGround == ASSUME SkipInv, NEW r \in ReportRuns, Reports!Deliver(r) PROVE Ground'
<1>1. runRows[r] \in Reports!Row  BY DEF SkipInv, ReportKnown, ReportTyped, Reports!TypeOK
<1>2. /\ UNCHANGED <<state, handler, dropped>>
      /\ runRows' = [runRows EXCEPT ![r] = [runRows[r] EXCEPT !.phase = "running"]]
      /\ \E pc \in {"gate", "agent"} : job' = [job EXCEPT ![r] = [Reports!NoJob EXCEPT !.pc = pc, !.prev = state]]
  BY DEF Reports!Deliver, Reports!loopVars, SkipInv, ReportKnown, ReportTyped, Reports!TypeOK
<1>3. [runRows[r] EXCEPT !.phase = "running"].shown = runRows[r].shown  BY <1>1 DEF Reports!Row
<1>4. \A q \in ReportRuns : runRows'[q].shown = runRows[q].shown
  BY <1>2, <1>3 DEF SkipInv, ReportKnown, ReportTyped, Reports!TypeOK
<1>5. \A i : Covered(i) => Covered(i)'  BY <1>2, <1>4, CoveredCarries DEF SkipInv
<1>6. PICK j : j.prev = state /\ job' = [job EXCEPT ![r] = j]
  BY <1>2 DEF Reports!NoJob
<1> QED  BY <1>2, <1>5, <1>6 DEF SkipInv, Ground, ReportKnown, ReportTyped, Reports!TypeOK

(* The requests. *)
LEMMA SendKeepsGround ==
  ASSUME SkipInv, NEW r \in ReportRuns, NEW h \in Reqs, Reports!Send(r, h) PROVE Ground'
<1>1. UNCHANGED <<state, runRows, dropped>> /\ handler[h].pc = "idle"
  BY DEF Reports!Send, Reports!loopVars
<1>2. job[r] \in Reports!Job  BY DEF SkipInv, ReportKnown, ReportTyped, Reports!TypeOK
<1>3. \/ handler' = handler
      \/ \E x : x.prev = job[r].prev /\ handler' = [handler EXCEPT ![h] = x]
  BY DEF Reports!Send
<1>4. \E j : job' = [job EXCEPT ![r] = j] /\ (j.prev = job[r].prev \/ j.prev = 0)
  <2>1. CASE job' = [job EXCEPT ![r].again = TRUE]
    <3> DEFINE j == [job[r] EXCEPT !.again = TRUE]
    <3>1. job' = [job EXCEPT ![r] = j]  BY <2>1 DEF SkipInv, ReportKnown, ReportTyped, Reports!TypeOK
    <3>2. j.prev = job[r].prev  BY <1>2 DEF Reports!Job
    <3> QED  BY <3>1, <3>2
  <2>2. CASE job' = [job EXCEPT ![r] = [Reports!NoJob EXCEPT !.pc = "over"]]
    <3> DEFINE j == [Reports!NoJob EXCEPT !.pc = "over"]
    <3>1. j.prev = 0  BY DEF Reports!NoJob
    <3> QED  BY <2>2, <3>1
  <2> QED  BY <2>1, <2>2 DEF Reports!Send
<1>5. \A i : Covered(i) => Covered(i)'
  <2>1. \A g \in Reqs : handler[g].pc = "row" =>
          handler'[g].pc = "row" /\ Reports!Output(handler'[g]) = Reports!Output(handler[g])
    BY <1>1, <1>3 DEF SkipInv, ReportKnown, ReportTyped, Reports!TypeOK
  <2> QED  BY <1>1, <2>1, CoveredStays DEF SkipInv
<1>6. \A q \in ReportRuns : \A i \in 1..job'[q].prev : Covered(i)'
  <2>1. 1..0 = {}  OBVIOUS
  <2> QED  BY <1>4, <1>5, <2>1 DEF SkipInv, Ground, ReportKnown, ReportTyped, Reports!TypeOK
<1>7. \A g \in Reqs : \A i \in 1..handler'[g].prev : Covered(i)'
  BY <1>3, <1>5 DEF SkipInv, Ground, ReportKnown, ReportTyped, Reports!TypeOK
<1> QED  BY <1>1, <1>5, <1>6, <1>7 DEF SkipInv, Ground

LEMMA ReadKeepsGround == ASSUME SkipInv, NEW h \in Reqs, Reports!Read(h) PROVE Ground'
<1>1. UNCHANGED <<state, runRows, job, dropped>>  BY DEF Reports!Read, Reports!loopVars
<1>2. ReportTyped  BY DEF SkipInv, ReportKnown
<1>3. \A i : Covered(i) => Covered(i)'
  <2>1. \A g \in Reqs : handler[g].pc = "row" =>
          handler'[g].pc = "row" /\ Reports!Output(handler'[g]) = Reports!Output(handler[g])
    BY <1>2, ReadShape
  <2> QED  BY <1>1, <2>1, CoveredStays DEF SkipInv
<1>4. \A g \in Reqs : handler'[g].prev = 0 \/ handler'[g].prev = handler[g].prev  BY <1>2, ReadShape
<1>5. Ground'
  <2>1. 1..0 = {}  OBVIOUS
  <2> QED  BY <1>1, <1>3, <1>4, <2>1 DEF SkipInv, Ground
<1> QED  BY <1>5

LEMMA CursorShape ==
  ASSUME ReportTyped, NEW h \in Reqs, Reports!Cursor(h)
  PROVE  /\ handler[h].pc = "cursor" /\ \A g \in Reqs \ {h} : handler'[g] = handler[g]
         /\ handler'[h].pc = "row" /\ handler'[h].run = handler[h].run /\ handler'[h].prev = handler[h].prev
         /\ handler'[h].cursor = handler[h].cursor /\ handler'[h].ok = handler[h].ok
<1> DEFINE x == [handler[h] EXCEPT !.pc = "row"]
<1>1. handler' = [handler EXCEPT ![h] = x] /\ handler[h].pc = "cursor"  BY GotoTyped DEF Reports!Cursor
<1>2. handler[h] \in Reports!Handler  BY DEF ReportTyped, Reports!TypeOK
<1>3. /\ x.pc = "row" /\ x.run = handler[h].run /\ x.prev = handler[h].prev
      /\ x.cursor = handler[h].cursor /\ x.ok = handler[h].ok
  BY <1>2 DEF Reports!Handler
<1> HIDE DEF x
<1> QED  BY <1>1, <1>3 DEF ReportTyped, Reports!TypeOK

LEMMA CursorKeepsGround == ASSUME SkipInv, NEW h \in Reqs, Reports!Cursor(h) PROVE Ground'
<1>1. UNCHANGED <<runRows, job>> /\ dropped \subseteq dropped' /\ handler[h].pc = "cursor"  BY DEF Reports!Cursor
<1>2. ReportTyped  BY DEF SkipInv, ReportKnown
<1> DEFINE x == handler'[h]
<1>4. handler[h] \in Reports!Handler  BY <1>2 DEF ReportTyped, Reports!TypeOK
<1>5. x.pc = "row" /\ x.prev = handler[h].prev /\ x.cursor = handler[h].cursor /\ x.ok = handler[h].ok
  BY <1>2, CursorShape
<1>6. \A g \in Reqs \ {h} : handler'[g] = handler[g]  BY <1>2, CursorShape
<1>7. \A i : Covered(i) => Covered(i)'
  <2>1. \A g \in Reqs : handler[g].pc = "row" =>
          handler'[g].pc = "row" /\ Reports!Output(handler'[g]) = Reports!Output(handler[g])
    BY <1>1, <1>6
  <2> QED  BY <1>1, <2>1, CoveredStays DEF SkipInv
<1>8. \A i \in 1..state' : Covered(i)'
  <2>1. CASE state' = state  BY <1>7, <2>1 DEF SkipInv, Ground
  <2>2. CASE state' # state
    <3>1. state' = handler[h].cursor /\ handler[h].cursor # None  BY <2>2 DEF Reports!Cursor, Reports!KeepsCursor
    <3>2. handler[h].cursor \in Nat /\ handler[h].prev \in Nat
      BY <1>4, <3>1, ReportNumbers DEF Reports!Handler, Reports!Cursors
    <3>3. \A i \in handler[h].prev + 1 .. handler[h].cursor : Covered(i)'
      <4>1. Reports!Passed(handler[h]) = handler[h].prev + 1 .. handler[h].cursor  BY <3>1 DEF Reports!Passed
      <4>2. CASE handler[h].ok
        <5>1. Reports!Output(handler[h])' = handler[h].prev + 1 .. handler[h].cursor
          BY <1>5, <3>1, <4>2 DEF Reports!Output, Reports!Passed
        <5> QED  BY <1>5, <5>1 DEF Covered
      <4>3. CASE ~handler[h].ok
        <5>1. ~handler[h].grace  BY <2>2, <4>3 DEF Reports!Cursor, Reports!KeepsCursor
        <5>2. Reports!Passed(handler[h]) \subseteq dropped'  BY <4>3, <5>1 DEF Reports!Cursor
        <5> QED  BY <4>1, <5>2 DEF Covered
      <4> QED  BY <4>2, <4>3
    <3>4. \A i \in 1..handler[h].prev : Covered(i)'  BY <1>7 DEF SkipInv, Ground
    <3>5. \A i \in 1..handler[h].cursor : i \in 1..handler[h].prev \/ i \in handler[h].prev + 1 .. handler[h].cursor
      BY <3>2
    <3> QED  BY <3>1, <3>3, <3>4, <3>5
  <2> QED  BY <2>1, <2>2
<1> QED  BY <1>1, <1>5, <1>6, <1>7, <1>8 DEF SkipInv, Ground

LEMMA RecordShape ==
  ASSUME ReportKnown, NEW h \in Reqs, Reports!Record(h)
  PROVE  /\ handler[h].pc = "row" /\ handler[h].run \in ReportRuns /\ stamp' = stamp + 1
         /\ runRows'[handler[h].run].phase = IF handler[h].ok THEN "done" ELSE "error"
         /\ runRows'[handler[h].run].ts = stamp + 1
         /\ runRows'[handler[h].run].shown = runRows[handler[h].run].shown \cup Reports!Output(handler[h])
         /\ \A q \in ReportRuns \ {handler[h].run} : runRows'[q] = runRows[q]
         /\ handler'[h].pc = "retire" /\ handler'[h].run = handler[h].run
         /\ handler'[h].prev = 0 /\ handler'[h].cursor = None
         /\ \A g \in Reqs \ {h} : handler'[g] = handler[g]
<1> DEFINE r == handler[h].run
           phase == IF handler[h].ok THEN "done" ELSE "error"
           x == [Reports!NoReport EXCEPT !.pc = "retire", !.run = handler[h].run]
<1>1. r \in ReportRuns /\ handler[h].pc = "row" /\ handler[h] \in Reports!Handler
  BY DEF Reports!Record, ReportKnown, RequestsKnown, ReportTyped, Reports!TypeOK
<1>2. Reports!Output(handler[h]) \subseteq Reports!Items  BY <1>1, PassedOfItems
<1>3. Reports!Verdict(r, phase, Reports!Output(handler[h])) /\ handler' = [handler EXCEPT ![h] = x]
  BY DEF Reports!Record
<1>4. phase \in {"done", "error"}  OBVIOUS
<1>5. x.pc = "retire" /\ x.prev = 0 /\ x.cursor = None /\ x.run = r  BY DEF Reports!NoReport
<1> HIDE DEF x, phase, r
<1>6. /\ stamp' = stamp + 1
      /\ runRows' = [runRows EXCEPT ![r] = [phase |-> phase, ts |-> stamp + 1,
                       shown |-> runRows[r].shown \cup Reports!Output(handler[h])]]
  BY <1>1, <1>2, <1>3, <1>4, VerdictTyped DEF ReportKnown
<1>7. handler'[h] = x /\ \A g \in Reqs \ {h} : handler'[g] = handler[g]
  BY <1>3 DEF ReportKnown, ReportTyped, Reports!TypeOK
<1>8. handler'[h].pc = "retire" /\ handler'[h].run = r /\ handler'[h].prev = 0 /\ handler'[h].cursor = None
  BY <1>5, <1>7
<1>9. /\ runRows'[r].phase = phase /\ runRows'[r].ts = stamp + 1
      /\ runRows'[r].shown = runRows[r].shown \cup Reports!Output(handler[h])
      /\ \A q \in ReportRuns \ {r} : runRows'[q] = runRows[q]
  BY <1>1, <1>6 DEF ReportKnown, ReportTyped, Reports!TypeOK
<1> QED  BY <1>1, <1>6, <1>7, <1>8, <1>9 DEF phase, r

LEMMA RecordKeepsGround == ASSUME SkipInv, NEW h \in Reqs, Reports!Record(h) PROVE Ground'
<1> DEFINE r == handler[h].run
<1>1. UNCHANGED <<state, job, dropped>>  BY DEF Reports!Record, Reports!loopVars
<1>2. ReportKnown  BY DEF SkipInv
<1>3. /\ \A q \in ReportRuns : runRows[q].shown \subseteq runRows'[q].shown
      /\ Reports!Output(handler[h]) \subseteq runRows'[r].shown
  BY <1>2, RecordShape
<1>4. \A g \in Reqs \ {h} : handler[g].pc = "row" =>
        handler'[g].pc = "row" /\ Reports!Output(handler'[g]) = Reports!Output(handler[g])
  BY <1>2, RecordShape
<1>5. \A i : Covered(i) => Covered(i)'  BY <1>1, <1>2, <1>3, <1>4, CoveredStays
<1>6. \A g \in Reqs : handler'[g].prev = 0 \/ handler'[g].prev = handler[g].prev  BY <1>2, RecordShape
<1>7. Ground'
  <2>1. 1..0 = {}  OBVIOUS
  <2> QED  BY <1>1, <1>5, <1>6, <2>1 DEF SkipInv, Ground
<1> QED  BY <1>7

LEMMA EndKeepsGround == ASSUME SkipInv, NEW h \in Reqs, Reports!Retire(h) \/ Reports!Fails(h) PROVE Ground'
<1>1. /\ UNCHANGED <<state, job, runRows>> /\ handler' = [handler EXCEPT ![h] = Reports!NoReport]
      /\ dropped \subseteq dropped' /\ (handler[h].pc = "row" => Reports!Output(handler[h]) \subseteq dropped')
  BY DEF Reports!Retire, Reports!Fails, Reports!loopVars
<1>2. handler'[h] = Reports!NoReport /\ \A g \in Reqs \ {h} : handler'[g] = handler[g]
  BY <1>1 DEF SkipInv, ReportKnown, ReportTyped, Reports!TypeOK
<1>3. \A i : Covered(i) => Covered(i)'
  <2>1. \A g \in Reqs : handler[g].pc = "row" =>
          \/ handler'[g].pc = "row" /\ Reports!Output(handler'[g]) = Reports!Output(handler[g])
          \/ Reports!Output(handler[g]) \subseteq dropped'
    BY <1>1, <1>2
  <2> QED  BY <1>1, <2>1, CoveredStays DEF SkipInv
<1>4. Reports!NoReport.prev = 0 /\ 1..0 = {}  BY DEF Reports!NoReport
<1> QED  BY <1>1, <1>2, <1>3, <1>4 DEF SkipInv, Ground

LEMMA SkipStep == ASSUME SkipInv, Reports!Next PROVE Ground'
BY DaemonKeepsGround, OthersKeepGround, DeliverKeepsGround, SendKeepsGround, ReadKeepsGround, CursorKeepsGround,
   RecordKeepsGround, EndKeepsGround, Zenon DEF Reports!Next

(* NOTHING SKIPPED: whenever no report is at work, every item the cursor  *)
(* has passed is in some row, or is one that a failed report or one cut    *)
(* off before its row carried the cursor past.  Covered follows the items  *)
(* of a report from its cursor to its row, and every cursor that a run or  *)
(* a request began from is Ground.                                         *)
THEOREM NothingSkippedHolds == Reports!Spec => []NothingSkipped
<1>1. Reports!Init => SkipInv  BY SkipStart, ReportStartTyped, RequestsStart DEF SkipInv, ReportKnown
<1>2. SkipInv /\ [Reports!Next]_(Reports!vars) => SkipInv'
  <2>1. SkipInv /\ Reports!Next => SkipInv'  BY SkipStep, ReportStepTyped, RequestsStep DEF SkipInv, ReportKnown
  <2>2. SkipInv /\ UNCHANGED Reports!vars => SkipInv'
    <3>1. SkipInv /\ UNCHANGED Reports!vars => Ground'
      BY DEF Reports!vars, SkipInv, Ground, Covered, Reports!Output, Reports!Passed
    <3> QED  BY <3>1, ReportStutters DEF SkipInv
  <2> QED  BY <2>1, <2>2
<1>3. SkipInv => NothingSkipped
  BY DEF SkipInv, Ground, Covered, NothingSkipped, Reports!NothingSkipped, Reports!Quiet
<1> QED  BY <1>1, <1>2, <1>3, PTL DEF Reports!Spec

Active == {"read", "cursor", "row"}

(* A run that has not been delivered has no work on it; the reports of a   *)
(* run agree with one another and with the verdict its daemon came to, so  *)
(* that a run recorded as done stays done.                                 *)
Works == /\ \A r \in ReportRuns : job[r].pc # "idle" => runRows[r].phase # "none"
         /\ \A h \in Reqs : handler[h].pc # "idle" => runRows[handler[h].run].phase # "none"

Agreed == \A h \in Reqs : handler[h].pc \in Active =>
            /\ job[handler[h].run].pc \in {"report", "over"}
            /\ job[handler[h].run].pc = "report" => job[handler[h].run].ok = handler[h].ok
            /\ \A g \in Reqs : handler[g].pc \in Active /\ handler[g].run = handler[h].run => handler[g].ok = handler[h].ok

DoneStays == \A r \in ReportRuns : runRows[r].phase = "done" =>
               /\ job[r].pc \in {"report", "over"} /\ (job[r].pc = "report" => job[r].ok)
               /\ \A h \in Reqs : handler[h].pc \in Active /\ handler[h].run = r => handler[h].ok

Stamped == \A r \in ReportRuns : runRows[r].ts <= stamp

(* A streak of which nothing has been surfaced is one run, whose alert is  *)
(* under way.                                                              *)
SilentIsNew == reportLate = {} /\ Reports!Streak \cap (alerted \cup unheard) = {} =>
                 Reports!Streak \subseteq alerting /\ \A p, q \in Reports!Streak : p = q

WorkInv == ReportKnown /\ Works /\ Agreed /\ DoneStays
Work == Works /\ Agreed /\ DoneStays

LEMMA WorkStart == Reports!Init => Work
BY DEF Reports!Init, Reports!NoJob, Reports!NoReport, Work, Works, Agreed, DoneStays, Active

(* The daemon's pass, before its report. *)
LEMMA DaemonWorks ==
  ASSUME WorkInv, NEW r \in ReportRuns, Reports!Gate(r) \/ Reports!Invoke(r) \/ Reports!Backoff(r)
  PROVE  Work'
<1>1. job[r].pc \in {"gate", "agent", "backoff"} /\ \E j : Reports!Becomes(r, j)
  <2>1. CASE Reports!Gate(r)  BY <2>1, Zenon DEF Reports!Gate
  <2>2. CASE Reports!Invoke(r)  BY <2>2, Zenon DEF Reports!Invoke
  <2>3. CASE Reports!Backoff(r)  BY <2>3, Zenon DEF Reports!Backoff
  <2> QED  BY <2>1, <2>2, <2>3
<1>2. PICK j : Reports!Becomes(r, j)  BY <1>1
<1>3. UNCHANGED <<runRows, handler>> /\ \A q \in ReportRuns \ {r} : job'[q] = job[q]
  BY <1>2 DEF Reports!Becomes, WorkInv, ReportKnown, ReportTyped, Reports!TypeOK
<1>4. /\ \A h \in Reqs : handler[h].pc \in Active => handler[h].run \in ReportRuns \ {r}
      /\ runRows[r].phase # "done" /\ runRows[r].phase # "none"
  BY <1>1 DEF WorkInv, Works, Agreed, DoneStays, ReportKnown, RequestsKnown, Active
<1>5. Works'  BY <1>3, <1>4 DEF WorkInv, Works
<1>6. Agreed'  BY <1>3, <1>4 DEF WorkInv, Agreed
<1>7. DoneStays'  BY <1>3, <1>4 DEF WorkInv, DoneStays
<1> QED  BY <1>5, <1>6, <1>7 DEF Work

LEMMA DeliverWorks == ASSUME WorkInv, NEW r \in ReportRuns, Reports!Deliver(r) PROVE Work'
<1>1. runRows[r].phase = "none" /\ UNCHANGED handler  BY DEF Reports!Deliver
<1>2. runRows'[r].phase = "running"
  BY DEF Reports!Deliver, WorkInv, ReportKnown, ReportTyped, Reports!TypeOK, Reports!Row
<1>3. \A q \in ReportRuns \ {r} : runRows'[q] = runRows[q] /\ job'[q] = job[q]
  BY DEF Reports!Deliver, WorkInv, ReportKnown, ReportTyped, Reports!TypeOK
<1>4. \A h \in Reqs : handler[h].pc # "idle" => handler[h].run \in ReportRuns \ {r}
  BY <1>1 DEF WorkInv, Works, ReportKnown, RequestsKnown
<1>5. Works'  BY <1>1, <1>2, <1>3, <1>4 DEF WorkInv, Works
<1>6. Agreed'  BY <1>1, <1>3, <1>4 DEF WorkInv, Agreed, Active
<1>7. DoneStays'  BY <1>1, <1>2, <1>3 DEF WorkInv, DoneStays
<1> QED  BY <1>5, <1>6, <1>7 DEF Work

(* The other steps keep the jobs and the requests, and neither begin nor end a run as done. *)
LEMMA PhasesKept ==
  ASSUME WorkInv, UNCHANGED <<job, handler>>,
         \A q \in ReportRuns : /\ runRows[q].phase # "none" => runRows'[q].phase # "none"
                               /\ runRows'[q].phase = "done" => runRows[q].phase = "done"
  PROVE  Work'
<1>1. Works'  BY DEF WorkInv, Works, ReportKnown, RequestsKnown
<1>2. Agreed'  BY DEF WorkInv, Agreed
<1>3. DoneStays'  BY DEF WorkInv, DoneStays
<1> QED  BY <1>1, <1>2, <1>3 DEF Work

LEMMA CancelShape ==
  ASSUME ReportTyped, NEW r \in ReportRuns, Reports!Cancel(r)
  PROVE  /\ UNCHANGED <<job, handler, stamp, alerting, alerted, reportLate, unheard>> /\ runRows[r].phase = "running"
         /\ runRows'[r].phase = "canceled" /\ runRows'[r].ts = runRows[r].ts
         /\ \A q \in ReportRuns \ {r} : runRows'[q] = runRows[q]
BY DEF Reports!Cancel, Reports!loopVars, Reports!alerts, ReportTyped, Reports!TypeOK, Reports!Row

LEMMA OthersWork ==
  ASSUME WorkInv, \/ Reports!Enable
                  \/ \E r \in ReportRuns : \/ Reports!Reclaim(r) \/ Reports!GraceEnds(r) \/ Reports!Cancel(r)
                                           \/ Reports!Alert(r) \/ Reports!AlertLost(r)
  PROVE  Work'
<1>1. CASE Reports!Enable  BY <1>1, PhasesKept DEF Reports!Enable
<1>2. ASSUME NEW r \in ReportRuns, Reports!GraceEnds(r) \/ Reports!Alert(r) \/ Reports!AlertLost(r) PROVE Work'
  <2>1. UNCHANGED <<job, handler, runRows>>  BY <1>2 DEF Reports!GraceEnds, Reports!Alert, Reports!AlertLost
  <2> QED  BY <2>1, PhasesKept
<1>3. ASSUME NEW r \in ReportRuns, Reports!Cancel(r) PROVE Work'
  BY <1>3, CancelShape, PhasesKept DEF WorkInv, ReportKnown
<1>4. ASSUME NEW r \in ReportRuns, Reports!Reclaim(r) PROVE Work'
  <2>1. UNCHANGED <<job, handler>>  BY <1>4 DEF Reports!Reclaim
  <2>2. runRows' = [runRows EXCEPT ![r] = [phase |-> "error", ts |-> stamp + 1, shown |-> runRows[r].shown \cup {}]]
    BY <1>4, VerdictTyped DEF Reports!Reclaim, WorkInv, ReportKnown
  <2>3. runRows'[r].phase = "error" /\ \A q \in ReportRuns \ {r} : runRows'[q] = runRows[q]
    BY <2>2 DEF WorkInv, ReportKnown, ReportTyped, Reports!TypeOK
  <2> QED  BY <2>1, <2>3, PhasesKept
<1> QED  BY <1>1, <1>2, <1>3, <1>4

(* The requests. *)
LEMMA SendWorks == ASSUME WorkInv, NEW r \in ReportRuns, NEW h \in Reqs, Reports!Send(r, h) PROVE Work'
<1>1. /\ UNCHANGED runRows /\ handler[h].pc = "idle" /\ job[r].pc = "report"
  BY DEF Reports!Send
<1>2. job[r] \in Reports!Job /\ runRows[r].phase # "none"
  BY <1>1 DEF WorkInv, Works, ReportKnown, ReportTyped, Reports!TypeOK
<1>3. \/ handler' = handler
      \/ \E x : x.pc = "read" /\ x.run = r /\ x.ok = job[r].ok /\ handler' = [handler EXCEPT ![h] = x]
  BY DEF Reports!Send
<1>4. \E j : job' = [job EXCEPT ![r] = j] /\ (j.pc = "over" \/ (j.pc = "report" /\ j.ok = job[r].ok))
  <2>1. CASE job' = [job EXCEPT ![r].again = TRUE]
    <3> DEFINE j == [job[r] EXCEPT !.again = TRUE]
    <3>1. job' = [job EXCEPT ![r] = j]  BY <2>1 DEF WorkInv, ReportKnown, ReportTyped, Reports!TypeOK
    <3>2. j.pc = "report" /\ j.ok = job[r].ok  BY <1>1, <1>2 DEF Reports!Job
    <3> QED  BY <3>1, <3>2
  <2>2. CASE job' = [job EXCEPT ![r] = [Reports!NoJob EXCEPT !.pc = "over"]]
    <3> DEFINE j == [Reports!NoJob EXCEPT !.pc = "over"]
    <3>1. j.pc = "over"  BY DEF Reports!NoJob
    <3> QED  BY <2>2, <3>1
  <2> QED  BY <2>1, <2>2 DEF Reports!Send
<1>5. /\ \A q \in ReportRuns \ {r} : job'[q] = job[q]
      /\ job'[r].pc = "over" \/ (job'[r].pc = "report" /\ job'[r].ok = job[r].ok)
  BY <1>4 DEF WorkInv, ReportKnown, ReportTyped, Reports!TypeOK
<1>6. /\ \A g \in Reqs \ {h} : handler'[g] = handler[g]
      /\ handler'[h] = handler[h] \/ (handler'[h].pc = "read" /\ handler'[h].run = r /\ handler'[h].ok = job[r].ok)
  BY <1>3 DEF WorkInv, ReportKnown, ReportTyped, Reports!TypeOK
<1>7. \A g \in Reqs : handler[g].pc \in Active => handler[g].run \in ReportRuns
  BY DEF WorkInv, ReportKnown, RequestsKnown, Active
<1>8. Works'  BY <1>1, <1>2, <1>5, <1>6 DEF WorkInv, Works
<1>9. Agreed'
  <2>1. \A g \in Reqs : handler'[g].pc \in Active =>
          \/ handler'[g].run = r /\ handler'[g].ok = job[r].ok
          \/ handler'[g] = handler[g] /\ handler[g].run \in ReportRuns \ {r}
    BY <1>1, <1>6, <1>7 DEF WorkInv, Agreed, Active
  <2>2. \A g \in Reqs : handler'[g].pc \in Active /\ handler'[g].run # r =>
          handler'[g] = handler[g] /\ job'[handler[g].run] = job[handler[g].run]
    BY <1>5, <2>1
  <2> QED  BY <1>5, <2>1, <2>2 DEF WorkInv, Agreed
<1>10. DoneStays'  BY <1>1, <1>5, <1>6 DEF WorkInv, DoneStays
<1> QED  BY <1>8, <1>9, <1>10 DEF Work

(* A request that moves on keeps its run and its verdict, or has done with the row. *)
LEMMA RequestWorks ==
  ASSUME WorkInv, UNCHANGED <<job, runRows>>, NEW h \in Reqs,
         \A g \in Reqs \ {h} : handler'[g] = handler[g],
         handler'[h].pc # "idle" => handler[h].pc # "idle" /\ handler'[h].run = handler[h].run,
         handler'[h].pc \in Active => handler[h].pc \in Active /\ handler'[h].ok = handler[h].ok
  PROVE  Work'
<1>1. Works'  BY DEF WorkInv, Works
<1>2. \A g \in Reqs : handler'[g].pc \in Active =>
        handler[g].pc \in Active /\ handler'[g].ok = handler[g].ok /\ handler'[g].run = handler[g].run
  BY DEF Active
<1>3. Agreed'  BY <1>2 DEF WorkInv, Agreed
<1>4. DoneStays'  BY <1>2 DEF WorkInv, DoneStays
<1> QED  BY <1>1, <1>3, <1>4 DEF Work

LEMMA ReportsWork ==
  ASSUME WorkInv, NEW h \in Reqs, Reports!Read(h) \/ Reports!Cursor(h) \/ Reports!Retire(h) \/ Reports!Fails(h)
  PROVE  Work'
<1>1. ReportTyped  BY DEF WorkInv, ReportKnown
<1>2. CASE Reports!Read(h)
  <2>1. UNCHANGED <<job, runRows>>  BY <1>2 DEF Reports!Read
  <2> QED  BY <1>1, <1>2, <2>1, ReadShape, RequestWorks DEF Active
<1>3. CASE Reports!Cursor(h)
  <2>1. UNCHANGED <<job, runRows>>  BY <1>3 DEF Reports!Cursor
  <2> QED  BY <1>1, <1>3, <2>1, CursorShape, RequestWorks DEF Active
<1>4. CASE Reports!Retire(h) \/ Reports!Fails(h)
  <2>1. UNCHANGED <<job, runRows>> /\ handler'[h].pc = "idle" /\ \A g \in Reqs \ {h} : handler'[g] = handler[g]
    BY <1>1, <1>4 DEF Reports!Retire, Reports!Fails, Reports!NoReport, ReportTyped, Reports!TypeOK
  <2> QED  BY <2>1, RequestWorks DEF Active
<1> QED  BY <1>2, <1>3, <1>4

LEMMA RecordWorks == ASSUME WorkInv, NEW h \in Reqs, Reports!Record(h) PROVE Work'
<1> DEFINE r == handler[h].run
<1>1. UNCHANGED job /\ ReportKnown  BY DEF Reports!Record, WorkInv
<1>2. /\ handler[h].pc \in Active /\ r \in ReportRuns /\ handler'[h].pc = "retire" /\ handler'[h].run = r
      /\ runRows'[r].phase = IF handler[h].ok THEN "done" ELSE "error"
      /\ \A g \in Reqs \ {h} : handler'[g] = handler[g]
      /\ \A q \in ReportRuns \ {r} : runRows'[q] = runRows[q]
  BY <1>1, RecordShape DEF Active
<1>3. \A g \in Reqs : handler'[g].pc \in Active => g # h /\ handler'[g] = handler[g]  BY <1>2 DEF Active
<1>4. Works'  BY <1>1, <1>2 DEF WorkInv, Works, Active, ReportKnown, RequestsKnown
<1>5. Agreed'  BY <1>1, <1>3 DEF WorkInv, Agreed
<1>6. DoneStays'
  <2>1. runRows'[r].phase = "done" => handler[h].ok  BY <1>2
  <2>2. ASSUME handler[h].ok
        PROVE  /\ job[r].pc \in {"report", "over"} /\ (job[r].pc = "report" => job[r].ok)
               /\ \A g \in Reqs : handler[g].pc \in Active /\ handler[g].run = r => handler[g].ok
    BY <1>2, <2>2 DEF WorkInv, Agreed
  <2> QED  BY <1>1, <1>2, <1>3, <2>1, <2>2 DEF WorkInv, DoneStays
<1> QED  BY <1>4, <1>5, <1>6 DEF Work

LEMMA WorkStep == ASSUME WorkInv, Reports!Next PROVE Work'
BY DaemonWorks, DeliverWorks, OthersWork, SendWorks, ReportsWork, RecordWorks, Zenon DEF Reports!Next

OutageInv == WorkInv /\ Stamped /\ SilentIsNew

(* What a step does to the streak. *)
LEMMA StreakKept ==
  ASSUME \A q \in ReportRuns : /\ runRows'[q].phase = "done" <=> runRows[q].phase = "done"
                               /\ runRows'[q].phase = "error" <=> runRows[q].phase = "error"
                               /\ runRows[q].phase \in {"done", "error"} => runRows'[q].ts = runRows[q].ts
  PROVE  Reports!Streak' = Reports!Streak
<1>1. Reports!LastOk' = Reports!LastOk  BY DEF Reports!LastOk
<1> QED  BY <1>1 DEF Reports!Streak

LEMMA SuccessEndsStreak ==
  ASSUME ReportKnown, Stamped, NEW r \in ReportRuns, runRows'[r].phase = "done", runRows'[r].ts = stamp + 1,
         \A q \in ReportRuns \ {r} : runRows'[q] = runRows[q]
  PROVE  Reports!Streak' = {}
<1>1. stamp + 1 \in Reports!LastOk'  BY DEF Reports!LastOk
<1>2. \A q \in ReportRuns : runRows[q].ts \in Nat /\ stamp \in Nat
  BY ReportNumbers DEF ReportKnown, ReportTyped, Reports!TypeOK, Reports!Row
<1>3. \A q \in ReportRuns \ {r} : ~(runRows'[q].ts > stamp + 1)  BY <1>2 DEF Stamped
<1> QED  BY <1>1, <1>3 DEF Reports!Streak

LEMMA FailureJoinsStreak ==
  ASSUME ReportKnown, Stamped, NEW r \in ReportRuns, runRows[r].phase # "done", runRows'[r].phase = "error",
         runRows'[r].ts = stamp + 1, \A q \in ReportRuns \ {r} : runRows'[q] = runRows[q]
  PROVE  Reports!Streak' = Reports!Streak \cup {r}
<1>1. Reports!LastOk' = Reports!LastOk  BY DEF Reports!LastOk
<1>2. \A q \in ReportRuns : runRows[q].ts \in Nat /\ stamp \in Nat
  BY ReportNumbers DEF ReportKnown, ReportTyped, Reports!TypeOK, Reports!Row
<1>3. \A t \in Reports!LastOk : stamp + 1 > t  BY <1>2 DEF Reports!LastOk, Stamped
<1> QED  BY <1>1, <1>3 DEF Reports!Streak

LEMMA OutageStart == Reports!Init => Stamped /\ SilentIsNew
BY DEF Reports!Init, Stamped, SilentIsNew, Reports!Streak

(* A step that writes no verdict, and leaves the alerts alone. *)
LEMMA NoVerdictStep ==
  ASSUME OutageInv, UNCHANGED <<stamp, alerting, alerted, reportLate, unheard>>,
         \A q \in ReportRuns : /\ runRows'[q].phase = "done" <=> runRows[q].phase = "done"
                               /\ runRows'[q].phase = "error" <=> runRows[q].phase = "error"
                               /\ runRows'[q].ts = runRows[q].ts
  PROVE  Stamped' /\ SilentIsNew'
<1>1. Reports!Streak' = Reports!Streak  BY StreakKept
<1> QED  BY <1>1 DEF OutageInv, Stamped, SilentIsNew

LEMMA FailureStep ==
  ASSUME OutageInv, NEW r \in ReportRuns, runRows[r].phase # "done", runRows'[r].phase = "error",
         runRows'[r].ts = stamp + 1, \A q \in ReportRuns \ {r} : runRows'[q] = runRows[q],
         stamp' = stamp + 1, UNCHANGED alerted,
         reportLate' # {} \/ (UNCHANGED reportLate /\ Reports!Failed(r))
  PROVE  Stamped' /\ SilentIsNew'
<1>1. Reports!Streak' = Reports!Streak \cup {r}  BY FailureJoinsStreak DEF OutageInv, WorkInv
<1>2. \A q \in ReportRuns : runRows[q].ts \in Nat /\ stamp \in Nat
  BY ReportNumbers DEF OutageInv, WorkInv, ReportKnown, ReportTyped, Reports!TypeOK, Reports!Row
<1>3. Stamped'  BY <1>2 DEF OutageInv, Stamped
<1>4. SilentIsNew'
  <2> SUFFICES ASSUME reportLate' = {}, Reports!Streak' \cap (alerted \cup unheard') = {}
      PROVE  Reports!Streak' \subseteq alerting' /\ \A p, q \in Reports!Streak' : p = q
    BY DEF SilentIsNew
  <2>1. UNCHANGED reportLate /\ Reports!Failed(r)  OBVIOUS
  <2>2. alerting \subseteq {r} /\ unheard' = unheard /\ alerting' = alerting \cup {r}
    BY <1>1, <2>1 DEF Reports!Failed
  <2>3. Reports!Streak \subseteq alerting  BY <1>1, <2>1, <2>2 DEF OutageInv, SilentIsNew
  <2> QED  BY <1>1, <2>2, <2>3
<1> QED  BY <1>3, <1>4

LEMMA RecordTells == ASSUME OutageInv, NEW h \in Reqs, Reports!Record(h) PROVE Stamped' /\ SilentIsNew'
<1> DEFINE r == handler[h].run
<1>1. ReportKnown /\ UNCHANGED alerted  BY DEF Reports!Record, OutageInv, WorkInv
<1>2. /\ r \in ReportRuns /\ handler[h].pc \in Active /\ stamp' = stamp + 1 /\ runRows'[r].ts = stamp + 1
      /\ runRows'[r].phase = IF handler[h].ok THEN "done" ELSE "error"
      /\ \A q \in ReportRuns \ {r} : runRows'[q] = runRows[q]
  BY <1>1, RecordShape DEF Active
<1>3. CASE handler[h].ok
  <2>1. Reports!Streak' = {}  BY <1>1, <1>2, <1>3, SuccessEndsStreak DEF OutageInv
  <2>2. \A q \in ReportRuns : runRows[q].ts \in Nat /\ stamp \in Nat
    BY <1>1, ReportNumbers DEF ReportKnown, ReportTyped, Reports!TypeOK, Reports!Row
  <2>3. Stamped'  BY <1>2, <2>2 DEF OutageInv, Stamped
  <2> QED  BY <2>1, <2>3 DEF SilentIsNew
<1>4. CASE ~handler[h].ok
  <2>1. runRows[r].phase # "done"  BY <1>2, <1>4 DEF OutageInv, WorkInv, DoneStays
  <2>2. reportLate' # {} \/ (UNCHANGED reportLate /\ Reports!Failed(r))
    <3>1. CASE handler[h].grace  BY <1>4, <3>1 DEF Reports!Record
    <3>2. CASE ~handler[h].grace  BY <1>4, <3>2 DEF Reports!Record
    <3> QED  BY <3>1, <3>2
  <2> QED  BY <1>1, <1>2, <1>4, <2>1, <2>2, FailureStep
<1> QED  BY <1>3, <1>4

LEMMA ReclaimTells == ASSUME OutageInv, NEW r \in ReportRuns, Reports!Reclaim(r) PROVE Stamped' /\ SilentIsNew'
<1>1. runRows[r].phase = "running" /\ UNCHANGED <<alerted, reportLate>> /\ Reports!Failed(r)
  BY DEF Reports!Reclaim
<1>2. /\ stamp' = stamp + 1
      /\ runRows' = [runRows EXCEPT ![r] = [phase |-> "error", ts |-> stamp + 1, shown |-> runRows[r].shown \cup {}]]
  <2>1. ReportTyped  BY DEF OutageInv, WorkInv, ReportKnown
  <2>2. stamp' = stamp + 1 /\ Reports!Verdict(r, "error", {})  BY DEF Reports!Reclaim, Reports!Verdict
  <2> DEFINE phase == "error"  items == {}
  <2>3. phase \in {"done", "error"} /\ items \subseteq Reports!Items /\ Reports!Verdict(r, phase, items)  BY <2>2
  <2> HIDE DEF phase, items
  <2>4. runRows' = [runRows EXCEPT ![r] = [phase |-> phase, ts |-> stamp + 1, shown |-> runRows[r].shown \cup items]]
    BY <2>1, <2>3, VerdictTyped
  <2> QED  BY <2>2, <2>4 DEF phase, items
<1>3. runRows'[r].phase = "error" /\ runRows'[r].ts = stamp + 1 /\ \A q \in ReportRuns \ {r} : runRows'[q] = runRows[q]
  BY <1>2 DEF OutageInv, WorkInv, ReportKnown, ReportTyped, Reports!TypeOK
<1> QED  BY <1>1, <1>2, <1>3, FailureStep

LEMMA CountsAgree == \A S : Reports!Cardinality(S) = Cardinality(S)
BY DEF Reports!Cardinality, Cardinality

(* The first failure of a streak is alerted. *)
LEMMA AlertTells == ASSUME OutageInv, NEW r \in ReportRuns, Reports!Alert(r) PROVE Stamped' /\ SilentIsNew'
<1>1. UNCHANGED <<runRows, stamp, reportLate, unheard>> /\ alerting' = alerting \ {r}  BY DEF Reports!Alert
<1>2. Reports!Streak' = Reports!Streak  BY <1>1, StreakKept
<1>3. alerted \subseteq alerted' /\ (Reports!Streak = {r} => r \in alerted')
  <2>1. alerted \subseteq alerted'  BY DEF Reports!Alert
  <2>2. ASSUME Reports!Streak = {r} PROVE r \in alerted'
    <3>1. Cardinality(Reports!Streak) = 1  BY <2>2, FS_Singleton
    <3>2. Reports!Reminds(Reports!Cardinality(Reports!Streak))  BY <3>1, CountsAgree DEF Reports!Reminds
    <3>3. alerted' = alerted \cup {r}  BY <3>2, Zenon DEF Reports!Alert
    <3> QED  BY <3>3
  <2> QED  BY <2>1, <2>2
<1>4. Stamped'  BY <1>1 DEF OutageInv, Stamped
<1>5. SilentIsNew'
  <2> SUFFICES ASSUME reportLate' = {}, Reports!Streak' \cap (alerted' \cup unheard') = {}
      PROVE  Reports!Streak' \subseteq alerting' /\ \A p, q \in Reports!Streak' : p = q
    BY DEF SilentIsNew
  <2>1. Reports!Streak \subseteq alerting /\ \A p, q \in Reports!Streak : p = q
    BY <1>1, <1>2, <1>3 DEF OutageInv, SilentIsNew
  <2>2. r \notin Reports!Streak
    <3>1. r \in Reports!Streak => Reports!Streak = {r}  BY <2>1
    <3> QED  BY <1>2, <1>3, <3>1
  <2> QED  BY <1>1, <1>2, <2>1, <2>2
<1> QED  BY <1>4, <1>5

(* A cut-off alert is no longer silent. *)
LEMMA AlertLostTells == ASSUME OutageInv, NEW r \in ReportRuns, Reports!AlertLost(r) PROVE Stamped' /\ SilentIsNew'
<1>1. /\ UNCHANGED <<runRows, stamp, reportLate, alerted>> /\ alerting' = alerting \ {r}
      /\ unheard' = unheard \cup {r}
  BY DEF Reports!AlertLost
<1>2. Reports!Streak' = Reports!Streak  BY <1>1, StreakKept
<1>3. Stamped'  BY <1>1 DEF OutageInv, Stamped
<1>4. SilentIsNew'  BY <1>1, <1>2 DEF OutageInv, SilentIsNew
<1> QED  BY <1>3, <1>4

LEMMA OutageStep == ASSUME OutageInv, Reports!Next PROVE Stamped' /\ SilentIsNew'
<1>1. ReportTyped  BY DEF OutageInv, WorkInv, ReportKnown
<1>2. CASE Reports!Enable
  <2>1. UNCHANGED <<runRows, stamp, alerting, alerted, reportLate, unheard>>
    BY <1>2 DEF Reports!Enable, Reports!alerts
  <2> QED  BY <2>1, NoVerdictStep
<1>3. ASSUME NEW r \in ReportRuns, Reports!Deliver(r) PROVE Stamped' /\ SilentIsNew'
  <2>1. UNCHANGED <<stamp, alerting, alerted, reportLate, unheard>>  BY <1>3 DEF Reports!Deliver, Reports!alerts
  <2>2. runRows[r].phase = "none" /\ runRows'[r].phase = "running" /\ runRows'[r].ts = runRows[r].ts
    BY <1>1, <1>3 DEF Reports!Deliver, ReportTyped, Reports!TypeOK, Reports!Row
  <2>3. \A q \in ReportRuns \ {r} : runRows'[q] = runRows[q]
    BY <1>1, <1>3 DEF Reports!Deliver, ReportTyped, Reports!TypeOK
  <2> QED  BY <2>1, <2>2, <2>3, NoVerdictStep
<1>4. ASSUME NEW r \in ReportRuns, Reports!Gate(r) \/ Reports!Invoke(r) \/ Reports!Backoff(r)
      PROVE  Stamped' /\ SilentIsNew'
  <2>1. \E j : Reports!Becomes(r, j)
    <3>1. CASE Reports!Gate(r)  BY <3>1, Zenon DEF Reports!Gate
    <3>2. CASE Reports!Invoke(r)  BY <3>2, Zenon DEF Reports!Invoke
    <3>3. CASE Reports!Backoff(r)  BY <3>3, Zenon DEF Reports!Backoff
    <3> QED  BY <1>4, <3>1, <3>2, <3>3
  <2>2. UNCHANGED <<runRows, stamp, alerting, alerted, reportLate, unheard>>
    BY <2>1 DEF Reports!Becomes, Reports!alerts
  <2> QED  BY <2>2, NoVerdictStep
<1>5. ASSUME NEW r \in ReportRuns, Reports!GraceEnds(r) PROVE Stamped' /\ SilentIsNew'
  <2>1. UNCHANGED <<runRows, stamp, alerting, alerted, reportLate, unheard>>
    BY <1>5 DEF Reports!GraceEnds, Reports!alerts
  <2> QED  BY <2>1, NoVerdictStep
<1>6. ASSUME NEW r \in ReportRuns, Reports!Cancel(r) PROVE Stamped' /\ SilentIsNew'
  BY <1>1, <1>6, CancelShape, NoVerdictStep
<1>7. ASSUME NEW r \in ReportRuns, NEW h \in Reqs, Reports!Send(r, h) PROVE Stamped' /\ SilentIsNew'
  <2>1. UNCHANGED <<runRows, stamp, alerting, alerted, reportLate, unheard>>
    BY <1>7 DEF Reports!Send, Reports!alerts
  <2> QED  BY <2>1, NoVerdictStep
<1>8. ASSUME NEW h \in Reqs, Reports!Read(h) \/ Reports!Cursor(h) \/ Reports!Retire(h) \/ Reports!Fails(h)
      PROVE  Stamped' /\ SilentIsNew'
  <2>1. UNCHANGED <<runRows, stamp, alerting, alerted, reportLate, unheard>>
    <3>1. CASE Reports!Read(h)  BY <3>1, Zenon DEF Reports!Read, Reports!alerts
    <3>2. CASE Reports!Cursor(h)  BY <3>2 DEF Reports!Cursor, Reports!alerts
    <3>3. CASE Reports!Retire(h) \/ Reports!Fails(h)  BY <3>3 DEF Reports!Retire, Reports!Fails, Reports!alerts
    <3> QED  BY <1>8, <3>1, <3>2, <3>3
  <2> QED  BY <2>1, NoVerdictStep
<1> QED  BY <1>2, <1>3, <1>4, <1>5, <1>6, <1>7, <1>8, RecordTells, ReclaimTells, AlertTells, AlertLostTells, Zenon
   DEF Reports!Next

(* ALERTS: when nothing is under way, a streak of failures has had one of  *)
(* them surfaced, unless two of them were counted together, or an alert    *)
(* was cut off.  Until then                                                *)
(* the streak is one failure whose alert is to come, and that counts one.  *)
THEOREM OutageSurfacedHolds == Reports!Spec => []OutageSurfaced
<1>1. Reports!Init => OutageInv
  BY WorkStart, OutageStart, ReportStartTyped, RequestsStart DEF OutageInv, WorkInv, Work, ReportKnown
<1>2. OutageInv /\ [Reports!Next]_(Reports!vars) => OutageInv'
  <2>1. OutageInv /\ Reports!Next => OutageInv'
    BY WorkStep, OutageStep, ReportStepTyped, RequestsStep DEF OutageInv, WorkInv, Work, ReportKnown
  <2>2. OutageInv /\ UNCHANGED Reports!vars => OutageInv'
    <3> SUFFICES ASSUME OutageInv, UNCHANGED Reports!vars PROVE OutageInv'  OBVIOUS
    <3>1. UNCHANGED <<runRows, stamp, alerting, alerted, reportLate, unheard, job, handler>>  BY DEF Reports!vars
    <3>2. Stamped' /\ SilentIsNew'  BY <3>1, NoVerdictStep
    <3>3. Work'  BY <3>1, PhasesKept DEF OutageInv
    <3> QED  BY <3>2, <3>3, ReportStutters DEF OutageInv, WorkInv, Work
  <2> QED  BY <2>1, <2>2
<1>3. OutageInv => OutageSurfaced
  BY DEF OutageInv, SilentIsNew, OutageSurfaced, Reports!OutageSurfaced, Reports!Quiet
<1> QED  BY <1>1, <1>2, <1>3, PTL DEF Reports!Spec
===============================================================================
