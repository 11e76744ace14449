------------------------------- MODULE RunSlot -------------------------------
(***************************************************************************)
(* What the durable run inbox promises about one loop, with nothing said   *)
(* of databases, requests or timers: a loop has one slot.  A run enters an *)
(* empty slot as "waiting", may become "working", and leaves the slot for  *)
(* good when it is "over".  RunLifecycle implements this.                  *)
(***************************************************************************)

CONSTANTS Loops,   \* the loops
          Runs,    \* the identities of runs, each used once
          None     \* the owner of a run that does not exist yet

VARIABLES stage,   \* stage[r]: how far run r has come
          owner    \* owner[r]: the loop r was created for

Stages == {"unborn", "waiting", "working", "over"}

InSlot(l) == {r \in Runs : owner[r] = l /\ stage[r] \in {"waiting", "working"}}

Init == /\ stage = [r \in Runs |-> "unborn"]
        /\ owner = [r \in Runs |-> None]

\* A run is created into the empty slot of a loop.
Enqueue(l, r) == /\ stage[r] = "unborn"
                 /\ InSlot(l) = {}
                 /\ stage' = [stage EXCEPT ![r] = "waiting"]
                 /\ owner' = [owner EXCEPT ![r] = l]

\* A machine takes a waiting run.
Start(r) == /\ stage[r] = "waiting"
            /\ stage' = [stage EXCEPT ![r] = "working"]
            /\ UNCHANGED owner

\* A run leaves the slot, whatever the reason.
Close(r) == /\ stage[r] \in {"waiting", "working"}
            /\ stage' = [stage EXCEPT ![r] = "over"]
            /\ UNCHANGED owner

Next == \E r \in Runs : Start(r) \/ Close(r) \/ \E l \in Loops : Enqueue(l, r)

Spec == Init /\ [][Next]_<<stage, owner>>
=============================================================================
