--------------------------- MODULE MCRunLifecycle ----------------------------
(* Instances of RunLifecycle for TLC.  The slots for handlers in flight and   *)
(* the identities of runs are interchangeable, so they are symmetric.         *)
EXTENDS RunLifecycle, TLC

Interchangeable == Permutations(Runs) \cup Permutations(Fires) \cup Permutations(Polls)
                   \cup Permutations(Reports)
==============================================================================
