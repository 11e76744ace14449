------------------------------ MODULE MCAccounts ------------------------------
(* Accounts for TLC: two users, their personal teams, and a shared one.          *)
EXTENDS Accounts, TLC
CONSTANTS ua, ub, home_a, home_b, shared

MCPersonalOf == (home_a :> ua @@ home_b :> ub @@ shared :> None)
Interchangeable == Permutations(Reqs) \cup Permutations(Loops)
==============================================================================
