-------------------------- MODULE MCMemberAccounts --------------------------
(***************************************************************************)
(* MemberAccounts on a small instance.  Ids and goroutines are             *)
(* interchangeable; so are usernames other than the seeded one.            *)
(***************************************************************************)
EXTENDS MemberAccounts, TLC

Symmetry ==
    Permutations(MemberIds) \cup Permutations(Procs) \cup Permutations(Usernames \ {SeedName})
=============================================================================
