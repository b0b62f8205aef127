----------------------------- MODULE MCWatchPoint -----------------------------
(* WatchPoint for TLC: users, and addresses, are interchangeable.          *)
EXTENDS WatchPoint, TLC

Symmetry == Permutations(Users) \cup Permutations(Addrs)
=============================================================================
