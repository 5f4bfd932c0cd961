----------------------------- MODULE MCSessions -----------------------------
(* Instances of SessionServer; the values are in the MCSess*.cfg files.    *)
EXTENDS SessionServer, TLC

\* Neither clients nor threads are told apart; only invariants are checked
\* under this symmetry.
ClientsAndThreads == Permutations(Clients) \cup Permutations(Threads)
=============================================================================
