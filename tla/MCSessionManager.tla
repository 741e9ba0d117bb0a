-------------------------- MODULE MCSessionManager --------------------------
(* Model checking instances of SessionManager.                              *)
EXTENDS SessionManager, TLC

Symmetric ==
    Permutations(Threads) \cup Permutations(Sessions) \cup Permutations(Streams)
=============================================================================
