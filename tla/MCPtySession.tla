---------------------------- MODULE MCPtySession ----------------------------
(* Model checking instances of PtySession: threads are model values.        *)
EXTENDS PtySession, TLC

Symmetric ==
    Permutations(Closers) \cup Permutations(Viewers) \cup Permutations(Writers)
=============================================================================
