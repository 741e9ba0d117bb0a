--------------------------- MODULE MCOwnedEntries ---------------------------
(* Small instances of OwnedEntries for TLC.  Either two commands overlap, or *)
(* three follow each other and the user edits once, or breaks the file and   *)
(* repairs it; both edits and overlaps only for the simplest surface.         *)
EXTENDS OwnedEntries, TLC

Symmetric == Permutations(Names) \cup Permutations(Procs)

MCNext == /\ Next
          /\ edits' = 2 /\ edits = 1 => ~file.ok
          /\ "overlap" \in trouble' => /\ runs' <= 2
                                       /\ edits' <= IF tool = "deny" THEN 1 ELSE 0

MCSpec == Init /\ [][MCNext]_vars
=============================================================================
