---------------------------- MODULE MCScenePath ----------------------------
(* Small instances of ScenePath for TLC.  In one behaviour either a single  *)
(* target is involved and the user edits at any moment, or two targets are  *)
(* and nobody edits: the interleavings of both would only multiply.         *)
EXTENDS ScenePath, TLC

VARIABLE involved

Symmetric == Permutations(UserDirs) \cup Permutations(Slots)

MCInit ==
    /\ Init
    /\ involved \in {S \in SUBSET Targets :
                        Cardinality(S) = 1 \/ (Cardinality(S) = 2 /\ Source \in S)}
    /\ \A t \in Targets \ involved : disk[t] = Absent

MCNext ==
    /\ Next /\ UNCHANGED involved
    /\ scope' \subseteq involved
    /\ drift' # drift => /\ Cardinality(involved) = 1
                         /\ \A t \in Targets \ involved : disk'[t] = Absent
                         /\ \A t \in Targets \ involved, s \in Slots : disk'[<<t, s>>] = Absent

MCSpec == MCInit /\ [][MCNext]_<<vars, involved>>
=============================================================================
