-------------------------- MODULE MCDeadLetterStore --------------------------
(* Pairs of 2 and of 3 bytes in a store with room for 5.  The leases are of     *)
(* different signals and have the same sequence numbers; one pid is the last    *)
(* of them, another the time of the first run.                                  *)
EXTENDS DeadLetterStore, TLC

TwoSizes == {[arrow |-> 1, json |-> 1], [arrow |-> 2, json |-> 1]}

OneRange == [l \in Leases |-> [first |-> 1, last |-> 2]]

RunTimes == [r \in 0..MaxCrashes |-> 3 + r]

LeaseSymmetry == Permutations(Leases)

=============================================================================
