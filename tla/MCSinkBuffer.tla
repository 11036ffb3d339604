---------------------------- MODULE MCSinkBuffer ----------------------------
(* Small batches for TLC: one that shares a lease with others, a larger one  *)
(* with another schema, and one no budget of these runs has room for; and the *)
(* combinations of mode and overflow policy.                                  *)
EXTENDS SinkBuffer, TLC

Small == [bytes |-> 1, rows |-> 1, schema |-> "a"]

Other == [bytes |-> 3, rows |-> 1, schema |-> "b"]

Oversized == [bytes |-> 7, rows |-> 2, schema |-> "a"]

SmallAndOther == {Small, Other}

SmallAndOversized == {Small, Oversized}

Memory == {[disk |-> FALSE, dropOldest |-> FALSE]}

OnDisk == {[disk |-> TRUE, dropOldest |-> FALSE]}

Blocking == Memory \union OnDisk

BothPolicies == {[disk |-> TRUE, dropOldest |-> d] : d \in BOOLEAN}

AllModes == Memory \union BothPolicies

SenderSymmetry == Permutations(Senders)

=============================================================================
