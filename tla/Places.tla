------------------------------- MODULE Places -------------------------------
(* Parts of a sequence that are chosen by their places.  A filter is written   *)
(* as the set of the places it keeps, which a proof can reason about.          *)
EXTENDS Naturals, Sequences, FiniteSets

\* A finite set of numbers as the sequence of its members from small to large: each
\* stands where its rank among them says.
Ascending(S) ==
    [k \in 1..Cardinality(S) |-> CHOOSE x \in S : Cardinality({y \in S : y <= x}) = k]

\* The elements of a sequence at the places in S, in their order.
AtPlaces(s, S) == [k \in 1..Cardinality(S) |-> s[Ascending(S)[k]]]

=============================================================================
