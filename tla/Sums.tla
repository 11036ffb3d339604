-------------------------------- MODULE Sums --------------------------------
(* Totals of natural-valued functions, as the numbers of units they stand for: *)
(* unit i of x is the pair <<x, i>>.  A total is then the cardinality of a     *)
(* set, which a proof can reason about; a fold is not.                         *)
EXTENDS Naturals, FiniteSets

Units(w) == UNION {{x} \X (1..w[x]) : x \in DOMAIN w}

SumOf(w) == Cardinality(Units(w))

=============================================================================
