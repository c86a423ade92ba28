------------------------------- MODULE Totals -------------------------------
(***************************************************************************)
(* The sum of a function with natural values, as the number of units it    *)
(* holds: unit n of index i is the pair <<i, n>>.  And the sums of the     *)
(* first entries of a sequence of integers, one after the other.           *)
(***************************************************************************)
EXTENDS Integers, FiniteSets, Sequences

Units(f, i) == {i} \X (1 .. f[i])
Total(f) == Cardinality(UNION {Units(f, i) : i \in DOMAIN f})

Sums(seq) == LET sum[i \in 0 .. Len(seq)] == IF i = 0 THEN 0 ELSE sum[i - 1] + seq[i] IN sum
Whole(seq) == Sums(seq)[Len(seq)]
=============================================================================
