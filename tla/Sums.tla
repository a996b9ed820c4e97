--------------------------------- MODULE Sums ---------------------------------
(* Sums of natural numbers, as the number of the units they are made of. *)
EXTENDS Naturals, FiniteSets

\* What a function of naturals counts, one by one.
Units(f) == UNION {{x} \X (1..f[x]) : x \in DOMAIN f}

SumOf(f) == Cardinality(Units(f))
=============================================================================
