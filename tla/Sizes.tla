------------------------------- MODULE Sizes -------------------------------
(* The sum of a function of sizes over a finite set, as the number of the    *)
(* units that the sizes stand for.                                           *)
EXTENDS Integers, FiniteSets

\* The units claimed by the members of T, each tagged with its owner.
Units(size, T) == UNION {{x} \X (1 .. size[x]) : x \in T}

\* The sum of size[x] over T.
Sum(size, T) == Cardinality(Units(size, T))
============================================================================
