-------------------------------- MODULE Sums --------------------------------
(***************************************************************************)
(* The sum of a function with values in Nat, as the number of its units.   *)
(* Counting needs no recursion over the domain, so that the theorems about *)
(* finite sets apply to it.                                                *)
(***************************************************************************)
EXTENDS Integers, FiniteSets

\* One pair for each unit that f gives to one of its keys.
UnitsOf(f, u) == {u} \X (1 .. f[u])
Units(f) == UNION {UnitsOf(f, u) : u \in DOMAIN f}

Total(f) == Cardinality(Units(f))
=============================================================================
