---------------------------- MODULE Subsequences ----------------------------
(***************************************************************************)
(* The subsequence of a sequence at a set of positions.  It is defined by  *)
(* counting and not by recursion, so that it can be reasoned about.        *)
(***************************************************************************)
EXTENDS Integers, Sequences, FiniteSets

\* The place of i among the members of I, and the member at place n.
Rank(I, i) == Cardinality({j \in I : j <= i})
Nth(I, n) == CHOOSE i \in I : Rank(I, i) = n

Subsequence(s, I) == [n \in 1 .. Cardinality(I) |-> s[Nth(I, n)]]
=============================================================================
