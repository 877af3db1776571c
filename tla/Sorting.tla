------------------------------ MODULE Sorting ------------------------------
(***************************************************************************)
(* std::sort, as the specifications use it: on records no two of which are *)
(* equal to the comparison, so that the result is determined.              *)
(***************************************************************************)
EXTENDS Naturals, FiniteSets

\* The elements of S in the order r, a set of pairs: an element with k others
\* before it comes at place k + 1.
Ranked(S, r) ==
    [k \in 1 .. Cardinality(S) |->
       CHOOSE x \in S : Cardinality({y \in S : <<y, x>> \in r}) = k - 1]
=============================================================================
