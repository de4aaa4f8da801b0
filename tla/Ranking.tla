------------------------------ MODULE Ranking -------------------------------
(***************************************************************************)
(* Putting the members of a finite set in an order: sorted() with a key,    *)
(* where Before is a strict order in which no two members tie.              *)
(***************************************************************************)
EXTENDS Integers, Sequences, FiniteSets

\* The members of S from the first to the last.
Arranged(S, Before(_, _)) ==
  [k \in 1..Cardinality(S) |->
     CHOOSE x \in S : Cardinality({y \in S : Before(y, x)}) = k - 1]
=============================================================================
