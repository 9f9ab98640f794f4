------------------------------- MODULE Ranking -------------------------------
(***************************************************************************)
(* Sets and the lists of their elements.  The provers carry along every definition  *)
(* of a module they use, so the few the proved windows need are kept here.          *)
(***************************************************************************)
EXTENDS Integers, FiniteSets

\* The elements of S in the order of the pairs in before, as a sort by a key puts them that no two
\* share: each has as many of S before it as it has places before its own.
Ranked(S, before) ==
    [i \in 1..Cardinality(S) |->
        CHOOSE x \in S : Cardinality({y \in S : <<y, x>> \in before}) = i - 1]

\* The elements of S one after the other, in an order on which nothing depends.
Listed(S) == CHOOSE list \in [1..Cardinality(S) -> S] : \A x \in S : \E i \in 1..Cardinality(S) : list[i] = x

Elements(list) == {list[i] : i \in DOMAIN list}
=============================================================================
