------------------------------ MODULE Ordering ------------------------------
(***************************************************************************)
(* Sequences in a given order.  An order on a set is the set of the pairs  *)
(* <<x, y>> of which x comes first.                                        *)
(***************************************************************************)
EXTENDS Naturals, FiniteSets

StrictOrder(S, order) ==
  /\ \A x \in S : <<x, x>> \notin order
  /\ \A x, y, z \in S : <<x, y>> \in order /\ <<y, z>> \in order => <<x, z>> \in order
  /\ \A x, y \in S : x # y => <<x, y>> \in order \/ <<y, x>> \in order

Below(S, order, x) == {y \in S : <<y, x>> \in order}

\* The elements of S, each once, in the order.
InOrder(S, order) ==
  [k \in 1 .. Cardinality(S) |-> CHOOSE x \in S : Cardinality(Below(S, order, x)) = k - 1]

Increasing(numbers) == {pair \in numbers \X numbers : pair[1] < pair[2]}

\* The elements of s at the given places, in the order of s.
At(s, places) == [k \in 1 .. Cardinality(places) |-> s[InOrder(places, Increasing(places))[k]]]
=============================================================================
