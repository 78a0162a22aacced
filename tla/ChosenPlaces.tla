---------------------------- MODULE ChosenPlaces ----------------------------
(* What stands in some of the places of a sequence: the form of filters.     *)
EXTENDS Naturals, Sequences, FiniteSets

\* How many of the places do not come after i.
Rank(places, i) == Cardinality({j \in places : j <= i})

\* The elements of s in some places, in their order.
Chosen(s, places) ==
  [n \in 1 .. Cardinality(places) |-> s[CHOOSE i \in places : Rank(places, i) = n]]
===============================================================================
