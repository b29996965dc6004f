------------------------------- MODULE MCRouting --------------------------------
(* Instances of Routing: every topology of a few hosts and links.             *)
EXTENDS Routing, TLC

CONSTANTS n0, n1, n2, n3

(* Delays in two units, of which one is nothing. *)
SomeAndNone == {[value |-> 2, unit |-> "ms"], [value |-> 0, unit |-> "us"]}

(* Bound: with delays of nothing, one link less than MaxLinks. *)
WeightlessAreFewer == Weighed \/ Len(links) < MaxLinks

(* Hosts differ in their names only. *)
Symmetry == Permutations(Hosts)
================================================================================
