-------------------------------- MODULE MCCores ---------------------------------
(* An instance of Cores: a real host with two NUMA nodes.                     *)
EXTENDS Cores, TLC

CONSTANTS h1, h2, h3, h4, h5, h6

(* Hosts differ in their names only. *)
Symmetry == Permutations(Hosts)
================================================================================
