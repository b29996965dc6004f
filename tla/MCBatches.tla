------------------------------- MODULE MCBatches -------------------------------
(* Instances of Batches: ARP entries and routes that do not fit in one line.  *)
EXTENDS Batches

TwoAndThree == [arp |-> <<"a1", "a2">>, routes |-> <<"r1", "r2", "r3">>]
================================================================================
