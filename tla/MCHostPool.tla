------------------------------- MODULE MCHostPool -------------------------------
(* Instances of HostPool: two hosts and the link between them, two workers.   *)
EXTENDS HostPool

CONSTANTS n0, n1

OneLink == {<<n0, n1>>}

Quiet(adm, geneve) == [adm |-> adm, geneve |-> geneve, faults |-> {}, interrupts |-> FALSE]

(* Administrative links and tunnels without failures; macvlan, where any task *)
(* may fail and SIGINT may arrive; administrative links in macvlan, where     *)
(* writing a hosts file may fail.                                             *)
CleanOrFaulty ==
    {Quiet(TRUE, TRUE),
     [adm |-> FALSE, geneve |-> FALSE, faults |-> {"host", "link", "arp", "routes", "etc"},
      interrupts |-> TRUE],
     [adm |-> TRUE, geneve |-> FALSE, faults |-> {"etc"}, interrupts |-> FALSE]}

OnlyTunnels == {Quiet(FALSE, TRUE)}
================================================================================
