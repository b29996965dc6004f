------------------------------- MODULE MCShutdown ------------------------------
(* Instances of Shutdown: two hosts, either of which may send a fatal message.*)
EXTENDS Shutdown

CONSTANTS n0, n1
================================================================================
