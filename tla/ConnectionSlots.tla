---------------------------- MODULE ConnectionSlots ----------------------------
(* What the connection pool of one real host promises to the threads that use *)
(* it: a thread leases at most one SSH client, no client is leased to two     *)
(* threads, and there are never more leases than slots.                       *)
EXTENDS Naturals, FiniteSets

CONSTANTS Users,     \* the threads that may hold a lease
          Slots,     \* the number of slots
          Clients,   \* the SSH clients that may ever be opened
          NoClient   \* not a client

VARIABLE lease       \* lease[u]: the client u works with, or NoClient

Leased == {u \in Users : lease[u] # NoClient}

Init == lease = [u \in Users |-> NoClient]

(* A client that nobody works with. *)
Free(c) == \A u \in Users : lease[u] # c

Acquire(u) ==
    /\ lease[u] = NoClient
    /\ Cardinality(Leased) < Slots
    /\ \E c \in Clients : Free(c) /\ lease' = [lease EXCEPT ![u] = c]

(* The transport of the leased client died and is replaced in place. *)
Renew(u) ==
    /\ lease[u] # NoClient
    /\ \E c \in Clients : Free(c) /\ lease' = [lease EXCEPT ![u] = c]

Release(u) ==
    /\ lease[u] # NoClient
    /\ lease' = [lease EXCEPT ![u] = NoClient]

Next == \E u \in Users : Acquire(u) \/ Renew(u) \/ Release(u)

Spec == Init /\ [][Next]_lease
================================================================================
