---------------------------- MODULE MCBridgeManager ----------------------------
(* Instances of BridgeManager: two real hosts; r1 is that of the adm host.    *)
EXTENDS BridgeManager, TLC

CONSTANTS r1, r2, far1, far2, near, adm1, adm2

RemoteAndLocal == {far1, far2, near}
AdmBoth == {adm1, adm2}

(* far1 and far2 join the real hosts, near is inside r1, the adm links come   *)
(* from r2.                                                                   *)
Ways == (far1 :> <<r1, r2>>) @@ (far2 :> <<r1, r2>>) @@ (near :> <<r1, r1>>)
        @@ (adm1 :> <<r2, r1>>) @@ (adm2 :> <<r2, r1>>)
AtOf(links) == [l \in links |-> Ways[l]]
AtMixed == AtOf(RemoteAndLocal \cup AdmBoth)
================================================================================
