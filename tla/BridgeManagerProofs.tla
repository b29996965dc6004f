-------------------------- MODULE BridgeManagerProofs --------------------------
(* In serial mode, for any number of links and real hosts: virtual links are  *)
(* isolated from each other, joined at both ends, and free of loops.          *)
EXTENDS BridgeManager, FiniteSetTheorems, TLAPS

Active(l) == pc[l] \notin Ended
Tunneling == {"tfind", "tname", "tcount", "tstore", "tunnel"}

(* One task at a time, which turns to the second end of a link only.          *)
OneTask ==
    /\ \A l, k \in AllLinks : Active(l) /\ Active(k) => l = k
    /\ \A l \in AllLinks : pc[l] = "idle" \/ l \in AdmLinks => end[l] = 1
    /\ \A l \in Links : pc[l] = "done" => end[l] = 2

(* A name is below the counter, and no two networks have the same one.        *)
BridgeNames ==
    /\ \A n \in Nets : bridges[n] # None => bridges[n] < nbridges
    /\ \A n, m \in Nets : bridges[n] # None /\ bridges[n] = bridges[m] => n = m
    /\ AdmLinks # {} => bridges[AdmNet] # None
    /\ \A l \in AllLinks :
        /\ pc[l] \in {"name", "count"} => bridges[Net(l)] = None
        /\ pc[l] = "count" => name[l] = nbridges
        /\ pc[l] \in {"plug"} \cup Tunneling => bridges[Net(l)] # None

TunnelNames ==
    /\ \A n \in Nets : tunnels[n] # None =>
        tunnels[n].dev < ntunnels /\ tunnels[n].vni = tunnels[n].dev + 1
    /\ \A n, m \in Nets : tunnels[n] # None /\ tunnels[m] # None
                          /\ tunnels[n].dev = tunnels[m].dev => n = m
    /\ \A l \in AllLinks :
        /\ pc[l] \in {"tname", "tcount", "tstore"} => tunnels[Net(l)] = None
        /\ pc[l] = "tcount" => name[l] = ntunnels
        /\ pc[l] = "tstore" =>
            /\ name[l] \in Nat /\ name[l] + 1 = ntunnels
            /\ \A n \in Nets : tunnels[n] # None => tunnels[n].dev < name[l]
        /\ pc[l] = "tunnel" => tunnels[Net(l)] # None /\ tn[l] = tunnels[Net(l)]

(* What is in a bridge belongs to the network that has its name.              *)
Plugs ==
    /\ \A v \in veths : NetOf(v.end) \in Nets /\ v.br = bridges[NetOf(v.end)]
    /\ \A l \in AdmLinks : \E v \in veths : v.end = <<AdmNet, 2>> /\ v.at = At[l][2]

(* The side of a tunnel that is named, and the one of the adm host.           *)
Named(g, l) ==
    /\ g.dev = tunnels[Net(l)].dev
    /\ \/ g.at = At[l][1] /\ g.far = At[l][2]
       \/ l \in Links /\ g.at = At[l][2] /\ g.far = At[l][1]
Nameless(g, l) == l \in AdmLinks /\ g.dev = None /\ g.at = At[l][2] /\ g.far = At[l][1]
Of(g, l) ==
    /\ bridges[Net(l)] # None /\ g.br = bridges[Net(l)]
    /\ tunnels[Net(l)] # None /\ g.vni = tunnels[Net(l)].vni
    /\ At[l][1] # At[l][2]
    /\ Named(g, l) \/ Nameless(g, l)

(* What an error left of a side: it is in no bridge. *)
HalfMade(g, l) ==
    /\ Net(l) \in broken /\ g.br = None
    /\ tunnels[Net(l)] # None /\ g.vni = tunnels[Net(l)].vni
    /\ g.dev \in {None, tunnels[Net(l)].dev}

Answered(g, devs) == \E h \in devs :
    h.at = g.far /\ h.far = g.at /\ h.br = g.br /\ h.vni = g.vni
Sides ==
    /\ \A g \in geneves : \E l \in AllLinks : Of(g, l) \/ HalfMade(g, l)
    /\ \A l \in AdmLinks, g \in geneves :
        Of(g, l) => Net(l) \in broken \/ Answered(g, geneves)

(* The end e of l is plugged, and has its side of the tunnel if it needs one. *)
Plugged(l, e) == \E v \in veths : v.end = <<l, e>> /\ v.at = At[l][e]
Tunneled(l, e) ==
    At[l][1] # At[l][2] /\ Net(l) \notin broken =>
        \E g \in geneves : Of(g, l) /\ g.at = At[l][e] /\ g.far = At[l][3 - e]

ProgressOf(l) ==
    /\ end[l] = 2 => Plugged(l, 1) /\ Tunneled(l, 1)
    /\ pc[l] \in Tunneling => At[l][1] # At[l][2]
    /\ \A e \in {1, 2} : end[l] = e =>
        /\ pc[l] \in Tunneling \cup {"done"} => Plugged(l, e)
        /\ pc[l] = "done" => Tunneled(l, e)
Progress == \A l \in AllLinks : ProgressOf(l)

IInv == TypeOK /\ OneTask /\ BridgeNames /\ TunnelNames /\ Plugs /\ Sides /\ Progress
--------------------------------------------------------------------------------
LEMMA Networks ==
    /\ \A l \in AllLinks : /\ Net(l) \in Nets /\ NetOf(<<l, end[l]>>) = Net(l)
                           /\ At[l][1] \in RealHosts /\ At[l][2] \in RealHosts
    /\ \A l \in AdmLinks : Net(l) = AdmNet
    /\ \A l \in Links, k \in AllLinks : Net(k) = Net(l) => k = l
    /\ NetOf(<<AdmNet, 2>>) = AdmNet
    /\ \A l, k \in AdmLinks : At[l][2] = At[k][2]
    /\ Links \cap AdmLinks = {}
  BY BridgeManagerAssumption DEF Nets, Net, NetOf, AllLinks

LEMMA InitIInv == Init => IInv
<1> SUFFICES ASSUME Init PROVE IInv
  OBVIOUS
<1>1. TypeOK
  <2>1. veths \subseteq [at : RealHosts, br : Nat, end : Ends]
    <3>1. \A l \in AdmLinks : At[l][2] \in RealHosts
      BY Networks DEF AllLinks
    <3>2. <<AdmNet, 2>> \in Ends
      BY DEF Ends
    <3> QED
      BY <3>1, <3>2 DEF Init
  <2> QED
    BY <2>1 DEF Init, TypeOK, PC
<1>2. OneTask
  BY BridgeManagerAssumption DEF Init, OneTask, Active, AllLinks, Ended
<1>3. BridgeNames
  BY BridgeManagerAssumption DEF Init, BridgeNames, Nets, Tunneling, AllLinks
<1>4. TunnelNames
  BY DEF Init, TunnelNames
<1>5. Plugs
  <2>1. AdmLinks # {} => AdmNet \in Nets
    BY DEF Nets
  <2>2. ASSUME NEW v \in veths
        PROVE  NetOf(v.end) \in Nets /\ v.br = bridges[NetOf(v.end)]
    <3>1. v.br = 0 /\ v.end = <<AdmNet, 2>> /\ AdmLinks # {}
      BY DEF Init
    <3> QED
      BY <2>1, <3>1, Networks DEF Init
  <2>3. ASSUME NEW l \in AdmLinks
        PROVE  \E v \in veths : v.end = <<AdmNet, 2>> /\ v.at = At[l][2]
    <3>1. [at |-> At[l][2], br |-> 0, end |-> <<AdmNet, 2>>] \in veths
      BY DEF Init
    <3> QED
      BY <3>1
  <2> QED
    BY <2>2, <2>3 DEF Plugs
<1>6. Sides
  BY DEF Init, Sides
<1>7. Progress
  BY DEF Init, Progress, ProgressOf, Tunneling
<1> QED
  BY <1>1, <1>2, <1>3, <1>4, <1>5, <1>6, <1>7 DEF IInv

(* A step that names what had no name, and adds devices.                      *)
Extends ==
    /\ \A n \in Nets : bridges[n] # None => bridges'[n] = bridges[n]
    /\ \A n \in Nets : tunnels[n] # None => tunnels'[n] = tunnels[n]
    /\ veths \subseteq veths' /\ geneves \subseteq geneves' /\ broken \subseteq broken'

LEMMA ExtendsKeeps ==
    ASSUME Extends
    PROVE  /\ \A g, l : l \in AllLinks /\ Of(g, l) => Of(g, l)'
           /\ \A g, l : l \in AllLinks /\ HalfMade(g, l) => HalfMade(g, l)'
           /\ \A l \in AllLinks, e \in {1, 2} : Plugged(l, e) => Plugged(l, e)'
           /\ \A l \in AllLinks, e \in {1, 2} : Tunneled(l, e) => Tunneled(l, e)'
<1>1. ASSUME NEW g, NEW l \in AllLinks, Of(g, l)
      PROVE  Of(g, l)'
  BY <1>1, Networks DEF Extends, Of, Named, Nameless
<1>2. ASSUME NEW l \in AllLinks, NEW e \in {1, 2}, Tunneled(l, e)
      PROVE  Tunneled(l, e)'
  BY <1>1, <1>2 DEF Extends, Tunneled
<1>3. ASSUME NEW g, NEW l \in AllLinks, HalfMade(g, l)
      PROVE  HalfMade(g, l)'
  BY <1>3, Networks DEF Extends, HalfMade
<1> QED
  BY <1>1, <1>2, <1>3 DEF Extends, Plugged

(* The other tasks, when that of l makes a step.                              *)
Others(l) ==
    \A k \in AllLinks \ {l} :
        pc[k] \in Ended /\ pc'[k] = pc[k] /\ end'[k] = end[k]

LEMMA OthersProgress ==
    ASSUME IInv, Extends, NEW l \in AllLinks, Others(l)
    PROVE  \A k \in AllLinks \ {l} : ProgressOf(k)'
<1> SUFFICES ASSUME NEW k \in AllLinks \ {l}
             PROVE  ProgressOf(k)'
  OBVIOUS
<1>1. pc'[k] = pc[k] /\ end'[k] = end[k] /\ ProgressOf(k)
  BY DEF IInv, Progress, Others, Ended
<1> QED
  BY <1>1, ExtendsKeeps DEF ProgressOf

(* A step within get_bridge or get_tunnel: one variable of the task, a        *)
(* counter, or nothing at all.                                                *)
LEMMA LocalStep ==
    ASSUME IInv, NEW l \in AllLinks, Others(l), NEW p \in PC \ {"idle", "done"}, GoTo(l, p),
           UNCHANGED <<bridges, tunnels, end, devices>>,
           p \in Tunneling => pc[l] \in Tunneling
    PROVE  OneTask' /\ Plugs' /\ Sides' /\ Progress'
<1>1. pc' = [pc EXCEPT ![l] = p] /\ pc \in [AllLinks -> PC] /\ end' = end
  BY DEF GoTo, IInv, TypeOK
<1>2. OneTask'
  BY <1>1 DEF IInv, OneTask, Active, Others, AllLinks, Ended
<1>3. Extends
  BY DEF Extends, devices
<1>4. Plugs' /\ Sides'
  BY DEF IInv, Plugs, Sides, Of, HalfMade, Answered, Named, Nameless, devices
<1>5. ProgressOf(l)'
  <2>1. pc'[l] = p /\ p # "done" /\ end'[l] = end[l] /\ ProgressOf(l)
    BY <1>1 DEF IInv, Progress
  <2> QED
    BY <1>3, <2>1, ExtendsKeeps DEF ProgressOf, Tunneling
<1>6. Progress'
  BY <1>3, <1>5, OthersProgress DEF Progress
<1> QED
  BY <1>2, <1>4, <1>6

LEMMA OthersIdle ==
    ASSUME IInv, NEW l \in AllLinks, Active(l), NEW p, GoTo(l, p), end' = end
    PROVE  Others(l)
  BY DEF IInv, TypeOK, OneTask, Active, GoTo, Others, Ended

LEMMA StartIInv ==
    ASSUME IInv, NWorkers = 1, NEW l \in AllLinks, Start(l)
    PROVE  IInv'
<1>1. Running = {}
  <2>1. IsFiniteSet(AllLinks)
    BY BridgeManagerAssumption, FS_Union DEF AllLinks
  <2>2. IsFiniteSet(Running)
    BY <2>1, FS_Subset DEF Running
  <2>3. Cardinality(Running) \in Nat /\ Cardinality(Running) < 1
    BY <2>2, FS_CardinalityType DEF Start
  <2>4. Cardinality(Running) = 0
    BY <2>3
  <2> QED
    BY <2>2, <2>4, FS_EmptySet
<1>2. /\ pc' = [pc EXCEPT ![l] = "find"] /\ pc[l] = "idle"
      /\ UNCHANGED <<dicts, end, name, tn, devices>>
  BY DEF Start, GoTo
<1>3. Others(l)
  BY <1>1, <1>2 DEF Running, Others, IInv, TypeOK, Ended
<1>4. OneTask' /\ Plugs' /\ Sides' /\ Progress'
  BY <1>2, <1>3, LocalStep DEF Start, PC, Tunneling, dicts
<1>5. TypeOK'
  BY <1>2 DEF IInv, TypeOK, dicts, devices, PC
<1>6. BridgeNames' /\ TunnelNames'
  BY <1>2 DEF IInv, TypeOK, BridgeNames, TunnelNames, dicts, Tunneling
<1> QED
  BY <1>4, <1>5, <1>6 DEF IInv

(* get_bridge *)
LEMMA BridgeStepIInv ==
    ASSUME IInv, NEW l \in AllLinks, FindBridge(l) \/ NameBridge(l)
    PROVE  IInv'
<1>1. PICK p \in {"name", "plug", "count"} : GoTo(l, p)
  BY DEF FindBridge, NameBridge
<1>2. /\ UNCHANGED <<dicts, end, tn, devices>> /\ Active(l)
      /\ \A k \in AllLinks \ {l} : name'[k] = name[k]
      /\ p \in {"name", "count"} => bridges[Net(l)] = None
      /\ p = "count" => name'[l] = nbridges
      /\ p = "plug" => bridges[Net(l)] # None
      /\ name' \in [AllLinks -> Nat \cup {None}]
      /\ pc' = [pc EXCEPT ![l] = p] /\ pc \in [AllLinks -> PC]
  <2>1. CASE FindBridge(l)
    BY <1>1, <2>1 DEF FindBridge, GoTo, IInv, TypeOK, Active, Ended
  <2>2. CASE NameBridge(l)
    BY <1>1, <2>2 DEF NameBridge, GoTo, IInv, TypeOK, Active, BridgeNames, dicts, Ended
  <2> QED
    BY <2>1, <2>2
<1>3. Others(l)
  BY <1>1, <1>2, OthersIdle
<1>4. OneTask' /\ Plugs' /\ Sides' /\ Progress'
  BY <1>1, <1>2, <1>3, LocalStep DEF PC, Tunneling, dicts
<1>5. TypeOK'
  BY <1>2 DEF IInv, TypeOK, dicts, devices, PC
<1>6. BridgeNames'
  BY <1>2, <1>3 DEF IInv, BridgeNames, Others, dicts, Tunneling, Ended
<1>7. TunnelNames'
  BY <1>2, <1>3 DEF IInv, TunnelNames, Others, dicts, Ended
<1> QED
  BY <1>4, <1>5, <1>6, <1>7 DEF IInv

LEMMA CountBridgeIInv ==
    ASSUME IInv, NEW l \in AllLinks, CountBridge(l)
    PROVE  IInv'
<1>1. /\ pc' = [pc EXCEPT ![l] = "plug"] /\ pc \in [AllLinks -> PC] /\ pc[l] = "count"
      /\ bridges' = [bridges EXCEPT ![Net(l)] = nbridges] /\ bridges[Net(l)] = None
      /\ nbridges' = nbridges + 1 /\ nbridges \in Nat /\ Net(l) \in Nets
      /\ UNCHANGED <<tunnels, ntunnels, end, name, tn, devices>>
  BY Networks DEF CountBridge, GoTo, IInv, TypeOK, BridgeNames
<1>2. Others(l)
  BY <1>1, OthersIdle DEF CountBridge, Active, Ended
<1>3. /\ bridges' \in [Nets -> Nat \cup {None}] /\ nbridges # None
      /\ \A n \in Nets : bridges'[n] = IF n = Net(l) THEN nbridges ELSE bridges[n]
  BY <1>1, BridgeManagerAssumption DEF IInv, TypeOK
<1>4. Extends
  BY <1>1, <1>3 DEF Extends, devices
<1>5. TypeOK'
  BY <1>1, <1>3 DEF IInv, TypeOK, devices, PC
<1>6. OneTask'
  BY <1>1, <1>2 DEF IInv, OneTask, Active, Others, AllLinks, Ended
<1>7. BridgeNames'
  <2>1. \A n \in Nets : bridges[n] # None => bridges[n] \in Nat /\ bridges[n] < nbridges
    BY DEF IInv, TypeOK, BridgeNames
  <2>2. \A n, m \in Nets : bridges'[n] # None /\ bridges'[n] = bridges'[m] => n = m
    BY <1>1, <1>3, <2>1 DEF IInv, BridgeNames
  <2>3. \A n \in Nets : bridges'[n] # None => bridges'[n] < nbridges'
    BY <1>1, <1>3, <2>1
  <2>4. AdmLinks # {} => bridges'[AdmNet] # None
    BY <1>3 DEF IInv, BridgeNames, Nets
  <2> QED
    BY <1>1, <1>2, <1>3, <2>2, <2>3, <2>4 DEF BridgeNames, Others, Tunneling, Ended
<1>8. TunnelNames'
  BY <1>1, <1>2 DEF IInv, TunnelNames, Others, Ended
<1>9. Plugs'
  <2>1. \A v \in veths : bridges[NetOf(v.end)] # None
    BY BridgeManagerAssumption DEF IInv, TypeOK, Plugs
  <2> QED
    BY <1>1, <1>3, <2>1 DEF IInv, Plugs, devices
<1>10. Sides'
  <2>1. \A g \in geneves, k \in AllLinks : Of(g, k)' <=> Of(g, k)
    <3> SUFFICES ASSUME NEW g \in geneves, NEW k \in AllLinks, Of(g, k)'
                 PROVE  Of(g, k)
      BY <1>4, ExtendsKeeps
    <3>1. PICK j \in AllLinks : Of(g, j) \/ HalfMade(g, j)
      BY DEF IInv, Sides
    <3>2. g.br # nbridges /\ g.br = bridges'[Net(k)]
      <4>1. Net(j) \in Nets /\ g.br = bridges[Net(j)] /\ bridges[Net(j)] # None
        BY <3>1, Networks DEF Of, HalfMade
      <4>2. g.br \in Nat /\ g.br < nbridges
        BY <4>1 DEF IInv, TypeOK, BridgeNames
      <4> QED
        BY <1>1, <4>2 DEF Of
    <3>3. bridges'[Net(k)] = bridges[Net(k)]
      BY <1>3, <3>2, Networks
    <3> QED
      BY <1>1, <3>3 DEF Of, Named, Nameless
  <2>2. \A g \in geneves : \E k \in AllLinks : Of(g, k)' \/ HalfMade(g, k)'
    BY <1>4, ExtendsKeeps DEF IInv, Sides
  <2> QED
    BY <1>1, <2>1, <2>2 DEF IInv, Sides, Answered, devices, AllLinks
<1>11. Progress'
  <2>1. pc'[l] = "plug" /\ end'[l] = end[l] /\ ProgressOf(l)
    BY <1>1 DEF IInv, Progress
  <2>2. ProgressOf(l)'
    BY <1>4, <2>1, ExtendsKeeps DEF ProgressOf, Tunneling
  <2> QED
    BY <1>2, <1>4, <2>2, OthersProgress DEF Progress
<1> QED
  BY <1>5, <1>6, <1>7, <1>8, <1>9, <1>10, <1>11 DEF IInv

(* The task of l has plugged its end e, and made the tunnel that it needs.    *)
LEMMA EndPluggedStep ==
    ASSUME IInv, Extends, NEW l \in AllLinks, Active(l), EndPlugged(l),
           NEW e \in {1, 2}, end[l] = e, Plugged(l, e)', Tunneled(l, e)'
    PROVE  /\ Others(l) /\ OneTask' /\ Progress' /\ pc'[l] \in {"find", "done"}
           /\ pc' \in [AllLinks -> PC] /\ end' \in [AllLinks -> {1, 2}]
<1>1. /\ pc \in [AllLinks -> PC] /\ end \in [AllLinks -> {1, 2}]
      /\ \A k \in AllLinks \ {l} : pc'[k] = pc[k] /\ end'[k] = end[k]
      /\ pc' \in [AllLinks -> PC] /\ end' \in [AllLinks -> {1, 2}]
      /\ IF e = 1 /\ l \in Links THEN pc'[l] = "find" /\ end'[l] = 2
         ELSE pc'[l] = "done" /\ end'[l] = e
  BY DEF IInv, TypeOK, EndPlugged, GoTo, PC
<1>2. Others(l)
  BY <1>1 DEF IInv, OneTask, Active, Others, Ended
<1>3. l \in AdmLinks => e = 1
  BY DEF IInv, OneTask
<1>4. OneTask'
  BY <1>1, <1>2, <1>3, Networks DEF IInv, OneTask, Active, Others, AllLinks, Ended
<1>5. e = 2 => Plugged(l, 1)' /\ Tunneled(l, 1)'
  BY ExtendsKeeps DEF IInv, Progress, ProgressOf
<1>6. ProgressOf(l)'
  BY <1>1, <1>5 DEF ProgressOf, Tunneling
<1>7. Progress'
  BY <1>2, <1>6, OthersProgress DEF Progress
<1> QED
  BY <1>1, <1>2, <1>4, <1>7

LEMMA PlugIInv ==
    ASSUME IInv, NEW l \in AllLinks, Plug(l)
    PROVE  IInv'
<1> DEFINE e == end[l]
           v == [at |-> At[l][e], br |-> bridges[Net(l)], end |-> <<l, e>>]
<1>1. /\ veths' = veths \cup {v} /\ pc[l] = "plug" /\ Active(l) /\ e \in {1, 2}
      /\ UNCHANGED <<dicts, name, tn, geneves>>
      /\ bridges[Net(l)] \in Nat /\ bridges[Net(l)] # None
      /\ broken \subseteq broken' /\ broken' \subseteq Nets
  BY Networks DEF Plug, Breaks, Here, IInv, TypeOK, Active, BridgeNames, Ended
<1>2. v \in [at : RealHosts, br : Nat, end : Ends] /\ NetOf(v.end) = Net(l) /\ Net(l) \in Nets
  BY <1>1, Networks DEF Ends
<1>3. Extends
  BY <1>1 DEF Extends, dicts
<1>4. ASSUME NEW f \in {1, 2}, end[l] = f
      PROVE  Plugged(l, f)'
  <2>1. v \in veths' /\ v.end = <<l, f>> /\ v.at = At[l][f]
    BY <1>1, <1>4
  <2> HIDE DEF v
  <2> QED
    BY <2>1 DEF Plugged
<1>5. Plugs'
  <2>1. veths' = veths \cup {v} /\ UNCHANGED bridges /\ v.br = bridges[Net(l)]
    BY <1>1 DEF dicts
  <2> HIDE DEF v
  <2> QED
    BY <1>2, <2>1 DEF IInv, Plugs
<1>6. Sides'
  BY <1>1 DEF IInv, Sides, Of, HalfMade, Answered, Named, Nameless, dicts
<1>7. /\ Others(l) /\ OneTask' /\ Progress' /\ pc'[l] \in {"find", "done", "tfind"}
      /\ pc' \in [AllLinks -> PC] /\ end' \in [AllLinks -> {1, 2}]
  <2>1. CASE Here(l) = There(l)
    <3>1. EndPlugged(l) /\ At[l][1] = At[l][2]
      BY <1>1, <2>1 DEF Plug, Here, There
    <3>2. \A f \in {1, 2} : Tunneled(l, f)'
      BY <3>1 DEF Tunneled
    <3>3. Plugged(l, 1)' \/ end[l] # 1
      BY <1>4
    <3>4. Plugged(l, 2)' \/ end[l] # 2
      BY <1>4
    <3> QED
      BY <1>1, <1>3, <3>1, <3>2, <3>3, <3>4, EndPluggedStep
  <2>2. CASE Here(l) # There(l)
    <3>1. /\ GoTo(l, "tfind") /\ end' = end /\ At[l][1] # At[l][2]
          /\ pc' = [pc EXCEPT ![l] = "tfind"] /\ pc \in [AllLinks -> PC]
      BY <1>1, <2>2 DEF Plug, Here, There, GoTo, IInv, TypeOK
    <3>2. Others(l)
      BY <1>1, <3>1, OthersIdle
    <3>3. OneTask'
      BY <1>1, <3>1, <3>2 DEF IInv, OneTask, Active, Others, AllLinks, Ended
    <3>4. ProgressOf(l)'
      <4>1. pc'[l] = "tfind" /\ end'[l] = end[l] /\ ProgressOf(l)
        BY <3>1 DEF IInv, Progress
      <4>2. \A f \in {1, 2} : end[l] = f => Plugged(l, f)'
        BY <1>4
      <4> QED
        BY <1>3, <3>1, <4>1, <4>2, ExtendsKeeps DEF ProgressOf, Tunneling
    <3> QED
      BY <1>3, <3>1, <3>2, <3>3, <3>4, OthersProgress DEF Progress, IInv, TypeOK, PC
  <2> QED
    BY <2>1, <2>2
<1>8. TypeOK'
  BY <1>1, <1>2, <1>7 DEF IInv, TypeOK, dicts
<1>9. BridgeNames' /\ TunnelNames'
  <2>1. \A k \in AllLinks \ {l} : pc'[k] = pc[k]
    BY <1>7 DEF Others, Ended
  <2>2. BridgeNames'
    BY <1>1, <1>7, <2>1 DEF IInv, BridgeNames, dicts, Tunneling
  <2>3. TunnelNames'
    BY <1>1, <1>7, <2>1 DEF IInv, TunnelNames, dicts
  <2> QED
    BY <2>2, <2>3
<1> QED
  BY <1>5, <1>6, <1>7, <1>8, <1>9 DEF IInv

LEMMA PlugFailsIInv ==
    ASSUME IInv, NEW l \in AllLinks, PlugFails(l)
    PROVE  IInv'
<1>1. /\ pc' = [pc EXCEPT ![l] = "failed"] /\ pc \in [AllLinks -> PC]
      /\ Active(l) /\ GoTo(l, "failed")
      /\ UNCHANGED <<bridges, nbridges, tunnels, ntunnels, end, name, tn, devices>>
  BY DEF PlugFails, GoTo, IInv, TypeOK, Active, Ended, dicts
<1>2. Others(l)
  BY <1>1, OthersIdle
<1>3. OneTask' /\ Plugs' /\ Sides' /\ Progress'
  BY <1>1, <1>2, LocalStep DEF PC, Tunneling
<1>4. TypeOK'
  BY <1>1 DEF IInv, TypeOK, devices, PC
<1>5. BridgeNames'
  BY <1>1 DEF IInv, BridgeNames, Tunneling
<1>6. TunnelNames'
  BY <1>1 DEF IInv, TunnelNames
<1> QED
  BY <1>3, <1>4, <1>5, <1>6 DEF IInv

(* get_tunnel, up to its last statement *)
LEMMA TunnelStepIInv ==
    ASSUME IInv, NEW l \in AllLinks, FindTunnel(l) \/ NameTunnel(l) \/ CountTunnel(l)
    PROVE  IInv'
<1>1. PICK p \in {"tname", "tunnel", "tcount", "tstore"} : GoTo(l, p)
  BY DEF FindTunnel, NameTunnel, CountTunnel
<1>2. /\ pc' = [pc EXCEPT ![l] = p] /\ pc \in [AllLinks -> PC] /\ pc[l] \in Tunneling
      /\ UNCHANGED <<bridges, nbridges, tunnels, end, devices>> /\ Active(l)
      /\ \A k \in AllLinks \ {l} : name'[k] = name[k] /\ tn'[k] = tn[k]
      /\ name' \in [AllLinks -> Nat \cup {None}] /\ tn' \in [AllLinks -> Tunnel \cup {None}]
      /\ ntunnels \in Nat /\ ntunnels' \in {ntunnels, ntunnels + 1}
  <2>1. Net(l) \in Nets
    BY Networks
  <2>2. CASE FindTunnel(l)
    BY <1>1, <2>1, <2>2 DEF FindTunnel, GoTo, IInv, TypeOK, Active, Tunneling, dicts, Ended
  <2>3. CASE NameTunnel(l)
    BY <1>1, <2>3 DEF NameTunnel, GoTo, IInv, TypeOK, Active, Tunneling, dicts, Ended
  <2>4. CASE CountTunnel(l)
    BY <1>1, <2>4 DEF CountTunnel, GoTo, IInv, TypeOK, Active, Tunneling, Ended
  <2> QED
    BY <2>2, <2>3, <2>4
<1>3. Others(l)
  BY <1>1, <1>2, OthersIdle
<1>4. OneTask' /\ Plugs' /\ Sides' /\ Progress'
  BY <1>1, <1>2, <1>3, LocalStep DEF PC
<1>5. TypeOK'
  BY <1>2 DEF IInv, TypeOK, devices, PC
<1>6. BridgeNames'
  <2>1. bridges[Net(l)] # None
    BY <1>2 DEF IInv, BridgeNames
  <2> QED
    BY <1>1, <1>2, <1>3, <2>1 DEF IInv, BridgeNames, Others, Tunneling, Ended
<1>7. TunnelNames'
  <2>1. \A n \in Nets : tunnels[n] # None =>
          tunnels[n].dev \in Nat /\ tunnels[n].dev < ntunnels /\ tunnels[n].vni = tunnels[n].dev + 1
    BY DEF IInv, TypeOK, TunnelNames, Tunnel
  <2>2. \A n \in Nets : tunnels'[n] # None =>
          tunnels'[n].dev < ntunnels' /\ tunnels'[n].vni = tunnels'[n].dev + 1
    BY <1>2, <2>1
  <2>3. /\ p \in {"tname", "tcount", "tstore"} => tunnels[Net(l)] = None
        /\ p = "tcount" => name'[l] = ntunnels'
        /\ p = "tstore" => name'[l] = ntunnels /\ ntunnels' = ntunnels + 1
                          /\ name'[l] \in Nat
        /\ p = "tunnel" => tunnels[Net(l)] # None /\ tn'[l] = tunnels[Net(l)]
    <3>1. CASE FindTunnel(l)
      BY <1>1, <1>2, <3>1 DEF FindTunnel, GoTo, IInv, TypeOK
    <3>2. CASE NameTunnel(l)
      BY <1>1, <1>2, <3>2 DEF NameTunnel, GoTo, IInv, TypeOK, TunnelNames, dicts
    <3>3. CASE CountTunnel(l)
      BY <1>1, <1>2, <3>3 DEF CountTunnel, GoTo, IInv, TypeOK, TunnelNames
    <3> QED
      BY <3>1, <3>2, <3>3
  <2>4. \A k \in AllLinks \ {l} : pc'[k] \in Ended
    BY <1>3 DEF Others
  <2>5. \A n, m \in Nets : tunnels'[n] # None /\ tunnels'[m] # None
                           /\ tunnels'[n].dev = tunnels'[m].dev => n = m
    BY <1>2 DEF IInv, TunnelNames
  <2>6. pc'[l] = p
    BY <1>2
  <2> QED
    BY <1>2, <2>1, <2>2, <2>3, <2>4, <2>5, <2>6 DEF TunnelNames, Ended
<1> QED
  BY <1>4, <1>5, <1>6, <1>7 DEF IInv

LEMMA StoreTunnelIInv ==
    ASSUME IInv, NEW l \in AllLinks, StoreTunnel(l)
    PROVE  IInv'
<1> DEFINE new == [dev |-> name[l], vni |-> ntunnels]
<1>1. /\ pc' = [pc EXCEPT ![l] = "tunnel"] /\ pc \in [AllLinks -> PC] /\ pc[l] = "tstore"
      /\ tn' = [tn EXCEPT ![l] = new] /\ tunnels' = [tunnels EXCEPT ![Net(l)] = new]
      /\ UNCHANGED <<bridges, nbridges, ntunnels, end, name, devices>>
      /\ Active(l) /\ Net(l) \in Nets /\ tunnels[Net(l)] = None
      /\ name[l] + 1 = ntunnels /\ ntunnels \in Nat /\ name[l] \in Nat \cup {None}
      /\ \A n \in Nets : tunnels[n] # None => tunnels[n].dev < name[l]
  BY Networks DEF StoreTunnel, GoTo, IInv, TypeOK, TunnelNames, Active, Ended
<1>2. Others(l)
  BY <1>1, OthersIdle DEF StoreTunnel
<1>3. name[l] \in Nat
  BY <1>1 DEF IInv, TypeOK, TunnelNames
<1>4. /\ new \in Tunnel /\ new # None
      /\ tunnels' \in [Nets -> Tunnel \cup {None}] /\ tn' \in [AllLinks -> Tunnel \cup {None}]
      /\ \A n \in Nets : tunnels'[n] = IF n = Net(l) THEN new ELSE tunnels[n]
  <2>1. new \in Tunnel
    BY <1>1, <1>3 DEF Tunnel
  <2>2. new # None
    BY <2>1, BridgeManagerAssumption DEF Tunnel
  <2> HIDE DEF new
  <2> QED
    BY <1>1, <2>1, <2>2 DEF IInv, TypeOK
<1>5. Extends
  BY <1>1, <1>4 DEF Extends, devices
<1>6. TypeOK'
  BY <1>1, <1>4 DEF IInv, TypeOK, devices, PC
<1>7. OneTask'
  BY <1>1, <1>2 DEF IInv, OneTask, Active, Others, AllLinks, Ended
<1>8. BridgeNames'
  BY <1>1, <1>2 DEF IInv, BridgeNames, Others, Tunneling, Ended
<1>9. TunnelNames'
  <2>1. \A n \in Nets : tunnels[n] # None =>
          tunnels[n].dev \in Nat /\ tunnels[n].dev < name[l] /\ tunnels[n].vni = tunnels[n].dev + 1
    BY <1>1 DEF IInv, TypeOK, TunnelNames, Tunnel
  <2>2. \A n \in Nets : tunnels'[n] # None =>
          tunnels'[n].dev < ntunnels /\ tunnels'[n].vni = tunnels'[n].dev + 1
    BY <1>1, <1>3, <1>4, <2>1
  <2>3. \A n, m \in Nets : tunnels'[n] # None /\ tunnels'[m] # None
                           /\ tunnels'[n].dev = tunnels'[m].dev => n = m
    BY <1>3, <1>4, <2>1 DEF IInv, TunnelNames
  <2>4. \A k \in AllLinks \ {l} : pc'[k] \in Ended
    BY <1>2 DEF Others, Ended
  <2>5. pc'[l] = "tunnel" /\ tn'[l] = new
    BY <1>1 DEF IInv, TypeOK
  <2> HIDE DEF new
  <2> QED
    BY <1>1, <1>4, <2>2, <2>3, <2>4, <2>5 DEF TunnelNames, Ended
<1>10. Plugs'
  BY <1>1 DEF IInv, Plugs, devices
<1>11. Sides'
  <2>1. \A g \in geneves, k \in AllLinks : Of(g, k)' <=> Of(g, k)
    <3> SUFFICES ASSUME NEW g \in geneves, NEW k \in AllLinks, Of(g, k)'
                 PROVE  Of(g, k)
      BY <1>5, ExtendsKeeps
    <3>1. PICK j \in AllLinks : Of(g, j) \/ HalfMade(g, j)
      BY DEF IInv, Sides
    <3>2. g.vni # ntunnels
      <4>1. /\ Net(j) \in Nets /\ tunnels[Net(j)] # None /\ g.vni = tunnels[Net(j)].vni
        BY <3>1, Networks DEF Of, HalfMade
      <4>2. tunnels[Net(j)].dev \in Nat /\ tunnels[Net(j)].vni = tunnels[Net(j)].dev + 1
            /\ tunnels[Net(j)].dev < name[l]
        BY <1>1, <4>1 DEF IInv, TypeOK, TunnelNames, Tunnel
      <4> QED
        BY <1>1, <1>3, <4>1, <4>2
    <3>3. g.vni = tunnels'[Net(k)].vni
      BY DEF Of
    <3>4. tunnels'[Net(k)] = tunnels[Net(k)]
      <4>1. Net(k) # Net(l)
        BY <1>1, <1>4, <3>2, <3>3
      <4> QED
        BY <1>4, <4>1, Networks
    <3> QED
      BY <1>1, <3>4 DEF Of, Named, Nameless
  <2>2. \A g \in geneves : \E k \in AllLinks : Of(g, k)' \/ HalfMade(g, k)'
    BY <1>5, ExtendsKeeps DEF IInv, Sides
  <2> QED
    BY <1>1, <2>1, <2>2 DEF IInv, Sides, Answered, devices, AllLinks
<1>12. Progress'
  <2>1. pc'[l] = "tunnel" /\ end'[l] = end[l] /\ ProgressOf(l)
    BY <1>1 DEF IInv, Progress
  <2>2. ProgressOf(l)'
    BY <1>1, <1>5, <2>1, ExtendsKeeps DEF ProgressOf, Tunneling
  <2> QED
    BY <1>2, <1>5, <2>2, OthersProgress DEF Progress
<1> QED
  BY <1>6, <1>7, <1>8, <1>9, <1>10, <1>11, <1>12 DEF IInv

(* Two tunnels of one VNI, or of one name, are of one network.                *)
LEMMA OneNetwork ==
    ASSUME IInv, NEW l \in AllLinks, tunnels[Net(l)] # None,
           NEW g, NEW j \in AllLinks, Of(g, j),
           g.vni = tunnels[Net(l)].vni \/ g.dev = tunnels[Net(l)].dev
    PROVE  /\ Net(j) = Net(l) /\ g.br = bridges[Net(l)] /\ g.vni = tunnels[Net(l)].vni
           /\ l \in Links => j = l
           /\ l \in AdmLinks => j \in AdmLinks
<1>1. Net(l) \in Nets /\ Net(j) \in Nets /\ tunnels[Net(j)] # None
  BY Networks DEF Of
<1>2. /\ tunnels[Net(l)].dev \in Nat /\ tunnels[Net(l)].vni = tunnels[Net(l)].dev + 1
      /\ tunnels[Net(j)].dev \in Nat /\ tunnels[Net(j)].vni = tunnels[Net(j)].dev + 1
  BY <1>1 DEF IInv, TypeOK, TunnelNames, Tunnel
<1>3. None \notin Nat
  BY BridgeManagerAssumption
<1>4. tunnels[Net(j)].dev = tunnels[Net(l)].dev
  <2>1. CASE g.vni = tunnels[Net(l)].vni
    BY <1>2, <2>1 DEF Of
  <2>2. CASE g.dev = tunnels[Net(l)].dev
    BY <1>2, <1>3, <2>2 DEF Of, Named, Nameless
  <2> QED
    BY <2>1, <2>2
<1>5. Net(j) = Net(l)
  BY <1>1, <1>4 DEF IInv, TunnelNames
<1>6. (l \in Links => j = l) /\ (l \in AdmLinks => j \in AdmLinks)
  BY <1>5, Networks DEF AllLinks
<1> QED
  BY <1>5, <1>6 DEF Of

(* What the task of l knows when it makes its tunnel.                         *)
LEMMA AtTunnel ==
    ASSUME IInv, NEW l \in AllLinks, pc[l] = "tunnel"
    PROVE  /\ Net(l) \in Nets /\ bridges[Net(l)] \in Nat /\ bridges[Net(l)] # None
           /\ tunnels[Net(l)] # None /\ tn[l] = tunnels[Net(l)]
           /\ tn[l].dev \in Nat /\ tn[l].vni \in Nat /\ None \notin Nat
           /\ At[l][1] # At[l][2] /\ At[l][1] \in RealHosts /\ At[l][2] \in RealHosts
           /\ end[l] \in {1, 2} /\ (l \in AdmLinks => end[l] = 1)
           /\ {Here(l), There(l)} = {At[l][1], At[l][2]}
<1>1. Net(l) \in Nets /\ At[l][1] \in RealHosts /\ At[l][2] \in RealHosts
  BY Networks
<1>2. /\ bridges[Net(l)] \in Nat /\ bridges[Net(l)] # None
      /\ tunnels[Net(l)] # None /\ tn[l] = tunnels[Net(l)]
  BY <1>1 DEF IInv, TypeOK, BridgeNames, TunnelNames, Tunneling
<1>3. tn[l].dev \in Nat /\ tn[l].vni \in Nat /\ None \notin Nat
  BY <1>1, <1>2, BridgeManagerAssumption DEF IInv, TypeOK, Tunnel
<1>4. At[l][1] # At[l][2]
  BY DEF IInv, Progress, ProgressOf, Tunneling
<1>5. end[l] \in {1, 2} /\ (l \in AdmLinks => end[l] = 1)
  BY DEF IInv, TypeOK, OneTask
<1>6. {Here(l), There(l)} = {At[l][1], At[l][2]}
  BY <1>5 DEF Here, There
<1> QED
  BY <1>1, <1>2, <1>3, <1>4, <1>5, <1>6

(* So is what is left of one.                                                 *)
LEMMA HalfMadeNetwork ==
    ASSUME IInv, NEW l \in AllLinks, tunnels[Net(l)] # None,
           NEW g, NEW j \in AllLinks, HalfMade(g, j),
           g.vni = tunnels[Net(l)].vni \/ g.dev = tunnels[Net(l)].dev
    PROVE  Net(l) \in broken
<1>1. Net(l) \in Nets /\ Net(j) \in Nets /\ tunnels[Net(j)] # None
  BY Networks DEF HalfMade
<1>2. /\ tunnels[Net(l)].dev \in Nat /\ tunnels[Net(l)].vni = tunnels[Net(l)].dev + 1
      /\ tunnels[Net(j)].dev \in Nat /\ tunnels[Net(j)].vni = tunnels[Net(j)].dev + 1
  BY <1>1 DEF IInv, TypeOK, TunnelNames, Tunnel
<1>3. tunnels[Net(j)].dev = tunnels[Net(l)].dev
  <2>1. CASE g.vni = tunnels[Net(l)].vni
    BY <1>2, <2>1 DEF HalfMade
  <2>2. CASE g.dev = tunnels[Net(l)].dev
    BY <1>2, <2>2, BridgeManagerAssumption DEF HalfMade
  <2> QED
    BY <2>1, <2>2
<1>4. Net(j) = Net(l)
  BY <1>1, <1>3 DEF IInv, TunnelNames
<1> QED
  BY <1>4 DEF HalfMade

(* A device on the near side of the tunnel of l, if no command failed.        *)
LEMMA NearSide ==
    ASSUME IInv, NEW l \in AllLinks, pc[l] = "tunnel", Net(l) \notin broken,
           NEW g \in geneves, g.at = Here(l),
           g.dev = tn[l].dev \/ (g.vni = tn[l].vni /\ g.far = There(l))
    PROVE  Of(g, l) /\ g.vni = tn[l].vni /\ g.far = There(l)
<1>1. PICK j \in AllLinks : Of(g, j)
  <2>1. \A j \in AllLinks : ~HalfMade(g, j)
    BY AtTunnel, HalfMadeNetwork
  <2> QED
    BY <2>1 DEF IInv, Sides
<1>2. /\ g.br = bridges[Net(l)] /\ g.vni = tunnels[Net(l)].vni /\ Net(j) = Net(l)
      /\ l \in Links => j = l
      /\ l \in AdmLinks => j \in AdmLinks
  BY <1>1, AtTunnel, OneNetwork
<1>3. CASE l \in Links
  <2>1. Of(g, l) /\ l \notin AdmLinks
    BY <1>1, <1>2, <1>3, Networks
  <2> QED
    BY <1>2, <2>1, AtTunnel DEF Of, Named, Nameless, Here, There
<1>4. CASE l \in AdmLinks
  <2>1. At[j][2] = At[l][2] /\ j \notin Links /\ Here(l) = At[l][1] /\ There(l) = At[l][2]
    BY <1>2, <1>4, Networks, AtTunnel DEF Here, There
  <2>2. Named(g, j)
    BY <1>1, <2>1, AtTunnel DEF Of, Nameless
  <2>3. g.dev = tunnels[Net(l)].dev /\ g.far = At[l][2]
    BY <1>2, <2>1, <2>2 DEF Named
  <2> QED
    BY <1>2, <2>1, <2>3, AtTunnel DEF Of, Named
<1> QED
  BY <1>3, <1>4 DEF AllLinks

(* A set of devices each of which is a side of a tunnel, or half made.        *)
Sided(devs) ==
    /\ devs \subseteq [at : RealHosts, br : Nat \cup {None}, dev : Nat \cup {None},
                       vni : Nat, far : RealHosts]
    /\ \A g \in devs : \E k \in AllLinks : Of(g, k) \/ HalfMade(g, k)'

(* The sides that MakeTunnel may make.                                        *)
LEMMA SidesOf ==
    ASSUME IInv, NEW l \in AllLinks, pc[l] = "tunnel"
    PROVE  /\ Near(l).at = Here(l) /\ Near(l).far = There(l)
           /\ Near(l).br = bridges[Net(l)] /\ Near(l).vni = tn[l].vni
           /\ Far(l).at = There(l) /\ Far(l).far = Here(l)
           /\ Far(l).br = bridges[Net(l)] /\ Far(l).vni = tn[l].vni
           /\ {Near(l), Far(l), MadeOnly(Near(l)), Unplugged(Near(l)), MadeOnly(Far(l))}
                \subseteq [at : RealHosts, br : Nat \cup {None}, dev : Nat \cup {None},
                           vni : Nat, far : RealHosts]
           /\ Of(Near(l), l) /\ (l \in AdmLinks => Of(Far(l), l))
<1>1. Here(l) \in RealHosts /\ There(l) \in RealHosts
  BY AtTunnel
<1>2. {Near(l), Far(l), MadeOnly(Near(l)), Unplugged(Near(l)), MadeOnly(Far(l))}
        \subseteq [at : RealHosts, br : Nat \cup {None}, dev : Nat \cup {None},
                   vni : Nat, far : RealHosts]
  <2>1. Near(l) \in [at : RealHosts, br : Nat \cup {None}, dev : Nat \cup {None},
                     vni : Nat, far : RealHosts]
    BY <1>1, AtTunnel DEF Near, Geneve
  <2>2. Far(l) \in [at : RealHosts, br : Nat \cup {None}, dev : Nat \cup {None},
                    vni : Nat, far : RealHosts]
    BY <1>1, AtTunnel DEF Far, Geneve
  <2> QED
    BY <2>1, <2>2 DEF MadeOnly, Unplugged
<1>3. /\ Near(l).at = Here(l) /\ Near(l).far = There(l)
      /\ Near(l).br = bridges[Net(l)] /\ Near(l).vni = tn[l].vni /\ Near(l).dev = tn[l].dev
  BY DEF Near, Geneve
<1>4. /\ Far(l).at = There(l) /\ Far(l).far = Here(l)
      /\ Far(l).br = bridges[Net(l)] /\ Far(l).vni = tn[l].vni /\ Far(l).dev = None
  BY DEF Far, Geneve
<1>5. Named(Near(l), l)
  BY <1>3, AtTunnel DEF Named, Here, There, AllLinks
<1>6. l \in AdmLinks => Nameless(Far(l), l)
  BY <1>4, AtTunnel DEF Nameless, Here, There
<1>7. Of(Near(l), l)
  BY <1>3, <1>5, AtTunnel DEF Of
<1>8. l \in AdmLinks => Of(Far(l), l)
  BY <1>4, <1>6, AtTunnel DEF Of
<1> QED
  BY <1>2, <1>3, <1>4, <1>7, <1>8

(* What is made in vain is half made.                                         *)
LEMMA HalvesOf ==
    ASSUME IInv, NEW l \in AllLinks, pc[l] = "tunnel", Net(l) \in broken', UNCHANGED tunnels
    PROVE  \A g \in {MadeOnly(Near(l)), Unplugged(Near(l)), MadeOnly(Far(l))} : HalfMade(g, l)'
<1>1. /\ MadeOnly(Near(l)).br = None /\ MadeOnly(Near(l)).vni = tn[l].vni
      /\ MadeOnly(Near(l)).dev = None
  BY DEF MadeOnly, Near, Geneve
<1>2. /\ Unplugged(Near(l)).br = None /\ Unplugged(Near(l)).vni = tn[l].vni
      /\ Unplugged(Near(l)).dev = tn[l].dev
  BY DEF Unplugged, Near, Geneve
<1>3. /\ MadeOnly(Far(l)).br = None /\ MadeOnly(Far(l)).vni = tn[l].vni
      /\ MadeOnly(Far(l)).dev = None
  BY DEF MadeOnly, Far, Geneve
<1>4. tunnels'[Net(l)] # None /\ tn[l] = tunnels'[Net(l)]
  BY AtTunnel
<1> QED
  BY <1>1, <1>2, <1>3, <1>4 DEF HalfMade

LEMMA MakeTunnelMakes ==
    ASSUME IInv, NEW l \in AllLinks, MakeTunnel(l)
    PROVE  \E made :
             /\ geneves' = geneves \cup made /\ Sided(made)
             /\ \A g \in made : g.vni = tn[l].vni
<1>1. pc[l] = "tunnel" /\ UNCHANGED tunnels
  BY DEF MakeTunnel, dicts
<1>2. /\ \A g \in {Near(l), Far(l), MadeOnly(Near(l)), Unplugged(Near(l)), MadeOnly(Far(l))} :
            g.vni = tn[l].vni
      /\ Sided({}) /\ Sided({Near(l)}) /\ (l \in AdmLinks => Sided({Near(l), Far(l)}))
  BY <1>1, SidesOf DEF Sided, MadeOnly, Unplugged, Near, Far, Geneve
<1>3. Net(l) \in broken' =>
        /\ Sided({MadeOnly(Near(l))}) /\ Sided({Unplugged(Near(l))})
        /\ (l \in AdmLinks => Sided({Near(l), MadeOnly(Far(l))}))
  BY <1>1, SidesOf, HalvesOf DEF Sided
<1>4. CASE TunnelMade(l)
  <2>1. CASE HasTunnel(Here(l), tn[l].vni, There(l))
    <3>1. geneves' = geneves \cup {}
      BY <1>4, <2>1 DEF TunnelMade
    <3> QED
      BY <1>2, <3>1
  <2>2. CASE ~HasTunnel(Here(l), tn[l].vni, There(l)) /\ HasDevice(Here(l), tn[l].dev)
    <3>1. geneves' = geneves \cup {MadeOnly(Near(l))} /\ broken' = broken
      BY <1>4, <2>2 DEF TunnelMade
    <3>2. Net(l) \in broken
      BY <1>1, <2>2, NearSide DEF HasTunnel, HasDevice
    <3> QED
      BY <1>2, <1>3, <3>1, <3>2
  <2>3. CASE ~HasTunnel(Here(l), tn[l].vni, There(l)) /\ ~HasDevice(Here(l), tn[l].dev)
    <3>1. geneves' = geneves \cup ({Near(l)} \cup AdmSide(l))
      BY <1>4, <2>3 DEF TunnelMade
    <3>2. {Near(l)} \cup AdmSide(l) = {Near(l)}
          \/ (l \in AdmLinks /\ {Near(l)} \cup AdmSide(l) = {Near(l), Far(l)})
      <4>1. AdmSide(l) = {} \/ (l \in AdmLinks /\ AdmSide(l) = {Far(l)})
        BY DEF AdmSide
      <4> QED
        BY <4>1
    <3> QED
      BY <1>2, <3>1, <3>2
  <2> QED
    BY <2>1, <2>2, <2>3
<1>5. CASE TunnelBreaks(l)
  <2>1. Net(l) \in broken'
    BY <1>5 DEF TunnelBreaks, Breaks
  <2>2. PICK made \in {{}, {MadeOnly(Near(l))}, {Unplugged(Near(l))}}
                  \cup (IF l \in AdmLinks THEN {{Near(l)}, {Near(l), MadeOnly(Far(l))}} ELSE {}) :
          geneves' = geneves \cup made
    BY <1>5 DEF TunnelBreaks
  <2>3. Sided(made) /\ \A g \in made : g.vni = tn[l].vni
    BY <1>2, <1>3, <2>1, <2>2
  <2> QED
    BY <2>2, <2>3
<1> QED
  BY <1>4, <1>5 DEF MakeTunnel

LEMMA MakeTunnelSides ==
    ASSUME IInv, NEW l \in AllLinks, MakeTunnel(l)
    PROVE  /\ geneves \subseteq geneves' /\ broken \subseteq broken' /\ broken' \subseteq Nets
           /\ Sided(geneves')
           /\ \A k \in AdmLinks, g \in geneves' :
                Of(g, k) => Net(k) \in broken' \/ Answered(g, geneves')
           /\ \/ Net(l) \in broken'
              \/ \E g \in geneves' : Of(g, l) /\ g.at = Here(l) /\ g.far = There(l)
<1>1. pc[l] = "tunnel" /\ UNCHANGED tunnels
  BY DEF MakeTunnel, dicts
<1>2. broken \subseteq broken' /\ broken' \subseteq Nets
  <2>1. broken' = broken \/ broken' = broken \cup {Net(l)}
    <3>1. TunnelMade(l) \/ TunnelBreaks(l)
      BY DEF MakeTunnel
    <3>2. TunnelMade(l) => broken' = broken
      BY DEF TunnelMade
    <3>3. TunnelBreaks(l) => broken' = broken \cup {Net(l)}
      BY DEF TunnelBreaks, Breaks
    <3> QED
      BY <3>1, <3>2, <3>3
  <2>2. broken \subseteq Nets
    BY DEF IInv, TypeOK
  <2>3. Net(l) \in Nets
    BY Networks
  <2> QED
    BY <2>1, <2>2, <2>3
<1>3. PICK made : /\ geneves' = geneves \cup made /\ Sided(made)
                  /\ \A g \in made : g.vni = tn[l].vni
  BY MakeTunnelMakes
<1>4. Sided(geneves)
  <2>1. \A g, k : HalfMade(g, k) => HalfMade(g, k)'
    BY <1>1, <1>2 DEF HalfMade
  <2> QED
    BY <2>1 DEF Sided, IInv, TypeOK, Sides
<1>5. Sided(geneves')
  BY <1>3, <1>4 DEF Sided
<1>6. \A k \in AdmLinks, g \in geneves : Of(g, k) => Net(k) \in broken' \/ Answered(g, geneves')
  BY <1>2, <1>3 DEF IInv, Sides, Answered
<1>7. CASE Net(l) \in broken'
  <2>1. ASSUME NEW k \in AdmLinks, NEW g \in made, Of(g, k)
        PROVE  Net(k) \in broken'
    <3>1. Net(k) = Net(l)
      BY <1>1, <1>3, <2>1, AtTunnel, OneNetwork DEF AllLinks
    <3> QED
      BY <1>7, <3>1
  <2> QED
    BY <1>2, <1>3, <1>5, <1>6, <1>7, <2>1
<1>8. CASE Net(l) \notin broken'
  <2>0. Net(l) \notin broken /\ TunnelMade(l)
    BY <1>2, <1>8 DEF MakeTunnel, TunnelBreaks, Breaks
  <2>1. CASE HasTunnel(Here(l), tn[l].vni, There(l))
    <3>1. geneves' = geneves
      BY <2>0, <2>1 DEF TunnelMade
    <3>2. PICK g \in geneves : g.at = Here(l) /\ g.vni = tn[l].vni /\ g.far = There(l)
      BY <2>1 DEF HasTunnel
    <3>3. Of(g, l)
      BY <1>1, <2>0, <3>2, NearSide
    <3> QED
      BY <1>2, <1>5, <1>6, <3>1, <3>2, <3>3
  <2>2. CASE ~HasTunnel(Here(l), tn[l].vni, There(l))
    <3>1. ~HasDevice(Here(l), tn[l].dev)
      BY <1>1, <2>0, <2>2, NearSide DEF HasTunnel, HasDevice
    <3>2. geneves' = geneves \cup ({Near(l)} \cup AdmSide(l))
      BY <2>0, <2>2, <3>1 DEF TunnelMade
    <3>3. AdmSide(l) \subseteq {Far(l)} /\ (AdmSide(l) # {} => l \in AdmLinks)
      BY DEF AdmSide
    <3>4. l \in AdmLinks => \E h \in geneves' : /\ h.at = There(l) /\ h.far = Here(l)
                                              /\ h.br = bridges[Net(l)] /\ h.vni = tn[l].vni
      <4> SUFFICES ASSUME l \in AdmLinks
                   PROVE  \E h \in geneves' : /\ h.at = There(l) /\ h.far = Here(l)
                                              /\ h.br = bridges[Net(l)] /\ h.vni = tn[l].vni
        OBVIOUS
      <4>1. CASE HasTunnel(There(l), tn[l].vni, Here(l))
        <5>1. PICK h \in geneves : h.at = There(l) /\ h.vni = tn[l].vni /\ h.far = Here(l)
          BY <4>1 DEF HasTunnel
        <5>2. PICK j \in AllLinks : Of(h, j)
          <6>1. \A j \in AllLinks : ~HalfMade(h, j)
            BY <1>1, <2>0, <5>1, AtTunnel, HalfMadeNetwork
          <6> QED
            BY <6>1 DEF IInv, Sides
        <5>3. h.br = bridges[Net(l)]
          BY <1>1, <5>1, <5>2, AtTunnel, OneNetwork
        <5> QED
          BY <3>2, <5>1, <5>3
      <4>2. CASE ~HasTunnel(There(l), tn[l].vni, Here(l))
        <5>1. AdmSide(l) = {Far(l)}
          BY <4>2 DEF AdmSide
        <5> QED
          BY <1>1, <3>2, <5>1, SidesOf
      <4> QED
        BY <4>1, <4>2
    <3>5. ASSUME NEW k \in AdmLinks, NEW g \in geneves', Of(g, k)
          PROVE  Net(k) \in broken' \/ Answered(g, geneves')
      <4>1. CASE g \in geneves
        BY <1>6, <3>5, <4>1
      <4>2. CASE g = Near(l)
        <5>1. k \in AllLinks /\ g.vni = tunnels[Net(l)].vni
          BY <1>1, <4>2, AtTunnel, SidesOf DEF AllLinks
        <5>2. l \in Links => k = l
          BY <1>1, <3>5, <5>1, AtTunnel, OneNetwork
        <5>3. l \in AdmLinks
          BY <5>2, Networks DEF AllLinks
        <5> QED
          BY <1>1, <3>4, <4>2, <5>3, SidesOf DEF Answered
      <4>3. CASE g = Far(l)
        BY <1>1, <3>2, <4>3, SidesOf DEF Answered
      <4> QED
        BY <3>2, <3>3, <4>1, <4>2, <4>3
    <3> QED
      BY <1>1, <1>2, <1>5, <3>2, <3>5, SidesOf
  <2> QED
    BY <2>1, <2>2
<1> QED
  BY <1>7, <1>8

LEMMA MakeTunnelIInv ==
    ASSUME IInv, NEW l \in AllLinks, MakeTunnel(l)
    PROVE  IInv'
<1>1. /\ pc[l] = "tunnel" /\ EndPlugged(l) /\ Active(l)
      /\ UNCHANGED <<dicts, name, tn, veths>>
  BY DEF MakeTunnel, Active, Ended
<1>2. Extends
  BY <1>1, MakeTunnelSides DEF Extends, dicts
<1>3. \A g, k : Of(g, k)' <=> Of(g, k)
  BY <1>1 DEF Of, Named, Nameless, dicts
<1>4. ASSUME NEW e \in {1, 2}, end[l] = e
      PROVE  Plugged(l, e)' /\ Tunneled(l, e)'
  <2>1. Plugged(l, e)'
    <3>1. Plugged(l, e)
      BY <1>1, <1>4 DEF IInv, Progress, ProgressOf, Tunneling
    <3> QED
      BY <1>2, <3>1, ExtendsKeeps
  <2>2. Tunneled(l, e)'
    <3>1. CASE Net(l) \in broken'
      BY <3>1 DEF Tunneled
    <3>2. CASE Net(l) \notin broken'
      <4>1. PICK g \in geneves' : Of(g, l) /\ g.at = At[l][e] /\ g.far = At[l][3 - e]
        BY <1>4, <3>2, MakeTunnelSides DEF Here, There
      <4>2. Of(g, l)'
        BY <1>2, <4>1, ExtendsKeeps
      <4> QED
        BY <4>1, <4>2 DEF Tunneled
    <3> QED
      BY <3>1, <3>2
  <2> QED
    BY <2>1, <2>2
<1>5. /\ Others(l) /\ OneTask' /\ Progress' /\ pc'[l] \in {"find", "done"}
      /\ pc' \in [AllLinks -> PC] /\ end' \in [AllLinks -> {1, 2}]
  <2>1. end[l] = 1 \/ end[l] = 2
    BY DEF IInv, TypeOK
  <2>2. CASE end[l] = 1
    BY <1>1, <1>2, <1>4, <2>2, EndPluggedStep
  <2>3. CASE end[l] = 2
    BY <1>1, <1>2, <1>4, <2>3, EndPluggedStep
  <2> QED
    BY <2>1, <2>2, <2>3
<1>6. TypeOK'
  BY <1>1, <1>5, MakeTunnelSides DEF IInv, TypeOK, Sided, dicts
<1>7. BridgeNames' /\ TunnelNames'
  <2>1. \A k \in AllLinks \ {l} : pc'[k] = pc[k]
    BY <1>5 DEF Others
  <2>2. BridgeNames'
    BY <1>1, <1>5, <2>1 DEF IInv, BridgeNames, dicts, Tunneling
  <2>3. TunnelNames'
    BY <1>1, <1>5, <2>1 DEF IInv, TunnelNames, dicts
  <2> QED
    BY <2>2, <2>3
<1>8. Plugs'
  BY <1>1 DEF IInv, Plugs, dicts
<1>9. Sides'
  <2>1. \A g \in geneves' : \E k \in AllLinks : Of(g, k)' \/ HalfMade(g, k)'
    BY <1>3, MakeTunnelSides DEF Sided
  <2>2. \A k \in AdmLinks, g \in geneves' :
          Of(g, k)' => Net(k) \in broken' \/ Answered(g, geneves')
    BY <1>3, MakeTunnelSides
  <2> QED
    BY <2>1, <2>2 DEF Sides, Answered
<1> QED
  BY <1>5, <1>6, <1>7, <1>8, <1>9 DEF IInv

LEMMA NextIInv ==
    ASSUME IInv, NWorkers = 1, [Next]_vars
    PROVE  IInv'
<1>1. ASSUME NEW l \in AllLinks, LinkStep(l)
      PROVE  IInv'
  <2>1. CASE Start(l)
    BY <2>1, StartIInv
  <2>2. CASE FindBridge(l) \/ NameBridge(l)
    BY <2>2, BridgeStepIInv
  <2>3. CASE CountBridge(l)
    BY <2>3, CountBridgeIInv
  <2>4. CASE Plug(l) \/ PlugFails(l)
    BY <2>4, PlugIInv, PlugFailsIInv
  <2>5. CASE FindTunnel(l) \/ NameTunnel(l) \/ CountTunnel(l)
    BY <2>5, TunnelStepIInv
  <2>6. CASE StoreTunnel(l)
    BY <2>6, StoreTunnelIInv
  <2>7. CASE MakeTunnel(l)
    BY <2>7, MakeTunnelIInv
  <2> QED
    BY <1>1, <2>1, <2>2, <2>3, <2>4, <2>5, <2>6, <2>7 DEF LinkStep
<1>2. CASE UNCHANGED vars
  <2>1. UNCHANGED <<bridges, nbridges, tunnels, ntunnels, pc, end, name, tn, veths,
                  geneves, broken>>
    BY <1>2 DEF vars, dicts, locals, devices
  <2>2. TypeOK' /\ OneTask' /\ BridgeNames' /\ TunnelNames' /\ Plugs'
    BY <2>1 DEF IInv, TypeOK, OneTask, Active, BridgeNames, TunnelNames, Plugs, Ended
  <2>3. Sides'
    BY <2>1 DEF IInv, Sides, Of, HalfMade, Answered, Named, Nameless
  <2>4. Progress'
    <3>1. Extends
      BY <2>1 DEF Extends
    <3>2. ASSUME NEW l \in AllLinks
          PROVE  ProgressOf(l)'
      <4>1. ProgressOf(l)
        BY DEF IInv, Progress
      <4> QED
        BY <2>1, <3>1, <4>1, ExtendsKeeps DEF ProgressOf
    <3> QED
      BY <3>2 DEF Progress
  <2> QED
    BY <2>2, <2>3, <2>4 DEF IInv
<1> QED
  BY <1>1, <1>2 DEF Next, AllDone

(* In serial mode the invariant holds in every behavior.                      *)
THEOREM Inductive == ASSUME NWorkers = 1 PROVE Spec => []IInv
<1>1. Init => IInv
  BY InitIInv
<1>2. IInv /\ [Next]_vars => IInv'
  BY NextIInv
<1> QED
  BY <1>1, <1>2, PTL DEF Spec

(* In serial mode get_bridge, get_tunnel and what they call keep the type of  *)
(* every dictionary, counter and device.                                      *)
THEOREM TypeCorrect == ASSUME NWorkers = 1 PROVE Spec => []TypeOK
<1>1. IInv => TypeOK
  BY DEF IInv
<1> QED
  BY <1>1, Inductive, PTL

(* A bridge is of one network, and so are the two sides of a tunnel.          *)
LEMMA BridgesApart ==
    ASSUME IInv, NEW v \in veths, NEW w \in veths, v.br = w.br
    PROVE  NetOf(v.end) = NetOf(w.end)
  BY BridgeManagerAssumption DEF IInv, TypeOK, Plugs, BridgeNames

LEMMA TunnelOfNet ==
    ASSUME IInv, NEW v \in veths, NEW g \in geneves, g.br = v.br
    PROVE  /\ tunnels[NetOf(v.end)] # None /\ g.vni = tunnels[NetOf(v.end)].vni
           /\ NetOf(v.end) \in Nets
<1>1. PICK j \in AllLinks : Of(g, j)
  <2>1. g.br # None
    BY BridgeManagerAssumption DEF IInv, TypeOK
  <2> QED
    BY <2>1 DEF IInv, Sides, HalfMade
<1>2. Net(j) = NetOf(v.end)
  <2>1. /\ NetOf(v.end) \in Nets /\ v.br = bridges[NetOf(v.end)]
        /\ Net(j) \in Nets /\ g.br = bridges[Net(j)] /\ bridges[Net(j)] # None
    BY <1>1, Networks DEF IInv, Plugs, Of
  <2> QED
    BY <2>1 DEF IInv, BridgeNames
<1> QED
  BY <1>1, <1>2, Networks DEF Of

LEMMA TunnelsApart ==
    ASSUME IInv, NEW v \in veths, NEW w \in veths,
           TunnelsBetween(v.at, v.br, w.at, w.br) # {}
    PROVE  NetOf(v.end) = NetOf(w.end)
<1>1. PICK vni : vni \in TunnelsBetween(v.at, v.br, w.at, w.br)
  OBVIOUS
<1>2. PICK g \in geneves : g.br = v.br /\ g.vni = vni
  BY <1>1 DEF TunnelsBetween
<1>3. PICK h \in geneves : h.br = w.br /\ h.vni = vni
  BY <1>1 DEF TunnelsBetween
<1>4. /\ tunnels[NetOf(v.end)] # None /\ vni = tunnels[NetOf(v.end)].vni /\ NetOf(v.end) \in Nets
      /\ tunnels[NetOf(w.end)] # None /\ vni = tunnels[NetOf(w.end)].vni /\ NetOf(w.end) \in Nets
  BY <1>2, <1>3, TunnelOfNet
<1>5. tunnels[NetOf(v.end)].dev = tunnels[NetOf(w.end)].dev
  <2>1. /\ tunnels[NetOf(v.end)].dev \in Nat
        /\ tunnels[NetOf(v.end)].vni = tunnels[NetOf(v.end)].dev + 1
    BY <1>4 DEF IInv, TypeOK, TunnelNames, Tunnel
  <2>2. /\ tunnels[NetOf(w.end)].dev \in Nat
        /\ tunnels[NetOf(w.end)].vni = tunnels[NetOf(w.end)].dev + 1
    BY <1>4 DEF IInv, TypeOK, TunnelNames, Tunnel
  <2>3. tunnels[NetOf(v.end)].vni = tunnels[NetOf(w.end)].vni
    BY <1>4
  <2> QED
    BY <2>1, <2>2, <2>3
<1> QED
  BY <1>4, <1>5 DEF IInv, TunnelNames

(* In serial mode the traffic of a virtual link reaches no other network: no  *)
(* two networks have got one bridge name from get_bridge, nor one VNI from    *)
(* get_tunnel, and no device of one ends in a bridge of the other.            *)
THEOREM Isolated == ASSUME NWorkers = 1 PROVE Spec => []LinksIsolated
<1>1. IInv => LinksIsolated
  BY BridgesApart, TunnelsApart DEF LinksIsolated, Joined
<1> QED
  BY <1>1, Inductive, PTL

LEMMA EndsJoined ==
    ASSUME IInv, NEW l \in AllLinks, pc[l] = "done", Net(l) \notin broken
    PROVE  JoinedEnds(l)
<1>1. ProgressOf(l) /\ end[l] \in {1, 2}
  BY DEF IInv, TypeOK, Progress
<1>2. Plugged(l, 1) /\ Tunneled(l, 1)
  BY <1>1 DEF ProgressOf
<1>3. PICK v \in veths : v.end = <<l, 1>> /\ v.at = At[l][1]
  BY <1>2 DEF Plugged
<1>4. \E w \in veths : w.end = Peer(l) /\ w.at = At[l][2]
  <2>1. CASE l \in AdmLinks
    BY <2>1 DEF IInv, Plugs, Peer
  <2>2. CASE l \in Links
    <3>1. Plugged(l, 2) /\ l \notin AdmLinks
      BY <1>1, <2>2, Networks DEF ProgressOf, IInv, OneTask
    <3> QED
      BY <3>1 DEF Plugged, Peer
  <2> QED
    BY <2>1, <2>2 DEF AllLinks
<1>5. PICK w \in veths : w.end = Peer(l) /\ w.at = At[l][2]
  BY <1>4
<1>6. v.br = bridges[Net(l)] /\ w.br = bridges[Net(l)]
  <2>1. NetOf(<<l, 1>>) = Net(l) /\ NetOf(Peer(l)) = Net(l)
    BY Networks DEF NetOf, Peer
  <2> QED
    BY <1>3, <1>5, <2>1 DEF IInv, Plugs
<1>7. CASE At[l][1] = At[l][2]
  BY <1>3, <1>5, <1>6, <1>7 DEF JoinedEnds, Joined
<1>8. CASE At[l][1] # At[l][2]
  <2>1. PICK g \in geneves : Of(g, l) /\ g.at = At[l][1] /\ g.far = At[l][2]
    BY <1>2, <1>8 DEF Tunneled
  <2>2. \E h \in geneves : h.at = At[l][2] /\ h.far = At[l][1] /\ h.br = g.br /\ h.vni = g.vni
    <3>1. CASE l \in AdmLinks
      BY <2>1, <3>1 DEF IInv, Sides, Answered
    <3>2. CASE l \in Links
      <4>1. Tunneled(l, 2)
        BY <1>1, <3>2 DEF ProgressOf, IInv, OneTask
      <4>2. PICK h \in geneves : Of(h, l) /\ h.at = At[l][2] /\ h.far = At[l][1]
        BY <1>8, <4>1 DEF Tunneled
      <4> QED
        BY <2>1, <4>2 DEF Of
    <3> QED
      BY <3>1, <3>2 DEF AllLinks
  <2>3. g.br = bridges[Net(l)]
    BY <2>1 DEF Of
  <2>4. g.vni \in TunnelsBetween(v.at, v.br, w.at, w.br)
    BY <1>3, <1>5, <1>6, <2>1, <2>2, <2>3 DEF TunnelsBetween
  <2> QED
    BY <1>3, <1>5, <2>4 DEF JoinedEnds, Joined
<1> QED
  BY <1>7, <1>8

(* In serial mode the two ends of every link whose task is done reach each    *)
(* other, if no command failed for its network: the errors that add_to_bridge *)
(* means to ignore, those of a tunnel that exists already, leave no side out, *)
(* whatever else fails.                                                       *)
THEOREM JoinedWhenDone == ASSUME NWorkers = 1 PROVE Spec => []LinksJoined
<1>1. IInv => LinksJoined
  BY EndsJoined DEF LinksJoined
<1> QED
  BY <1>1, Inductive, PTL

LEMMA OneVNI ==
    ASSUME IInv, NEW v \in veths, NEW w \in veths
    PROVE  Cardinality(TunnelsBetween(v.at, v.br, w.at, w.br)) <= 1
<1> DEFINE T == TunnelsBetween(v.at, v.br, w.at, w.br)
           n == tunnels[NetOf(v.end)].vni
<1>1. T \subseteq {n}
  BY TunnelOfNet DEF TunnelsBetween
<1>2. IsFiniteSet({n}) /\ Cardinality({n}) = 1
  BY FS_Singleton
<1>3. Cardinality(T) <= Cardinality({n})
  BY <1>1, <1>2, FS_Subset
<1> QED
  BY <1>2, <1>3

(* In serial mode no two tunnels connect one pair of bridges: a VNI is read   *)
(* from tunnel_counter once per network, however many links the network has.  *)
THEOREM Loopless == ASSUME NWorkers = 1 PROVE Spec => []OneTunnel
<1>1. IInv => OneTunnel
  BY OneVNI DEF OneTunnel
<1> QED
  BY <1>1, Inductive, PTL
================================================================================
