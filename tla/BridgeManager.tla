----------------------------- MODULE BridgeManager -----------------------------
(* Links in geneve mode.  A task per link plugs its ends, one after the other,*)
(* into the bridge of the link's network on the real host of the end, and     *)
(* sets up a geneve tunnel when the far end is on another real host.  The     *)
(* names of bridges and tunnels and the VNIs come from counters that the      *)
(* tasks share and that no lock protects: a worker may be preempted between   *)
(* any two statements of get_bridge and get_tunnel.  Commands of one task     *)
(* that no other task can disturb are one step; any of them may fail.         *)
EXTENDS Naturals, FiniteSets

CONSTANTS
    RealHosts,    \* the real hosts of the deployment
    Links,        \* links between two virtual hosts; each has its own network
    AdmLinks,     \* administrative links of virtual hosts to the adm host
    At,           \* At[l][e]: the real host of end e of l
    AdmNet,       \* the network that the administrative links share
    NWorkers,     \* link tasks under way at a time: 1 in serial mode
    MaxErrors,    \* bound: tasks that fail and networks that lose a command
    None          \* no bridge, no tunnel, no name

AllLinks == Links \cup AdmLinks
Nets == Links \cup (IF AdmLinks = {} THEN {} ELSE {AdmNet})

ASSUME BridgeManagerAssumption ==
    /\ NWorkers \in Nat \ {0} /\ MaxErrors \in Nat
    /\ IsFiniteSet(Links) /\ IsFiniteSet(AdmLinks)
    /\ Links \cap AdmLinks = {} /\ AdmNet \notin AllLinks
    /\ At \in [AllLinks -> RealHosts \X RealHosts]
    /\ \A l, k \in AdmLinks : At[l][2] = At[k][2]
    /\ None \notin Nat \cup AllLinks \cup RealHosts \cup [dev : Nat, vni : Nat]

VARIABLES
    bridges,   \* bridges_dict: the name (a number) of the bridge of a network
    nbridges,  \* bridge_counter
    tunnels,   \* tunnels_dict: the name and the VNI of the tunnel of a network
    ntunnels,  \* tunnel_counter
    pc,        \* where the task of a link is
    end,       \* the end that it plugs: 1 or 2
    name,      \* the name that get_bridge or get_tunnel made
    tn,        \* what get_tunnel returned
    veths,     \* the ends in bridges: the real host, the bridge, the end
    geneves,   \* geneve devices: the real host, bridge, name, VNI, remote
    broken     \* networks that lost a command to an error that was ignored

dicts == <<bridges, nbridges, tunnels, ntunnels>>
locals == <<pc, end, name, tn>>
devices == <<veths, geneves, broken>>
vars == <<dicts, locals, devices>>

PC == {"idle", "find", "name", "count", "plug", "tfind", "tname", "tcount",
       "tstore", "tunnel", "done", "failed"}
Tunnel == [dev : Nat, vni : Nat]
Ends == (AllLinks \X {1, 2}) \cup {<<AdmNet, 2>>}

Net(l) == IF l \in AdmLinks THEN AdmNet ELSE l
(* The real hosts of the end under way and of the other one. *)
Here(l) == At[l][end[l]]
There(l) == At[l][3 - end[l]]
Ended == {"idle", "done", "failed"}
Running == {l \in AllLinks : pc[l] \notin Ended}

GoTo(l, p) == pc' = [pc EXCEPT ![l] = p]

(* The adm host plugged its own end when the pool was made.  The task of an   *)
(* administrative link plugs the end of the virtual host only.                *)
Init ==
    /\ bridges = [n \in Nets |-> IF n = AdmNet THEN 0 ELSE None]
    /\ nbridges = IF AdmLinks = {} THEN 0 ELSE 1
    /\ tunnels = [n \in Nets |-> None] /\ ntunnels = 0
    /\ pc = [l \in AllLinks |-> "idle"]
    /\ end = [l \in AllLinks |-> 1]
    /\ name = [l \in AllLinks |-> None] /\ tn = [l \in AllLinks |-> None]
    /\ veths = {[at |-> At[l][2], br |-> 0, end |-> <<AdmNet, 2>>] : l \in AdmLinks}
    /\ geneves = {} /\ broken = {}

Start(l) ==
    /\ pc[l] = "idle"
    /\ Cardinality(Running) < NWorkers
    /\ GoTo(l, "find")
    /\ UNCHANGED <<dicts, end, name, tn, devices>>

FindBridge(l) ==
    /\ pc[l] = "find"
    /\ GoTo(l, IF bridges[Net(l)] = None THEN "name" ELSE "plug")
    /\ UNCHANGED <<dicts, end, name, tn, devices>>

NameBridge(l) ==
    /\ pc[l] = "name"
    /\ name' = [name EXCEPT ![l] = nbridges]
    /\ GoTo(l, "count")
    /\ UNCHANGED <<dicts, end, tn, devices>>

(* Mutant: the counter is not incremented. *)
CountBridge_Forgotten(l) ==
    /\ pc[l] = "count"
    /\ bridges' = [bridges EXCEPT ![Net(l)] = name[l]]
    /\ GoTo(l, "plug")
    /\ UNCHANGED <<nbridges, tunnels, ntunnels, end, name, tn, devices>>

CountBridge(l) ==
    /\ pc[l] = "count"
    /\ bridges' = [bridges EXCEPT ![Net(l)] = name[l]]
    /\ nbridges' = nbridges + 1
    /\ GoTo(l, "plug")
    /\ UNCHANGED <<tunnels, ntunnels, end, name, tn, devices>>

(* The end is in; the task turns to the other end or is done. *)
EndPlugged(l) ==
    LET more == end[l] = 1 /\ l \in Links
    IN  /\ GoTo(l, IF more THEN "find" ELSE "done")
        /\ end' = IF more THEN [end EXCEPT ![l] = 2] ELSE end

MayFail ==
    Cardinality({l \in AllLinks : pc[l] = "failed"}) + Cardinality(broken) < MaxErrors
Breaks(l) == MayFail /\ broken' = broken \cup {Net(l)}

(* A bridge is made when its first interface on a real host comes, and an     *)
(* error of that is ignored: the bridge may be left down.                     *)
NewBridge(l) == ~\E v \in veths : v.at = Here(l) /\ v.br = bridges[Net(l)]

(* Bridge.add: a bridge of that name that exists already is taken as it is.   *)
Plug(l) ==
    /\ pc[l] = "plug"
    /\ broken' = broken \/ (NewBridge(l) /\ Breaks(l))
    /\ veths' = veths \cup {[at |-> Here(l), br |-> bridges[Net(l)], end |-> <<l, end[l]>>]}
    /\ IF Here(l) # There(l)
       THEN GoTo(l, "tfind") /\ end' = end
       ELSE EndPlugged(l)
    /\ UNCHANGED <<dicts, name, tn, geneves>>

(* The interface cannot be moved or enslaved: the task ends with the IOError. *)
PlugFails(l) ==
    /\ pc[l] = "plug" /\ MayFail
    /\ GoTo(l, "failed")
    /\ UNCHANGED <<dicts, end, name, tn, devices>>

(* Mutant: get_tunnel never finds the tunnel of a network. *)
FindTunnel_Misses(l) ==
    /\ pc[l] = "tfind"
    /\ GoTo(l, "tname")
    /\ UNCHANGED <<dicts, end, name, tn, devices>>

FindTunnel(l) ==
    /\ pc[l] = "tfind"
    /\ GoTo(l, IF tunnels[Net(l)] = None THEN "tname" ELSE "tunnel")
    /\ tn' = [tn EXCEPT ![l] = tunnels[Net(l)]]
    /\ UNCHANGED <<dicts, end, name, devices>>

NameTunnel(l) ==
    /\ pc[l] = "tname"
    /\ name' = [name EXCEPT ![l] = ntunnels]
    /\ GoTo(l, "tcount")
    /\ UNCHANGED <<dicts, end, tn, devices>>

CountTunnel(l) ==
    /\ pc[l] = "tcount"
    /\ ntunnels' = ntunnels + 1
    /\ GoTo(l, "tstore")
    /\ UNCHANGED <<bridges, nbridges, tunnels, end, name, tn, devices>>

(* Mutant: every tunnel has the same VNI. *)
StoreTunnel_SameVNI(l) ==
    LET new == [dev |-> name[l], vni |-> 1]
    IN  /\ pc[l] = "tstore"
        /\ tn' = [tn EXCEPT ![l] = new]
        /\ tunnels' = [tunnels EXCEPT ![Net(l)] = new]
        /\ GoTo(l, "tunnel")
        /\ UNCHANGED <<bridges, nbridges, ntunnels, end, name, devices>>

(* The VNI is read from the counter again. *)
StoreTunnel(l) ==
    LET new == [dev |-> name[l], vni |-> ntunnels]
    IN  /\ pc[l] = "tstore"
        /\ tn' = [tn EXCEPT ![l] = new]
        /\ tunnels' = [tunnels EXCEPT ![Net(l)] = new]
        /\ GoTo(l, "tunnel")
        /\ UNCHANGED <<bridges, nbridges, ntunnels, end, name, devices>>

(* The kernel refuses a second geneve device with the VNI and the remote of   *)
(* another one on that host, and a second device of one name in a namespace.  *)
HasTunnel(r, vni, far) == \E g \in geneves : g.at = r /\ g.vni = vni /\ g.far = far
HasDevice(r, dev) == \E g \in geneves : g.at = r /\ g.dev = dev

Geneve(r, br, dev, vni, far) == [at |-> r, br |-> br, dev |-> dev, vni |-> vni, far |-> far]

(* The two sides of the tunnel; that of the adm host keeps a random name.     *)
Near(l) == Geneve(Here(l), bridges[Net(l)], tn[l].dev, tn[l].vni, There(l))
Far(l) == Geneve(There(l), bridges[Net(l)], None, tn[l].vni, Here(l))

AdmSide(l) ==
    IF l \in AdmLinks /\ ~HasTunnel(There(l), tn[l].vni, Here(l)) THEN {Far(l)} ELSE {}

(* What there is of a side when the commands end early: a device that was     *)
(* made, and perhaps moved into topo, but not put into the bridge.            *)
MadeOnly(g) == [g EXCEPT !.br = None, !.dev = None]
Unplugged(g) == [g EXCEPT !.br = None]

(* The commands that can succeed do.                                          *)
TunnelMade(l) ==
    /\ geneves' = geneves \cup
         CASE HasTunnel(Here(l), tn[l].vni, There(l)) -> {}
           [] HasDevice(Here(l), tn[l].dev) /\ ~HasTunnel(Here(l), tn[l].vni, There(l)) ->
                {MadeOnly(Near(l))}
           [] OTHER -> {Near(l)} \cup AdmSide(l)
    /\ broken' = broken

(* Another one fails, on this side or, after it, on that of the adm host.     *)
TunnelBreaks(l) ==
    /\ ~HasTunnel(Here(l), tn[l].vni, There(l)) /\ ~HasDevice(Here(l), tn[l].dev)
    /\ \E made \in {{}, {MadeOnly(Near(l))}, {Unplugged(Near(l))}}
                  \cup (IF l \in AdmLinks THEN {{Near(l)}, {Near(l), MadeOnly(Far(l))}} ELSE {}) :
          geneves' = geneves \cup made
    /\ Breaks(l)

(* Every IOError on the way is ignored: what was made before it stays.        *)
MakeTunnel(l) ==
    /\ pc[l] = "tunnel"
    /\ TunnelMade(l) \/ TunnelBreaks(l)
    /\ EndPlugged(l)
    /\ UNCHANGED <<dicts, name, tn, veths>>

LinkStep(l) ==
    \/ Start(l)
    \/ FindBridge(l) \/ NameBridge(l) \/ CountBridge(l)
    \/ Plug(l) \/ PlugFails(l)
    \/ FindTunnel(l) \/ NameTunnel(l) \/ CountTunnel(l) \/ StoreTunnel(l)
    \/ MakeTunnel(l)

AllDone == (\A l \in AllLinks : pc[l] \in {"done", "failed"}) /\ UNCHANGED vars
Next == (\E l \in AllLinks : LinkStep(l)) \/ AllDone

Spec == Init /\ [][Next]_vars

--------------------------------------------------------------------------------
(* Properties *)

(* Every variable keeps its type. *)
TypeOK ==
    /\ bridges \in [Nets -> Nat \cup {None}] /\ nbridges \in Nat
    /\ tunnels \in [Nets -> Tunnel \cup {None}] /\ ntunnels \in Nat
    /\ pc \in [AllLinks -> PC]
    /\ end \in [AllLinks -> {1, 2}]
    /\ name \in [AllLinks -> Nat \cup {None}]
    /\ tn \in [AllLinks -> Tunnel \cup {None}]
    /\ veths \subseteq [at : RealHosts, br : Nat, end : Ends]
    /\ geneves \subseteq [at : RealHosts, br : Nat \cup {None}, dev : Nat \cup {None},
                          vni : Nat, far : RealHosts]
    /\ broken \subseteq Nets

NetOf(e) == IF e[1] \in AllLinks THEN Net(e[1]) ELSE e[1]

(* The tunnels between two bridges: a device on each side, with one VNI.      *)
TunnelsBetween(r, br, s, cr) ==
    {vni \in {g.vni : g \in geneves} :
        /\ \E g \in geneves : g.at = r /\ g.br = br /\ g.vni = vni /\ g.far = s
        /\ \E g \in geneves : g.at = s /\ g.br = cr /\ g.vni = vni /\ g.far = r}

(* Traffic of one end reaches the other end. *)
Joined(v, w) ==
    \/ v.at = w.at /\ v.br = w.br
    \/ TunnelsBetween(v.at, v.br, w.at, w.br) # {}

(* The traffic of a virtual link is isolated: it reaches no end of another    *)
(* network, neither through a shared bridge nor through a shared VNI.         *)
LinksIsolated ==
    \A v, w \in veths : Joined(v, w) => NetOf(v.end) = NetOf(w.end)

Peer(l) == IF l \in AdmLinks THEN <<AdmNet, 2>> ELSE <<l, 2>>
JoinedEnds(l) ==
    \E v, w \in veths : v.end = <<l, 1>> /\ w.end = Peer(l) /\ Joined(v, w)

(* Once its task is done, the two ends of a link reach each other, if no      *)
(* command failed for its network but to tell that a device exists already.   *)
(* Other errors of a tunnel are ignored just so, and leave a link that is     *)
(* done, of which nobody knows that its ends are apart.                       *)
LinksJoined ==
    \A l \in AllLinks : pc[l] = "done" /\ Net(l) \notin broken => JoinedEnds(l)

(* No two tunnels connect one pair of bridges, which would be a loop.         *)
OneTunnel ==
    \A v, w \in veths :
        v.at # w.at => Cardinality(TunnelsBetween(v.at, v.br, w.at, w.br)) <= 1
================================================================================
