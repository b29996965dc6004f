--------------------------------- MODULE Routing ---------------------------------
(* Topology and routes: the script connects hosts and sets delays; at         *)
(* build-network each host computes its routes along shortest paths, one per  *)
(* address (shortest_path) or collapsed into networks                         *)
(* (shortest_path_compressed).  The kernel routes by longest prefix.  Names    *)
(* that Shaper has too begin with Routes: NetworkProofs extends both.         *)
EXTENDS Naturals, Sequences, FiniteSets, FiniteSetsExt

CONSTANTS
    Hosts,          \* the virtual hosts that the script defined
    Delays,         \* delays that connect and set-delay may set: [value, unit]
    MaxLinks        \* bound on connect, the number of /30 networks of the pool

(* __parse_delay takes the suffix from the last token of its split, which is  *)
(* never the unit: the number alone counts.                                   *)
Parsed(d) == d.value

(* The shortest path library counts 1 for an edge without a delay. *)
NoDelay == 1
Weights == {Parsed(d) : d \in Delays} \cup {NoDelay}

ASSUME RoutingAssumption ==
    /\ IsFiniteSet(Hosts)
    /\ Delays \subseteq [value : Nat, unit : STRING]
    /\ IsFiniteSet(Weights)
    /\ MaxLinks \in Nat

VARIABLES
    links,      \* the links in order: <<h1, h2>>; link i has the i-th network
    delay,      \* the edges of the graph and the weights of their delays
    all_pairs,  \* all_pairs[s][d]: the length of the paths from s to d
    via         \* via[h]: the first hop of h to each host that it reaches,
                \* for every h once the network is built

routesVars == <<links, delay, all_pairs, via>>

--------------------------------------------------------------------------------
(* Addresses, counted from the first one of the pool: a network has four, the *)
(* two in the middle are those of its hosts.                                  *)

LinkIds == 1..Len(links)
First(i) == 4 * (i - 1)
Net(a) == a \div 4 + 1
Addr(i, h) == First(i) + (IF links[i][1] = h THEN 1 ELSE 2)
EndHosts(i) == {links[i][1], links[i][2]}
LinksOf(h) == {i \in LinkIds : h \in EndHosts(i)}
AddrsOf(h) == {Addr(i, h) : i \in LinksOf(h)}
Peer(i, h) == CHOOSE g \in EndHosts(i) : g # h

(* Mutant: the first interface of h, wherever it leads. *)
LinkTo_AnyPeer(h, g) == Min(LinksOf(h))

(* get_endpoint_iface: the first interface of h whose other end is at g, in   *)
(* the order of the script, where connect registers both.                     *)
LinkTo(h, g) == Min({i \in LinkIds : EndHosts(i) = {h, g}})

--------------------------------------------------------------------------------
(* The graph *)

Edges == DOMAIN delay
Infinity == 1 + Cardinality(Hosts) * Max(Weights)
Weight(h, g) == delay[{h, g}]

(* Paths of at most one edge more, which goes on from one of some hosts. *)
Shortened(dist, through) ==
    [h \in Hosts |->
        Min({dist[h]} \cup {dist[g] + Weight(g, h) : g \in {x \in through : {x, h} \in Edges}})]

(* Distances from s through some hosts, along at most k edges, for the k that *)
(* is enough.                                                                 *)
DistFrom(s, through) ==
    LET last == Cardinality(Hosts) - 1
        D[k \in 0..last] ==
            IF k = 0 THEN [h \in Hosts |-> IF h = s THEN 0 ELSE Infinity]
            ELSE Shortened(D[k - 1], through)
    IN  D[last]

Dist == [s \in Hosts |-> DistFrom(s, Hosts)]

Reached(s, dist) == {d \in Hosts \ {s} : dist[s][d] < Infinity}

(* The hosts that may follow s on a shortest path to d: which of several      *)
(* shortest paths the library returns is left open.  Over an edge without     *)
(* weight there must be a path that does not come back to s.                  *)
FirstHops(s, d, dist) ==
    {g \in Hosts :
        /\ {s, g} \in Edges
        /\ Weight(s, g) + dist[g][d] = dist[s][d]
        /\ Weight(s, g) = 0 => DistFrom(g, Hosts \ {s})[d] = dist[g][d]}

(* The functions that take a member of each set of choices. *)
Products(choices) ==
    LET all == UNION {choices[h] : h \in DOMAIN choices} IN
    {f \in [DOMAIN choices -> all] : \A h \in DOMAIN choices : f[h] \in choices[h]}

(* The first hops that the task of s may find, to all hosts that s reaches. *)
RoutesFrom(s, dist) ==
    Products([d \in Reached(s, dist) |-> FirstHops(s, d, dist)])

--------------------------------------------------------------------------------
(* Routing tables: sets of routes [net, size, link], net is the first address *)

(* Addresses that h reaches through its link l. *)
Routed(h, l) ==
    {a \in UNION {AddrsOf(d) : d \in {x \in DOMAIN via[h] : LinkTo(h, via[h][x]) = l}} :
        Net(a) # l}

Route(h, a, n, l) == [at |-> h, net |-> a, size |-> n, link |-> l]

(* static_routes *)
Plain(h) == UNION {{Route(h, a, 1, l) : a \in Routed(h, l)} : l \in LinksOf(h)}

(* Mutant: the whole network of every address. *)
Filled_WholeNetworks(addrs) == UNION {First(Net(a))..(First(Net(a)) + 3) : a \in addrs}

(* Both hosts of a network routed the same way: its two other addresses too. *)
Filled(addrs) ==
    addrs \cup UNION {{First(Net(a)), First(Net(a)) + 3} :
        a \in {x \in addrs : \E y \in addrs \ {x} : Net(y) = Net(x)}}

(* The powers of two: all their divisors but 1 are even. *)
Sizes == {s \in 1..(4 * MaxLinks) : \A p \in 2..s : s % p = 0 => p % 2 = 0}

(* ipaddress.collapse_addresses: the aligned blocks that are in no other one. *)
Blocks(addrs) ==
    {b \in [net : addrs, size : Sizes] :
        b.net % b.size = 0 /\ b.net..(b.net + b.size - 1) \subseteq addrs}
Collapsed(addrs) ==
    LET blocks == Blocks(addrs) IN
    {b \in blocks : \A c \in blocks :
        c.net <= b.net /\ b.net + b.size <= c.net + c.size => c = b}

(* static_routes_compressed *)
Compressed(h) ==
    UNION {{Route(h, b.net, b.size, l) : b \in Collapsed(Filled(Routed(h, l)))} : l \in LinksOf(h)}

(* The links of the hosts found so far, and the hosts at their ends. *)
LinksAt(found) == UNION {LinksOf(x) : x \in found}
Neighbors(found) == UNION {EndHosts(i) : i \in LinksAt(found)}

(* Mutant: the host itself is not marked as visited. *)
Beyond_ThroughHost(h, l) ==
    LET search[k \in 0..Cardinality(Hosts)] ==
            IF k = 0 THEN {Peer(l, h)}
            ELSE search[k - 1] \cup Neighbors(search[k - 1])
    IN  LinksAt(search[Cardinality(Hosts)]) \ {l}

(* visit_neighbors: the networks of the hosts beyond link l of h, which are   *)
(* those that a search from its other end finds without passing through h.    *)
Beyond(h, l) ==
    LET search[k \in 0..Cardinality(Hosts)] ==
            IF k = 0 THEN {Peer(l, h)}
            ELSE search[k - 1] \cup (Neighbors(search[k - 1]) \ {h})
    IN  LinksAt(search[Cardinality(Hosts)]) \ {l}

(* static_routes_tree_only *)
Tree(h) == UNION {{Route(h, First(i), 4, l) : i \in Beyond(h, l) \ LinksOf(h)} : l \in LinksOf(h)}

(* The kernel refuses a second route to a network: build-network fails. *)
Refused(table) == \E r, s \in table : r.at = s.at /\ r.net = s.net /\ r.link # s.link

(* Routes to the networks that h is on, which the kernel adds by itself. *)
Connected(h) == {Route(h, First(i), 4, i) : i \in LinksOf(h)}

(* The links by which h may send a packet for a: those of the longest prefix. *)
Lookup(table, h, a) ==
    LET match == {r \in table : r.at = h /\ a \in r.net..(r.net + r.size - 1)} IN
    {r.link : r \in {x \in match : \A y \in match : x.size <= y.size}}

--------------------------------------------------------------------------------
Built == DOMAIN via # {}

RoutesInit ==
    /\ links = <<>>
    /\ delay = [e \in {} |-> 0]
    /\ all_pairs = Dist
    /\ via = [h \in {} |-> h]

(* Topo.set_delay: an edge of the graph gets a weight, a new one or another. *)
Delay(e, w) == delay' = [x \in Edges \cup {e} |-> IF x = e THEN w ELSE delay[x]]

(* HostPool.connect, without a delay or with one: one more network; hosts     *)
(* that are connected already have one edge, whose delay stays if connect     *)
(* gives none.                                                                *)
NewLink(h, g) ==
    /\ ~Built
    /\ h # g
    /\ Len(links) < MaxLinks
    /\ links' = Append(links, <<h, g>>)
    /\ UNCHANGED <<all_pairs, via>>

ConnectPlain(h, g) ==
    /\ NewLink(h, g)
    /\ IF {h, g} \in Edges THEN delay' = delay ELSE Delay({h, g}, NoDelay)

Connect(h, g, d) ==
    /\ NewLink(h, g)
    /\ Delay({h, g}, Parsed(d))

SetDelay(h, g, d) ==
    /\ ~Built
    /\ {h, g} \in Edges
    /\ Delay({h, g}, Parsed(d))
    /\ UNCHANGED <<links, all_pairs, via>>

(* generate_routes: the tasks of the hosts read the same graph and each writes *)
(* the routes of its own host, one of those it may find; the next command     *)
(* waits for all of them.                                                     *)
GenerateRoutes ==
    /\ ~Built
    /\ all_pairs' = Dist
    /\ \E routes \in {[h \in Hosts |-> RoutesFrom(h, all_pairs')]} : via' \in Products(routes)
    /\ UNCHANGED <<links, delay>>

RoutesNext ==
    \/ \E h, g \in Hosts :
        \/ ConnectPlain(h, g)
        \/ \E d \in Delays : Connect(h, g, d) \/ SetDelay(h, g, d)
    \/ GenerateRoutes

RoutesSpec == RoutesInit /\ [][RoutesNext]_routesVars

--------------------------------------------------------------------------------
(* Properties *)

RoutesTypeOK ==
    /\ links \in Seq(Hosts \X Hosts) /\ Len(links) <= MaxLinks
    /\ Edges = {EndHosts(i) : i \in LinkIds}
    /\ \A e \in Edges : delay[e] \in Weights
    /\ all_pairs \in [Hosts -> [Hosts -> 0..Infinity]]
    /\ DOMAIN via \in {{}, Hosts}
    /\ \A h \in DOMAIN via : \A d \in DOMAIN via[h] : d # h /\ {h, via[h][d]} \in Edges

(* The weight of what a packet for address a still passes from each host, if  *)
(* from the next one it is rest: Infinity when a host has no route for a, or  *)
(* several.                                                                   *)
Onwards(table, a, rest) ==
    [y \in Hosts |->
        IF a \in AddrsOf(y) THEN 0
        ELSE LET out == Lookup(table, y, a) IN
             IF Cardinality(out) # 1 THEN Infinity
             ELSE LET next == Peer(CHOOSE i \in out : TRUE, y) IN Weight(y, next) + rest[next]]

(* The weight of what a packet for address a passes from x, with the routes   *)
(* in table; Infinity also when it goes round.                                *)
Travel(table, x, a) ==
    LET hops == Cardinality(Hosts)
        T[k \in 0..hops] ==
            IF k = 0 THEN [y \in Hosts |-> IF a \in AddrsOf(y) THEN 0 ELSE Infinity]
            ELSE Onwards(table, a, T[k - 1])
    IN  T[hops][x]

(* No edge weighs nothing: with such edges two hosts may each take the other  *)
(* for the next one on a shortest path.                                       *)
Weighed == \A e \in Edges : delay[e] # 0

(* shortest_path: a packet to any address of any host arrives, from every     *)
(* host that is connected with it, over edges that weigh no more than those   *)
(* of any other way, whichever shortest paths the hosts on the way have found *)
(* and whatever set-delay did before.  Weights are the numbers of the delays, *)
(* without their units.                                                       *)
Delivered ==
    Built /\ Weighed =>
        LET table == UNION {Connected(h) \cup Plain(h) : h \in Hosts} IN
        \A h \in Hosts : \A d \in Reached(h, all_pairs) : \A a \in AddrsOf(d) :
            Travel(table, h, a) = all_pairs[h][d]

(* shortest_path_compressed sends every packet the way shortest_path would.   *)
CompressedSame ==
    Built => \A h \in Hosts :
        LET plain == Connected(h) \cup Plain(h)
            compressed == Connected(h) \cup Compressed(h)
        IN  \A d \in DOMAIN via[h] : \A a \in AddrsOf(d) :
                Lookup(compressed, h, a) = Lookup(plain, h, a)

(* tree_subnets: no route is refused if no two hosts are connected in two     *)
(* ways; and whenever none is refused a packet to any address of any host     *)
(* arrives, along a shortest path, from every host connected with it.         *)
TreeDelivered ==
    Built =>
        LET trees == UNION {Tree(h) : h \in Hosts}
            table == trees \cup UNION {Connected(h) : h \in Hosts}
            parts == {{h} \cup Reached(h, all_pairs) : h \in Hosts}
            forest == Len(links) + Cardinality(parts) = Cardinality(Hosts)
        IN  IF Refused(trees) THEN ~ forest
            ELSE Weighed =>
                     \A h \in Hosts : \A d \in Reached(h, all_pairs) : \A a \in AddrsOf(d) :
                         Travel(table, h, a) = all_pairs[h][d]
================================================================================
