---------------------------------- MODULE Cores ----------------------------------
(* Cores of one real host for the cgroups of its virtual hosts: workers share *)
(* a generator that goes round the NUMA nodes and takes the next core of each *)
(* node from a generator of that node.  A Python generator refuses to be      *)
(* entered twice at a time.  Without exclusive cores a spent generator is     *)
(* built anew, step by step and without a lock.                               *)
EXTENDS Naturals, FiniteSets

CONSTANTS
    Hosts,          \* virtual hosts that ask for a core, one call each
    Nodes,          \* number of NUMA nodes
    MaxPerNode,     \* largest number of cores of a node
    MaxWorkers,     \* largest max_parallel_workers
    Boot,           \* names what RealHostTopo.__init__ built
    Nobody

ASSUME CoresAssumption ==
    /\ IsFiniteSet(Hosts)
    /\ Nodes \in Nat \ {0} /\ MaxPerNode \in Nat \ {0} /\ MaxWorkers \in Nat \ {0}
    /\ Boot \notin Hosts /\ Nobody \notin Hosts /\ Boot # Nobody

(* A generator is named after the call of reset_iter that built it. *)
Makers == Hosts \cup {Boot}
Node == 0..(Nodes - 1)
NoCore == <<Nodes, 0>>

VARIABLES
    size,           \* what lscpu prints: the number of cores of each node
    cpu_exclusive,  \* the option, given to the real host when it is created
    workers,        \* max_parallel_workers
    generator,      \* core_generator: the maker of the one that is installed
    range,          \* numa_nodes: the maker of the CoreRange of each node
    entered,        \* entered[m]: the thread inside the outer generator of m
    spent,          \* the makers whose outer generator has ended
    num,            \* num[m]: cores that the outer generator of m has asked for
    inside,         \* inside[m][n]: the thread inside the generator of a node
    taken,          \* taken[m][n]: cores that it has yielded
    pc, own,        \* where each call is, and the outer generator it entered
    again,          \* the call has reset the topology
    step,           \* the node whose CoreRange a reset replaces next
    core            \* the core that a call returned

generators == <<generator, range, entered, spent, num, inside, taken>>
options == <<size, cpu_exclusive, workers>>
vars == <<options, generators, pc, own, again, step, core>>

Idle == {"idle", "core", "exhausted", "error"}
Calling == {h \in Hosts : pc[h] \notin Idle}

Init ==
    /\ size \in [Node -> 1..MaxPerNode]
    /\ cpu_exclusive \in BOOLEAN
    /\ workers \in 1..MaxWorkers
    /\ generator = Boot
    /\ range = [n \in Node |-> Boot]
    /\ entered = [m \in Makers |-> Nobody]
    /\ spent = {}
    /\ num = [m \in Makers |-> 0]
    /\ inside = [m \in Makers |-> [n \in Node |-> Nobody]]
    /\ taken = [m \in Makers |-> [n \in Node |-> 0]]
    /\ pc = [h \in Hosts |-> "idle"]
    /\ own = [h \in Hosts |-> Boot]
    /\ again = [h \in Hosts |-> FALSE]
    /\ step = [h \in Hosts |-> 0]
    /\ core = [h \in Hosts |-> NoCore]

Goto(h, where) == pc' = [pc EXCEPT ![h] = where]

--------------------------------------------------------------------------------
(* RealHost.get_unused_core *)

Call(h) ==
    /\ pc[h] = "idle"
    /\ Cardinality(Calling) < workers
    /\ Goto(h, "next")
    /\ UNCHANGED <<options, generators, own, again, step, core>>

(* Mutant: exclusive cores are handed out again. *)
StopIteration_AlwaysResets(h) == IF ~again[h] THEN "reset" ELSE "exhausted"

(* Where a call goes with a StopIteration: a second one is not caught. *)
StopIteration(h) == IF ~cpu_exclusive /\ ~again[h] THEN "reset" ELSE "exhausted"

(* next(core_generator) *)
Enter(h) ==
    LET m == generator IN
    /\ pc[h] = "next"
    /\ own' = [own EXCEPT ![h] = m]
    /\ \/ /\ m \in spent
          /\ Goto(h, StopIteration(h))
          /\ UNCHANGED entered
       \/ /\ m \notin spent /\ entered[m] # Nobody
          /\ Goto(h, "error")
          /\ UNCHANGED entered
       \/ /\ m \notin spent /\ entered[m] = Nobody
          /\ entered' = [entered EXCEPT ![m] = h]
          /\ Goto(h, "outer")
    /\ UNCHANGED <<options, generator, range, spent, num, inside, taken,
                   again, step, core>>

(* An exception that leaves the outer generator ends it. *)
LeaveWith(h, where) ==
    /\ entered' = [entered EXCEPT ![own[h]] = Nobody]
    /\ spent' = spent \cup {own[h]}
    /\ Goto(h, where)

(* Mutant: the loop ends one core early. *)
Cpus_OneLess == Cardinality({c \in Node \X (0..(MaxPerNode - 1)) : c[2] < size[c[1]]}) - 1

(* The cores of the on-line list, one turn of the loop each. *)
Cpus == Cardinality({c \in Node \X (0..(MaxPerNode - 1)) : c[2] < size[c[1]]})

NodeOf(m) == num[m] % Nodes

(* The generator of a node goes through the ranges of its CPU list. *)
Left(r, n) == taken[r][n] < size[n]

(* One turn of the loop of the outer generator: next() on the generator of    *)
(* the node whose CoreRange is installed now.  What that one raises leaves    *)
(* the outer generator as a RuntimeError or a ValueError.                     *)
Outer(h) ==
    LET m == own[h] n == NodeOf(m) r == range[n] IN
    /\ pc[h] = "outer"
    /\ \/ /\ num[m] = Cpus
          /\ LeaveWith(h, StopIteration(h))
          /\ UNCHANGED <<inside, own>>
       \/ /\ num[m] < Cpus
          /\ inside[r][n] # Nobody \/ ~Left(r, n)
          /\ LeaveWith(h, "error")
          /\ UNCHANGED <<inside, own>>
       \/ /\ num[m] < Cpus
          /\ inside[r][n] = Nobody /\ Left(r, n)
          /\ inside' = [inside EXCEPT ![r][n] = h]
          /\ Goto(h, "inner")
          /\ UNCHANGED <<entered, spent, own>>
    /\ UNCHANGED <<options, generator, range, num, taken, again, step, core>>

(* The generator of the node yields to the outer one. *)
Inner(h) ==
    /\ pc[h] = "inner"
    /\ \E r \in Makers, n \in Node :
        /\ inside[r][n] = h
        /\ inside' = [inside EXCEPT ![r][n] = Nobody]
        /\ taken' = [taken EXCEPT ![r][n] = @ + 1]
        /\ core' = [core EXCEPT ![h] = <<n, taken[r][n]>>]
    /\ Goto(h, "yield")
    /\ UNCHANGED <<options, generator, range, entered, spent, num, own, again, step>>

(* The outer generator yields to the call. *)
Yield(h) ==
    /\ pc[h] = "yield"
    /\ entered' = [entered EXCEPT ![own[h]] = Nobody]
    /\ num' = [num EXCEPT ![own[h]] = @ + 1]
    /\ Goto(h, "core")
    /\ UNCHANGED <<options, generator, range, spent, inside, taken, own,
                   again, step, core>>

(* reset_iter: lscpu is parsed again, then a generator is made. *)
ResetNode(h) ==
    /\ pc[h] = "reset"
    /\ step[h] < Nodes
    /\ range' = [range EXCEPT ![step[h]] = h]
    /\ step' = [step EXCEPT ![h] = @ + 1]
    /\ UNCHANGED <<options, generator, entered, spent, num, inside, taken,
                   pc, own, again, core>>

(* Mutant: the topology is parsed again, the spent generator stays. *)
ResetGenerator_Kept(h) ==
    /\ pc[h] = "reset"
    /\ step[h] = Nodes
    /\ again' = [again EXCEPT ![h] = TRUE]
    /\ Goto(h, "next")
    /\ UNCHANGED <<options, generators, own, step, core>>

ResetGenerator(h) ==
    /\ pc[h] = "reset"
    /\ step[h] = Nodes
    /\ generator' = h
    /\ again' = [again EXCEPT ![h] = TRUE]
    /\ Goto(h, "next")
    /\ UNCHANGED <<options, range, entered, spent, num, inside, taken,
                   own, step, core>>

Terminated == (\A h \in Hosts : pc[h] \in Idle \ {"idle"}) /\ UNCHANGED vars

Next ==
    \/ \E h \in Hosts :
        \/ Call(h) \/ Enter(h) \/ Outer(h) \/ Inner(h) \/ Yield(h)
        \/ ResetNode(h) \/ ResetGenerator(h)
    \/ Terminated

Spec == Init /\ [][Next]_vars

--------------------------------------------------------------------------------
(* Properties *)

TypeOK ==
    /\ size \in [Node -> 1..MaxPerNode]
    /\ cpu_exclusive \in BOOLEAN /\ workers \in 1..MaxWorkers
    /\ generator \in Makers
    /\ range \in [Node -> Makers]
    /\ entered \in [Makers -> Hosts \cup {Nobody}]
    /\ spent \subseteq Makers
    /\ num \in [Makers -> 0..Cpus]
    /\ inside \in [Makers -> [Node -> Hosts \cup {Nobody}]]
    /\ taken \in [Makers -> [Node -> 0..MaxPerNode]]
    /\ \A m \in Makers, n \in Node : taken[m][n] <= size[n]
    /\ pc \in [Hosts -> Idle \cup {"next", "outer", "inner", "yield", "reset"}]
    /\ own \in [Hosts -> Makers]
    /\ again \in [Hosts -> BOOLEAN]
    /\ step \in [Hosts -> 0..Nodes]
    /\ core \in [Hosts -> (Node \X (0..(MaxPerNode - 1))) \cup {NoCore}]

Given == {h \in Hosts : core[h] # NoCore}

(* Two virtual hosts never get the same exclusive core, whichever workers ask *)
(* at the same time.                                                          *)
CoresExclusive ==
    cpu_exclusive => \A h1, h2 \in Given : core[h1] = core[h2] => h1 = h2

Balanced == \A n1, n2 \in Node : size[n1] = size[n2]

(* When the nodes have equally many cores, a host is refused for want of      *)
(* cores only when every core is in use: a call that fails half way through   *)
(* the generators loses no core.                                              *)
NoCoreWasted ==
    cpu_exclusive /\ Balanced =>
        \A h \in Hosts : pc[h] = "exhausted" =>
            \A n \in Node :
                Cardinality({core[g][2] : g \in {x \in Given : core[x][1] = n}}) = size[n]

(* With one worker and equal nodes a host that needs no exclusive core is     *)
(* always created, however many hosts there are for a core.                   *)
SharedAlwaysServed ==
    ~cpu_exclusive /\ workers = 1 /\ Balanced =>
        \A h \in Hosts : pc[h] \notin {"exhausted", "error"}
================================================================================
