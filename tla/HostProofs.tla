-------------------------------- MODULE HostProofs --------------------------------
(* One virtual host: the cores that get_unused_core hands out, and the life    *)
(* of the host on its real host.  For any number of hosts, nodes, cores and    *)
(* workers, any values of a sysctl variable and any number of calls.           *)
EXTENDS Cores, HostLife, SequenceTheorems, FiniteSetTheorems, TLAPS

(* Cores.  Types, exclusive cores that are never handed out twice and, with    *)
(* equal nodes, none that is lost; with one worker shared cores for every host.*)

(* Division and remainder of the next turn. *)
LEMMA NextTurn ==
    ASSUME NEW N \in Nat \ {0}, NEW k \in Nat
    PROVE  /\ k % N \in 0..(N - 1)
           /\ k \div N \in Nat
           /\ k % N = N - 1 => (k + 1) % N = 0 /\ (k + 1) \div N = (k \div N) + 1
           /\ k % N # N - 1 => (k + 1) % N = (k % N) + 1 /\ (k + 1) \div N = k \div N
<1> DEFINE q == k \div N
           r == k % N
<1>1. k = N * q + r /\ r \in 0..(N - 1) /\ q \in Int
  OBVIOUS
<1>2. q \in Nat
  BY <1>1
<1>3. /\ k + 1 = N * ((k + 1) \div N) + ((k + 1) % N)
      /\ (k + 1) % N \in 0..(N - 1)
      /\ (k + 1) \div N \in Int
  OBVIOUS
<1> QED
  BY <1>1, <1>2, <1>3

(* Division of a multiple and of what is below it. *)
LEMMA Multiple ==
    ASSUME NEW N \in Nat \ {0}, NEW z \in Nat
    PROVE  /\ (N * z) % N = 0
           /\ (N * z) \div N = z
           /\ \A k \in Nat : k < N * z => k \div N < z
  OBVIOUS


(* The number of cores is one. *)
LEMMA CpusType == Cpus \in Nat
<1> DEFINE S == {c \in Node \X (0..(MaxPerNode - 1)) : c[2] < size[c[1]]}
<1>1. IsFiniteSet(Node) /\ IsFiniteSet(0..(MaxPerNode - 1))
  BY CoresAssumption, FS_Interval DEF Node
<1>2. IsFiniteSet(Node \X (0..(MaxPerNode - 1)))
  BY <1>1, FS_Product
<1>3. IsFiniteSet(S)
  BY <1>2, FS_Subset
<1> QED
  BY <1>3, FS_CardinalityType DEF Cpus

(* With equally many cores on each node, a product. *)
LEMMA CpusBalanced ==
    ASSUME size \in [Node -> 1..MaxPerNode], Balanced
    PROVE  Cpus = Nodes * size[0] /\ Cpus > 0
<1> DEFINE S == {c \in Node \X (0..(MaxPerNode - 1)) : c[2] < size[c[1]]}
<1>1. PICK z \in 1..MaxPerNode : z = size[0]
  BY CoresAssumption DEF Node
<1>2. \A n \in Node : size[n] = z
  BY <1>1, CoresAssumption DEF Balanced, Node
<1>3. S = Node \X (0..(z - 1))
  BY <1>2, CoresAssumption DEF Node
<1>4. IsFiniteSet(Node) /\ Cardinality(Node) = Nodes
  <2>1. 0 \in Int /\ Nodes - 1 \in Int /\ ~(0 > Nodes - 1) /\ Nodes - 1 - 0 + 1 = Nodes
    BY CoresAssumption
  <2> QED
    BY <2>1, FS_Interval DEF Node
<1>5. IsFiniteSet(0..(z - 1)) /\ Cardinality(0..(z - 1)) = z
  <2>1. 0 \in Int /\ z - 1 \in Int /\ ~(0 > z - 1) /\ z - 1 - 0 + 1 = z
    BY CoresAssumption
  <2> QED
    BY <2>1, FS_Interval
<1>6. Cardinality(S) = Nodes * z
  BY <1>3, <1>4, <1>5, FS_Product
<1>7. Nodes * z > 0
  BY CoresAssumption
<1> QED
  BY <1>1, <1>6, <1>7 DEF Cpus

--------------------------------------------------------------------------------
(* Types, and who is inside which generator *)

Busy == {"outer", "inner", "yield"}

(* A thread that works for a call holds the outer generator, and only such a  *)
(* thread does.                                                               *)
Holder == \A h \in Hosts : pc[h] \in Busy => entered[own[h]] = h

Held == \A m \in Makers : entered[m] # Nobody => pc[entered[m]] \in Busy /\ own[entered[m]] = m

(* The turn of the loop is not the last one. *)
Turn == \A h \in Hosts : pc[h] \in {"inner", "yield"} => num[own[h]] < Cpus

(* A thread is inside one generator of a node, which has a core left for it.  *)
Within ==
    \A m \in Makers, n \in Node :
        inside[m][n] # Nobody => pc[inside[m][n]] = "inner" /\ taken[m][n] < size[n]

Once ==
    \A m1, m2 \in Makers, n1, n2 \in Node :
        inside[m1][n1] # Nobody /\ inside[m1][n1] = inside[m2][n2] => m1 = m2 /\ n1 = n2

(* A call resets the topology once, from its first node on. *)
Retry ==
    \A h \in Hosts :
        /\ pc[h] = "idle" => ~again[h]
        /\ pc[h] = "reset" => ~again[h] /\ ~cpu_exclusive
        /\ pc[h] # "reset" /\ ~again[h] => step[h] = 0

Shape == TypeOK /\ Holder /\ Held /\ Turn /\ Within /\ Once /\ Retry

LEMMA InitShape == Init => Shape
<1> SUFFICES ASSUME Init PROVE Shape
  OBVIOUS
<1>1. Boot \in Makers /\ 0 \in 0..Cpus /\ 0 \in 0..MaxPerNode /\ 0 \in 0..Nodes
  BY CpusType, CoresAssumption DEF Makers
<1>2. TypeOK
  BY <1>1, CoresAssumption DEF Init, TypeOK, Idle
<1>3. Holder /\ Held /\ Turn /\ Within /\ Once /\ Retry
  BY DEF Init, Holder, Held, Turn, Within, Once, Retry, Busy
<1> QED
  BY <1>2, <1>3 DEF Shape

(* lscpu prints the same in every step. *)
LEMMA SameCpus == ASSUME UNCHANGED options PROVE Cpus' = Cpus
  BY DEF Cpus, options

LEMMA CallShape == ASSUME Shape, NEW h \in Hosts, Call(h) PROVE Shape'
<1>1. TypeOK'
  BY SameCpus DEF Shape, TypeOK, Call, Goto, options, generators, Idle
<1>2. (Holder /\ Held /\ Turn /\ Within /\ Once /\ Retry)'
  BY SameCpus
     DEF Shape, TypeOK, Call, Goto, options, generators, Holder, Held, Turn, Within, Once, Retry, Busy
<1> QED
  BY <1>1, <1>2 DEF Shape

(* Where a StopIteration leads. *)
LEMMA StopIterationType ==
    ASSUME Shape, NEW h \in Hosts, pc[h] # "reset"
    PROVE  /\ StopIteration(h) \in {"reset", "exhausted"}
           /\ StopIteration(h) = "reset" => ~again[h] /\ ~cpu_exclusive
  BY DEF StopIteration

LEMMA EnterShape == ASSUME Shape, NEW h \in Hosts, Enter(h) PROVE Shape'
<1> DEFINE m == generator
<1>0. /\ pc[h] = "next" /\ own' = [own EXCEPT ![h] = m]
      /\ UNCHANGED <<options, generator, range, spent, num, inside, taken, again, step, core>>
      /\ m \in Makers
  BY DEF Enter, Shape, TypeOK
<1>1. ASSUME NEW where \in {"reset", "exhausted", "error"}, Goto(h, where), entered' = entered,
             where = "reset" => ~again[h] /\ ~cpu_exclusive
      PROVE  Shape'
  <2>1. TypeOK'
    BY <1>0, <1>1, SameCpus DEF Shape, TypeOK, Goto, options, generators, Idle
  <2>2. \A g \in Hosts : /\ pc'[g] = IF g = h THEN where ELSE pc[g]
                         /\ own'[g] = IF g = h THEN m ELSE own[g]
    BY <1>0, <1>1 DEF Shape, TypeOK, Goto
  <2>3. (Holder /\ Held /\ Turn)'
    BY <1>0, <1>1, <2>2, SameCpus DEF Shape, TypeOK, Holder, Held, Turn, Busy
  <2>4. (Within /\ Once /\ Retry)'
    BY <1>0, <1>1, <2>2 DEF Shape, TypeOK, Within, Once, Retry, options
  <2> QED
    BY <2>1, <2>3, <2>4 DEF Shape
<1>2. ASSUME Goto(h, "outer"), entered[m] = Nobody, entered' = [entered EXCEPT ![m] = h]
      PROVE  Shape'
  <2>1. TypeOK'
    BY <1>0, <1>2, SameCpus DEF Shape, TypeOK, Goto, options, generators, Idle
  <2>2. /\ \A g \in Hosts : /\ pc'[g] = IF g = h THEN "outer" ELSE pc[g]
                            /\ own'[g] = IF g = h THEN m ELSE own[g]
        /\ \A k \in Makers : entered'[k] = IF k = m THEN h ELSE entered[k]
    BY <1>0, <1>2 DEF Shape, TypeOK, Goto
  <2>3. (Holder /\ Held /\ Turn)'
    BY <1>0, <1>2, <2>2, SameCpus, CoresAssumption DEF Shape, TypeOK, Holder, Held, Turn, Busy
  <2>4. (Within /\ Once /\ Retry)'
    BY <1>0, <1>2, <2>2 DEF Shape, TypeOK, Within, Once, Retry, options
  <2> QED
    BY <2>1, <2>3, <2>4 DEF Shape
<1> QED
  BY <1>0, <1>1, <1>2, StopIterationType DEF Enter

(* The outer generator ends for the call that is in it. *)
LEMMA LeaveShape ==
    ASSUME Shape, NEW h \in Hosts, pc[h] = "outer",
           NEW where \in {"reset", "exhausted", "error"}, LeaveWith(h, where),
           where = "reset" => ~again[h] /\ ~cpu_exclusive,
           UNCHANGED <<options, generator, range, num, inside, taken, own, again, step, core>>
    PROVE  Shape'
<1>1. TypeOK'
  BY SameCpus DEF LeaveWith, Shape, TypeOK, Goto, options, Idle
<1>2. /\ \A g \in Hosts : pc'[g] = IF g = h THEN where ELSE pc[g]
      /\ \A k \in Makers : entered'[k] = IF k = own[h] THEN Nobody ELSE entered[k]
      /\ own[h] \in Makers
  BY DEF LeaveWith, Shape, TypeOK, Goto
<1>3. (Holder /\ Held /\ Turn)'
  <2>1. Holder'
    BY <1>2 DEF Shape, TypeOK, Holder, Held, Busy
  <2>2. Held'
    <3> SUFFICES ASSUME NEW k \in Makers, entered'[k] # Nobody
                 PROVE  pc'[entered'[k]] \in Busy /\ own'[entered'[k]] = k
      BY DEF Held
    <3>1. k # own[h] /\ entered'[k] = entered[k]
      BY <1>2
    <3>2. entered[k] \in Hosts /\ pc[entered[k]] \in Busy /\ own[entered[k]] = k
      BY <3>1 DEF Shape, TypeOK, Held
    <3> QED
      BY <1>2, <3>1, <3>2
  <2>3. Turn'
    BY <1>2, SameCpus DEF Shape, Turn
  <2> QED
    BY <2>1, <2>2, <2>3
<1>4. (Within /\ Once /\ Retry)'
  BY <1>2 DEF Shape, TypeOK, Within, Once, Retry, options
<1> QED
  BY <1>1, <1>3, <1>4 DEF Shape

LEMMA OuterShape == ASSUME Shape, NEW h \in Hosts, Outer(h) PROVE Shape'
<1> DEFINE m == own[h]
           n == NodeOf(m)
           r == range[n]
<1>1. /\ pc[h] = "outer"
      /\ UNCHANGED <<options, generator, range, num, taken, again, step, core>>
  BY DEF Outer
<1>2. CASE LeaveWith(h, StopIteration(h)) /\ UNCHANGED <<inside, own>>
  BY <1>1, <1>2, LeaveShape, StopIterationType
<1>3. CASE LeaveWith(h, "error") /\ UNCHANGED <<inside, own>>
  BY <1>1, <1>3, LeaveShape
<1>4. CASE /\ num[m] < Cpus
           /\ inside[r][n] = Nobody /\ Left(r, n)
           /\ inside' = [inside EXCEPT ![r][n] = h]
           /\ Goto(h, "inner")
           /\ UNCHANGED <<entered, spent, own>>
  <2>0. m \in Makers /\ n \in Node /\ r \in Makers
    <3>1. m \in Makers /\ num[m] \in Nat
      BY CpusType DEF Shape, TypeOK
    <3>2. n \in Node
      BY <3>1, CoresAssumption DEF NodeOf, Node
    <3> QED
      BY <3>1, <3>2 DEF Shape, TypeOK
  <2>1. TypeOK'
    BY <1>1, <1>4, <2>0, SameCpus DEF Shape, TypeOK, Goto, options, Idle
  <2>2. /\ \A g \in Hosts : pc'[g] = IF g = h THEN "inner" ELSE pc[g]
        /\ \A k \in Makers, l \in Node :
              inside'[k][l] = IF k = r /\ l = n THEN h ELSE inside[k][l]
    BY <1>4, <2>0 DEF Shape, TypeOK, Goto
  <2>3. (Holder /\ Held /\ Turn)'
    BY <1>1, <1>4, <2>2, SameCpus DEF Shape, TypeOK, Holder, Held, Turn, Busy
  <2>4. Within'
    BY <1>1, <1>4, <2>2 DEF Shape, TypeOK, Within, options, Left
  <2>5. Once'
    BY <1>1, <2>2 DEF Shape, Once, Within
  <2>6. Retry'
    BY <1>1, <2>2 DEF Shape, Retry, options
  <2> QED
    BY <2>1, <2>3, <2>4, <2>5, <2>6 DEF Shape
<1> HIDE DEF m, n, r
<1> QED
  BY <1>2, <1>3, <1>4 DEF Outer, m, n, r

LEMMA InnerShape == ASSUME Shape, NEW h \in Hosts, Inner(h) PROVE Shape'
<1>1. PICK r \in Makers, n \in Node :
        /\ inside[r][n] = h
        /\ inside' = [inside EXCEPT ![r][n] = Nobody]
        /\ taken' = [taken EXCEPT ![r][n] = @ + 1]
        /\ core' = [core EXCEPT ![h] = <<n, taken[r][n]>>]
  BY DEF Inner
<1>2. /\ pc[h] = "inner" /\ pc' = [pc EXCEPT ![h] = "yield"]
      /\ UNCHANGED <<options, generator, range, entered, spent, num, own, again, step>>
  BY DEF Inner, Goto
<1>3. taken[r][n] \in Nat /\ taken[r][n] < size[n] /\ size[n] \in 1..MaxPerNode
  BY <1>1, CoresAssumption DEF Shape, Within, TypeOK
<1>4. /\ \A g \in Hosts : pc'[g] = IF g = h THEN "yield" ELSE pc[g]
      /\ \A k \in Makers, l \in Node :
            /\ inside'[k][l] = IF k = r /\ l = n THEN Nobody ELSE inside[k][l]
            /\ taken'[k][l] = IF k = r /\ l = n THEN taken[r][n] + 1 ELSE taken[k][l]
  BY <1>1, <1>2 DEF Shape, TypeOK
<1>5. TypeOK'
  <2>1. taken' \in [Makers -> [Node -> 0..MaxPerNode]]
    BY <1>1, <1>3, CoresAssumption DEF Shape, TypeOK
  <2>2. \A k \in Makers, l \in Node : taken'[k][l] <= size'[l]
    <3>1. size' = size /\ taken[r][n] + 1 <= size[n]
      BY <1>2, <1>3 DEF options
    <3>2. \A k \in Makers, l \in Node : taken[k][l] <= size[l]
      BY DEF Shape, TypeOK
    <3> QED
      BY <1>4, <3>1, <3>2
  <2>3. <<n, taken[r][n]>> \in Node \X (0..(MaxPerNode - 1))
    BY <1>3, CoresAssumption
  <2>4. core' \in [Hosts -> (Node \X (0..(MaxPerNode - 1))) \cup {NoCore}]
    BY <1>1, <2>3 DEF Shape, TypeOK
  <2>5. inside' \in [Makers -> [Node -> Hosts \cup {Nobody}]]
    BY <1>1 DEF Shape, TypeOK
  <2> QED
    BY <1>2, <2>1, <2>2, <2>4, <2>5, SameCpus DEF Shape, TypeOK, options, Idle
<1>6. (Holder /\ Held /\ Turn /\ Retry)'
  BY <1>2, <1>4, SameCpus DEF Shape, TypeOK, Holder, Held, Turn, Retry, Busy, options
<1>7. \A k \in Makers, l \in Node : inside'[k][l] # h
  BY <1>1, <1>4, CoresAssumption DEF Shape, Once
<1>8. (Within /\ Once)'
  BY <1>2, <1>4, <1>7 DEF Shape, TypeOK, Within, Once, options
<1> QED
  BY <1>5, <1>6, <1>8 DEF Shape

LEMMA YieldShape == ASSUME Shape, NEW h \in Hosts, Yield(h) PROVE Shape'
<1> DEFINE m == own[h]
<1>1. /\ pc[h] = "yield" /\ pc' = [pc EXCEPT ![h] = "core"]
      /\ entered' = [entered EXCEPT ![m] = Nobody]
      /\ num' = [num EXCEPT ![m] = @ + 1]
      /\ UNCHANGED <<options, generator, range, spent, inside, taken, own, again, step, core>>
  BY DEF Yield, Goto
<1>2. m \in Makers /\ num[m] \in Nat /\ num[m] < Cpus /\ Cpus \in Nat
  BY <1>1, CpusType DEF Shape, TypeOK, Turn
<1>3. TypeOK'
  BY <1>1, <1>2, SameCpus DEF Shape, TypeOK, options, Idle
<1>4. /\ \A g \in Hosts : pc'[g] = IF g = h THEN "core" ELSE pc[g]
      /\ \A k \in Makers : /\ entered'[k] = IF k = m THEN Nobody ELSE entered[k]
                           /\ num'[k] = IF k = m THEN num[k] + 1 ELSE num[k]
  BY <1>1, <1>2 DEF Shape, TypeOK
<1>5. (Holder /\ Held /\ Turn)'
  BY <1>1, <1>2, <1>4, SameCpus DEF Shape, TypeOK, Holder, Held, Turn, Busy
<1>6. (Within /\ Once /\ Retry)'
  BY <1>1, <1>4 DEF Shape, TypeOK, Within, Once, Retry, options
<1> QED
  BY <1>3, <1>5, <1>6 DEF Shape

LEMMA ResetShape == ASSUME Shape, NEW h \in Hosts, ResetNode(h) \/ ResetGenerator(h) PROVE Shape'
<1>1. CASE ResetNode(h)
  <2>1. TypeOK'
    <3>1. step[h] + 1 \in 0..Nodes /\ h \in Makers
      BY <1>1, CoresAssumption DEF ResetNode, Shape, TypeOK, Makers
    <3>2. range' \in [Node -> Makers] /\ step' \in [Hosts -> 0..Nodes]
      BY <1>1, <3>1 DEF ResetNode, Shape, TypeOK
    <3> QED
      BY <1>1, <3>2, SameCpus DEF ResetNode, Shape, TypeOK, options
  <2>2. (Holder /\ Held /\ Turn /\ Within /\ Once /\ Retry)'
    BY <1>1, SameCpus
       DEF ResetNode, Shape, TypeOK, options, Holder, Held, Turn, Within, Once, Retry, Busy
  <2> QED
    BY <2>1, <2>2 DEF Shape
<1>2. CASE ResetGenerator(h)
  <2>1. TypeOK'
    BY <1>2, SameCpus DEF ResetGenerator, Goto, Shape, TypeOK, options, Makers, Idle
  <2>2. (Holder /\ Held /\ Turn /\ Within /\ Once /\ Retry)'
    BY <1>2, SameCpus
       DEF ResetGenerator, Goto, Shape, TypeOK, options, Holder, Held, Turn, Within, Once, Retry, Busy
  <2> QED
    BY <2>1, <2>2 DEF Shape
<1> QED
  BY <1>1, <1>2

LEMMA NextShape == ASSUME Shape, [Next]_vars PROVE Shape'
<1>1. CASE UNCHANGED vars
  <2>1. TypeOK'
    BY <1>1, SameCpus DEF vars, generators, options, Shape, TypeOK
  <2>2. (Holder /\ Held /\ Turn /\ Within /\ Once /\ Retry)'
    BY <1>1, SameCpus DEF vars, generators, options, Shape, Holder, Held, Turn, Within, Once, Retry
  <2> QED
    BY <2>1, <2>2 DEF Shape
<1> QED
  BY <1>1, CallShape, EnterShape, OuterShape, InnerShape, YieldShape, ResetShape
     DEF Next, Terminated

(* Every variable keeps to its type, with any number of threads in the        *)
(* generators: no node yields more cores than it has and no outer generator   *)
(* takes more turns than there are cores.                                     *)
THEOREM TypeCorrect == Spec => []TypeOK
<1>1. Shape => TypeOK
  BY DEF Shape
<1> QED
  BY <1>1, InitShape, NextShape, PTL DEF Spec

--------------------------------------------------------------------------------
(* Exclusive cores, whatever the nodes are *)

(* The types that the argument needs. *)
Typed ==
    /\ cpu_exclusive \in BOOLEAN
    /\ generator \in Makers
    /\ range \in [Node -> Makers]
    /\ inside \in [Makers -> [Node -> Hosts \cup {Nobody}]]
    /\ taken \in [Makers -> [Node -> Nat]]
    /\ pc \in [Hosts -> Idle \cup {"next", "outer", "inner", "yield", "reset"}]
    /\ core \in [Hosts -> (Node \X Nat) \cup {NoCore}]

(* The topology stays the one that __init__ built: nobody resets it, and no   *)
(* other generator of a node is ever entered.                                 *)
OneTopology ==
    /\ \A h \in Hosts : pc[h] # "reset"
    /\ generator = Boot
    /\ \A n \in Node : range[n] = Boot
    /\ \A m \in Makers, n \in Node : inside[m][n] # Nobody => m = Boot

(* A core that was given is one that its node's generator has passed.         *)
Passed ==
    \A h \in Given : core[h][1] \in Node /\ core[h][2] < taken[Boot][core[h][1]]

Exclusive ==
    cpu_exclusive => OneTopology /\ Passed /\ CoresExclusive

IInv == Typed /\ Exclusive

LEMMA InitIInv == Init => IInv
<1> SUFFICES ASSUME Init PROVE IInv
  OBVIOUS
<1>1. Typed
  BY DEF Init, Typed, Makers, Idle
<1>2. Given = {}
  BY DEF Init, Given
<1>3. Exclusive
  BY <1>2 DEF Init, Exclusive, OneTopology, Passed, CoresExclusive
<1> QED
  BY <1>1, <1>3 DEF IInv

(* A step after which the same generators are installed, and no generator of  *)
(* a node has yielded.                                                        *)
LEMMA NoYieldIInv ==
    ASSUME IInv, NEW h \in Hosts, NEW where \in {"next", "outer", "error", "exhausted", "core"},
           Goto(h, where), UNCHANGED <<options, generator, range, inside, taken, core>>
    PROVE  IInv'
<1>1. Typed'
  BY DEF IInv, Typed, Goto, options, Idle
<1>2. Given' = Given
  BY DEF Given
<1>3. ASSUME cpu_exclusive
      PROVE  OneTopology' /\ Passed' /\ CoresExclusive'
  BY <1>2, <1>3 DEF IInv, Typed, Exclusive, OneTopology, Passed, CoresExclusive, Goto
<1>4. cpu_exclusive' = cpu_exclusive
  BY DEF options
<1> QED
  BY <1>1, <1>3, <1>4 DEF IInv, Exclusive

(* With exclusive cores a StopIteration ends the call. *)
LEMMA StopIterationEnds ==
    ASSUME NEW h \in Hosts
    PROVE  /\ StopIteration(h) \in {"reset", "exhausted"}
           /\ cpu_exclusive => StopIteration(h) = "exhausted"
  BY DEF StopIteration

(* A StopIteration, which may send the call to a reset of shared cores.       *)
LEMMA StopIterationIInv ==
    ASSUME IInv, NEW h \in Hosts, Goto(h, StopIteration(h)),
           UNCHANGED <<options, generator, range, inside, taken, core>>
    PROVE  IInv'
<1>1. CASE StopIteration(h) = "exhausted"
  BY <1>1, NoYieldIInv
<1>2. CASE StopIteration(h) = "reset"
  <2>1. ~cpu_exclusive
    BY <1>2, StopIterationEnds
  <2>2. Typed'
    BY <1>2 DEF IInv, Typed, Goto, options
  <2> QED
    BY <2>1, <2>2 DEF IInv, Exclusive, options
<1> QED
  BY <1>1, <1>2, StopIterationEnds

LEMMA OuterIInv ==
    ASSUME IInv, NEW h \in Hosts, Outer(h)
    PROVE  IInv'
<1> DEFINE n == NodeOf(own[h])
           r == range[n]
<1>1. UNCHANGED <<options, generator, range, taken, core>>
  BY DEF Outer
<1>2. CASE LeaveWith(h, StopIteration(h)) /\ inside' = inside
  BY <1>1, <1>2, StopIterationIInv DEF LeaveWith
<1>3. CASE LeaveWith(h, "error") /\ inside' = inside
  BY <1>1, <1>3, NoYieldIInv DEF LeaveWith
<1>4. CASE inside' = [inside EXCEPT ![r][n] = h] /\ Goto(h, "inner")
  <2>1. Typed'
    BY <1>1, <1>4 DEF IInv, Typed, Goto, options, Idle
  <2>2. Given' = Given
    BY <1>1 DEF Given
  <2>3. ASSUME cpu_exclusive
        PROVE  OneTopology' /\ Passed' /\ CoresExclusive'
    <3>1. Passed' /\ CoresExclusive'
      BY <1>1, <2>2, <2>3 DEF IInv, Exclusive, Passed, CoresExclusive
    <3>2. \A m \in Makers, k \in Node : inside'[m][k] # Nobody => m = Boot
      BY <1>4, <2>3 DEF IInv, Typed, Exclusive, OneTopology
    <3> QED
      BY <1>1, <1>4, <2>3, <3>1, <3>2 DEF IInv, Typed, Exclusive, OneTopology, Goto
  <2> QED
    BY <1>1, <2>1, <2>3 DEF IInv, Exclusive, options
<1> QED
  BY <1>2, <1>3, <1>4 DEF Outer

LEMMA InnerIInv ==
    ASSUME IInv, NEW h \in Hosts, Inner(h)
    PROVE  IInv'
<1>1. PICK r \in Makers, n \in Node :
        /\ inside[r][n] = h
        /\ inside' = [inside EXCEPT ![r][n] = Nobody]
        /\ taken' = [taken EXCEPT ![r][n] = @ + 1]
        /\ core' = [core EXCEPT ![h] = <<n, taken[r][n]>>]
  BY DEF Inner
<1>2. /\ UNCHANGED <<options, generator, range>>
      /\ pc' = [pc EXCEPT ![h] = "yield"]
  BY DEF Inner, Goto
<1>3. Typed'
  <2>1. taken[r][n] \in Nat /\ <<n, taken[r][n]>> \in Node \X Nat
    BY DEF IInv, Typed
  <2> QED
    BY <1>1, <1>2, <2>1 DEF IInv, Typed, options, Idle
<1>4. ASSUME cpu_exclusive
      PROVE  OneTopology' /\ Passed' /\ CoresExclusive'
  <2>1. r = Boot
    BY <1>1, <1>4, CoresAssumption DEF IInv, Exclusive, OneTopology
  <2>2. OneTopology'
    BY <1>1, <1>2, <1>4 DEF IInv, Typed, Exclusive, OneTopology
  <2>3. /\ \A g \in Hosts : core'[g] = IF g = h THEN <<n, taken[Boot][n]>> ELSE core[g]
        /\ \A k \in Node : taken[Boot][k] \in Nat /\ taken'[Boot][k] \in Nat
        /\ \A k \in Node : taken'[Boot][k] = IF k = n THEN taken[Boot][n] + 1 ELSE taken[Boot][k]
    BY <1>1, <1>3, <2>1 DEF IInv, Typed, Makers
  <2>4. \A g \in Given : core[g] \in Node \X Nat
    BY DEF IInv, Typed, Given
  <2>5. Given' \subseteq Given \cup {h}
    BY <2>3 DEF Given
  <2>6. \A g \in Given : core[g][1] \in Node /\ core[g][2] \in Nat
                         /\ core[g][2] < taken[Boot][core[g][1]]
    BY <1>4, <2>4 DEF IInv, Exclusive, Passed
  <2>7. \A g \in Given' \ {h} : g \in Given /\ core'[g] = core[g]
    BY <2>3, <2>5 DEF Given
  <2>8. core'[h][1] = n /\ core'[h][2] = taken[Boot][n]
    BY <2>3
  <2>9. Passed'
    <3>1. core'[h][1] \in Node /\ core'[h][2] < taken'[Boot][core'[h][1]]
      BY <2>3, <2>8
    <3>2. \A g \in Given' \ {h} : core'[g][1] \in Node /\ core'[g][2] < taken'[Boot][core'[g][1]]
      BY <2>3, <2>6, <2>7
    <3> QED
      BY <3>1, <3>2 DEF Passed
  <2>10. \A g \in Given' \ {h} : core'[g] # core'[h]
    BY <2>3, <2>6, <2>7, <2>8
  <2>11. CoresExclusive'
    BY <1>4, <2>7, <2>10 DEF IInv, Exclusive, CoresExclusive
  <2> QED
    BY <2>2, <2>9, <2>11
<1> QED
  BY <1>2, <1>3, <1>4 DEF IInv, Exclusive, options

(* A reset happens with shared cores only. *)
LEMMA ResetIInv ==
    ASSUME IInv, NEW h \in Hosts, ResetNode(h) \/ ResetGenerator(h)
    PROVE  IInv'
<1>1. ~cpu_exclusive /\ cpu_exclusive' = cpu_exclusive
  BY DEF ResetNode, ResetGenerator, IInv, Exclusive, OneTopology, options
<1>2. Typed'
  <2>1. CASE ResetNode(h)
    BY <2>1 DEF ResetNode, IInv, Typed, options, Makers
  <2>2. CASE ResetGenerator(h)
    BY <2>2 DEF ResetGenerator, Goto, IInv, Typed, options, Makers, Idle
  <2> QED
    BY <2>1, <2>2
<1> QED
  BY <1>1, <1>2 DEF IInv, Exclusive

LEMMA NextIInv ==
    ASSUME IInv, [Next]_vars
    PROVE  IInv'
<1>1. ASSUME NEW h \in Hosts, Call(h)
      PROVE  IInv'
  BY <1>1, NoYieldIInv DEF Call, generators
<1>2. ASSUME NEW h \in Hosts, Enter(h)
      PROVE  IInv'
  BY <1>2, NoYieldIInv, StopIterationIInv DEF Enter
<1>3. ASSUME NEW h \in Hosts, Yield(h)
      PROVE  IInv'
  BY <1>3, NoYieldIInv DEF Yield
<1>4. CASE UNCHANGED vars
  BY <1>4 DEF vars, generators, options, IInv, Typed, Exclusive, OneTopology, Passed,
     CoresExclusive, Given
<1> QED
  BY <1>1, <1>2, <1>3, <1>4, OuterIInv, InnerIInv, ResetIInv DEF Next, Terminated

(* Without resets one generator per node hands out cores in order, and each   *)
(* that was given lies behind it.                                             *)
THEOREM Inductive == Spec => []IInv
  BY InitIInv, NextIInv, PTL DEF Spec

(* get_unused_core gives an exclusive core to one virtual host only, whichever*)
(* workers race for the generators of RealHostTopo.                           *)
THEOREM ExclusiveCores == Spec => []CoresExclusive
<1>1. IInv => CoresExclusive
  BY DEF IInv, Exclusive, CoresExclusive
<1> QED
  BY <1>1, Inductive, PTL

--------------------------------------------------------------------------------
(* Equal nodes: rounds of the outer generator *)

(* Equal nodes, and either no reset or no two calls at a time. *)
Orderly == Balanced /\ (cpu_exclusive \/ workers = 1)

(* Only the installed generator is worked with. *)
Current == \A h \in Hosts : pc[h] \in Busy => own[h] = generator

(* A thread inside the generator of a node asks for the core of this turn.    *)
Asking == \A m \in Makers, n \in Node : inside[m][n] # Nobody => m = generator /\ n = NodeOf(m)

Asked == \A h \in Hosts : pc[h] = "inner" => inside[generator][NodeOf(generator)] = h

(* The CoreRange of every node comes from the same call of reset_iter as the  *)
(* generator, but for a reset that is under way.                              *)
Installed ==
    /\ (\A h \in Hosts : pc[h] # "reset") => \A n \in Node : range[n] = generator
    /\ \A h \in Hosts : pc[h] = "reset" => \A n \in Node : n < step[h] => range[n] = h

(* A generator ends after its last turn only. *)
Finished == generator \in spent => num[generator] = Cpus /\ entered[generator] = Nobody

(* What a call that has not reset will build is unused. *)
Fresh ==
    \A h \in Hosts : ~again[h] =>
        /\ h # generator /\ h \notin spent /\ entered[h] = Nobody /\ num[h] = 0
        /\ \A n \in Node : taken[h][n] = 0

Yielding == \E h \in Hosts : pc[h] = "yield"

(* The nodes have given one core a round, the first of them one more.         *)
RoundRobin ==
    \A n \in Node :
        taken[generator][n] =
            (num[generator] \div Nodes)
            + IF n < NodeOf(generator) \/ (n = NodeOf(generator) /\ Yielding) THEN 1 ELSE 0

(* Each core that a node's generator has passed was given to a host, and a    *)
(* host is refused only at the end of the generator.                          *)
Accounted ==
    /\ \A h \in Hosts : pc[h] = "exhausted" => generator \in spent
    /\ \A h \in Hosts : pc[h] \notin {"yield", "core"} => core[h] = NoCore
    /\ \A n \in Node, k \in Nat : k < taken[Boot][n] => \E g \in Hosts : core[g] = <<n, k>>

(* One call at a time, which gets a core after its reset at the latest.       *)
Alone ==
    /\ \A g, h \in Calling : g = h
    /\ \A h \in Hosts : pc[h] \notin {"exhausted", "error"}
    /\ \A h \in Hosts :
          pc[h] \in {"next", "outer"} /\ again[h] => num[generator] = 0 /\ generator \notin spent

Served ==
    /\ Current /\ Asking /\ Asked /\ Installed /\ Finished /\ Fresh /\ RoundRobin
    /\ cpu_exclusive => Accounted
    /\ ~cpu_exclusive => Alone

RoundInv == Shape /\ IInv /\ (Orderly => Served)

LEMMA InitServed == Init => Served
<1> SUFFICES ASSUME Init PROVE Served
  OBVIOUS
<1>1. Current /\ Asked /\ Installed /\ Finished /\ Asking
  BY CoresAssumption DEF Init, Current, Asked, Installed, Finished, Asking, Busy, Makers
<1>2. Fresh
  BY CoresAssumption DEF Init, Fresh, Makers
<1>3. RoundRobin
  <2>1. 0 % Nodes = 0 /\ 0 \div Nodes = 0
    BY CoresAssumption, NextTurn
  <2>2. \A n \in Node : n \in Nat
    BY CoresAssumption DEF Node
  <2>3. num[generator] = 0 /\ ~Yielding /\ \A n \in Node : taken[generator][n] = 0
    BY DEF Init, Yielding, Makers
  <2>4. NodeOf(generator) = 0
    BY <2>1, <2>3 DEF NodeOf
  <2> QED
    BY <2>1, <2>2, <2>3, <2>4 DEF RoundRobin
<1>4. Accounted
  BY DEF Init, Accounted, Makers
<1>5. Alone
  BY DEF Init, Alone, Calling, Idle
<1> QED
  BY <1>1, <1>2, <1>3, <1>4, <1>5 DEF Served

(* Types of what the argument counts with. *)
LEMMA Basics ==
    ASSUME Shape
    PROVE  /\ generator \in Makers /\ num[generator] \in Nat
           /\ NodeOf(generator) \in Node /\ Node \subseteq Nat
           /\ \A n \in Node : taken[generator][n] \in Nat
<1>1. generator \in Makers /\ num[generator] \in Nat
  BY CpusType DEF Shape, TypeOK
<1>2. \A n \in Node : taken[generator][n] \in Nat
  BY <1>1 DEF Shape, TypeOK
<1> QED
  BY <1>1, <1>2, CoresAssumption DEF NodeOf, Node

(* One thread at a time works with the generator. *)
LEMMA OneBusy ==
    ASSUME Shape, Current, NEW g \in Hosts, NEW h \in Hosts, pc[g] \in Busy, pc[h] \in Busy
    PROVE  g = h
  BY DEF Shape, Current, Holder

(* While a call is at work nothing of the topology is being replaced.         *)
LEMMA NoReset ==
    ASSUME Shape, IInv, Served, NEW h \in Hosts, pc[h] \in Busy \cup {"next"}
    PROVE  \A n \in Node : range[n] = generator
<1>1. CASE cpu_exclusive
  BY <1>1 DEF IInv, Exclusive, OneTopology
<1>2. CASE ~cpu_exclusive
  <2>1. \A g \in Hosts : pc[g] # "reset"
    BY <1>2 DEF Served, Alone, Calling, Idle, Busy
  <2> QED
    BY <2>1 DEF Served, Installed
<1> QED
  BY <1>1, <1>2

(* In each turn of the loop the node whose turn it is has a core left, and    *)
(* nobody is inside its generator: the RuntimeError does not happen.          *)
LEMMA NodeHasCore ==
    ASSUME Shape, IInv, Served, Orderly, NEW h \in Hosts, pc[h] = "outer", num[generator] < Cpus
    PROVE  inside[generator][NodeOf(generator)] = Nobody /\ Left(generator, NodeOf(generator))
<1>1. generator \in Makers /\ Node \subseteq Nat
  BY Basics
<1>n. PICK n \in Node : n = NodeOf(generator)
  BY Basics
<1>k. PICK k \in Nat : k = num[generator]
  BY Basics
<1>2. inside[generator][n] = Nobody
  <2> SUFFICES ASSUME inside[generator][n] # Nobody PROVE FALSE
    OBVIOUS
  <2>1. inside[generator][n] \in Hosts /\ pc[inside[generator][n]] = "inner"
    BY <1>1 DEF Shape, TypeOK, Within
  <2> QED
    BY <2>1, OneBusy DEF Busy, Served
<1>3. ~Yielding
  BY OneBusy DEF Busy, Yielding, Served
<1>4. taken[generator][n] = k \div Nodes
  <2>1. ~(n < n)
    BY <1>1
  <2>2. k \div Nodes \in Nat
    BY NextTurn, CoresAssumption
  <2>3. taken[generator][n] = (k \div Nodes) + 0
    BY <1>n, <1>k, <1>3, <2>1 DEF Served, RoundRobin
  <2> QED
    BY <2>2, <2>3
<1>5. PICK z \in 1..MaxPerNode : z = size[0]
  BY CoresAssumption DEF Shape, TypeOK, Node
<1>6. size[n] = z
  BY <1>1, <1>5, CoresAssumption DEF Orderly, Balanced, Node
<1>7. Cpus = Nodes * z
  BY <1>5, CpusBalanced DEF Shape, TypeOK, Orderly
<1>8. k \div Nodes < z
  <2>1. k < Nodes * z
    BY <1>k, <1>7
  <2>2. Nodes \in Nat \ {0} /\ z \in Nat
    BY CoresAssumption
  <2> QED
    BY <2>1, <2>2, Multiple
<1> QED
  BY <1>n, <1>2, <1>4, <1>6, <1>8 DEF Left

(* A call moves and the generators stay as they are. *)
LEMMA MoveServed ==
    ASSUME Shape, Shape', Served, NEW h \in Hosts,
           NEW where \in Idle \cup {"next", "outer", "reset"}, Goto(h, where),
           pc[h] \notin Busy \ {"outer"}, pc[h] # "reset",
           UNCHANGED <<options, generator, range, num, inside, taken, again, step, core>>,
           own'[h] = generator \/ where # "outer",
           \A g \in Hosts \ {h} : own'[g] = own[g],
           \A m \in Makers \ {generator} : entered'[m] = entered[m],
           spent' \in {spent, spent \cup {generator}},
           generator \in spent' => num[generator] = Cpus /\ entered'[generator] = Nobody
    PROVE  (Current /\ Asking /\ Asked /\ Installed /\ Finished /\ Fresh /\ RoundRobin)'
<1>1. \A g \in Hosts : pc'[g] = IF g = h THEN where ELSE pc[g]
  BY DEF Goto, Shape, TypeOK
<1>2. Cpus' = Cpus /\ NodeOf(generator)' = NodeOf(generator)
  BY SameCpus DEF NodeOf
<1>3. Current'
  BY <1>1 DEF Served, Current, Busy, Idle
<1>4. Asking' /\ Asked'
  BY <1>1, <1>2 DEF Served, Asking, Asked, NodeOf, Idle, Busy
<1>5. Installed'
  <2>1. CASE where # "reset"
    BY <1>1, <2>1 DEF Served, Installed
  <2>2. CASE where = "reset"
    <3>1. step'[h] = 0 /\ \A n \in Node : ~(n < 0)
      <4>1. ~again[h] /\ step[h] = 0
        BY <1>1, <2>2 DEF Shape, Retry
      <4> QED
        BY <4>1, CoresAssumption DEF Node
    <3> QED
      BY <1>1, <2>2, <3>1 DEF Served, Installed
  <2> QED
    BY <2>1, <2>2
<1>6. Finished'
  BY <1>2 DEF Finished
<1>7. Fresh'
  BY DEF Served, Fresh, Makers
<1>8. RoundRobin'
  <2>1. Yielding' = Yielding
    BY <1>1 DEF Yielding, Idle, Busy
  <2> QED
    BY <1>2, <2>1 DEF Served, RoundRobin
<1> QED
  BY <1>3, <1>4, <1>5, <1>6, <1>7, <1>8

LEMMA CallServed ==
    ASSUME RoundInv, Shape', Orderly, NEW h \in Hosts, Call(h)
    PROVE  Served'
<1>0. Shape /\ IInv /\ Served
  BY DEF RoundInv
<1>1. /\ pc[h] = "idle" /\ Goto(h, "next")
      /\ UNCHANGED <<options, generators, own, again, step, core>>
  BY DEF Call
<1>2. (Current /\ Asking /\ Asked /\ Installed /\ Finished /\ Fresh /\ RoundRobin)'
  BY <1>0, <1>1, MoveServed DEF generators, Idle, Busy, Served, Finished
<1>3. \A g \in Hosts : pc'[g] = IF g = h THEN "next" ELSE pc[g]
  BY <1>0, <1>1 DEF Goto, Shape, TypeOK
<1>4. cpu_exclusive => Accounted'
  BY <1>0, <1>1, <1>3 DEF Served, Accounted, generators
<1>5. ASSUME ~cpu_exclusive
      PROVE  Alone'
  <2>1. workers = 1 /\ IsFiniteSet(Calling)
    BY <1>5, CoresAssumption, FS_Subset DEF Orderly, Calling
  <2>2. Cardinality(Calling) = 0
    BY <2>1, FS_CardinalityType DEF Call
  <2>3. Calling = {}
    BY <2>1, <2>2, FS_EmptySet
  <2>4. \A g \in Hosts \ {h} : pc'[g] \in Idle
    BY <1>3, <2>3 DEF Calling
  <2>5. ~again'[h]
    BY <1>0, <1>1 DEF Shape, Retry
  <2>6. \A g \in Hosts : pc'[g] \notin {"exhausted", "error"}
    BY <1>0, <1>3, <1>5 DEF Served, Alone
  <2> QED
    BY <1>3, <2>4, <2>5, <2>6 DEF Alone, Calling, Idle
<1> QED
  BY <1>1, <1>2, <1>4, <1>5 DEF Served, options

(* With one worker, the call that moves is the only one. *)
LEMMA StaysAlone ==
    ASSUME Alone, NEW h \in Hosts, pc[h] \notin Idle,
           \A g \in Hosts \ {h} : pc'[g] = pc[g]
    PROVE  /\ \A g \in Hosts \ {h} : pc'[g] \in {"idle", "core"}
           /\ \A g, k \in Calling' : g = k
<1>1. \A g \in Hosts \ {h} : pc[g] \in {"idle", "core"}
  BY DEF Alone, Calling, Idle
<1> QED
  BY <1>1 DEF Calling, Idle

LEMMA EnterServed ==
    ASSUME RoundInv, Shape', Orderly, NEW h \in Hosts, Enter(h)
    PROVE  Served'
<1> DEFINE m == generator
<1>0. Shape /\ IInv /\ Served
  BY DEF RoundInv
<1>1. /\ pc[h] = "next" /\ own' = [own EXCEPT ![h] = m]
      /\ UNCHANGED <<options, generator, range, spent, num, inside, taken, again, step, core>>
  BY DEF Enter
<1>2. /\ \A g \in Hosts : own'[g] = IF g = h THEN m ELSE own[g]
      /\ m \in Makers
  BY <1>0, <1>1 DEF Shape, TypeOK
<1>3. ASSUME m \in spent, entered' = entered, Goto(h, StopIteration(h))
      PROVE  Served'
  <2>1. PICK where \in {"reset", "exhausted"} : where = StopIteration(h)
    BY <1>0, <1>1, StopIterationType
  <2>2. (Current /\ Asking /\ Asked /\ Installed /\ Finished /\ Fresh /\ RoundRobin)'
    BY <1>0, <1>1, <1>2, <1>3, <2>1, MoveServed DEF Idle, Busy, Served, Finished
  <2>3. \A g \in Hosts : pc'[g] = IF g = h THEN where ELSE pc[g]
    BY <1>0, <1>3, <2>1 DEF Goto, Shape, TypeOK
  <2>4. cpu_exclusive => Accounted'
    BY <1>0, <1>1, <1>3, <2>3 DEF Served, Accounted
  <2>5. ASSUME ~cpu_exclusive
        PROVE  Alone'
    <3>1. ~again[h] /\ where = "reset"
      BY <1>0, <1>1, <1>3, <2>1, <2>5 DEF Served, Alone, StopIteration
    <3> QED
      BY <1>0, <1>1, <2>3, <2>5, <3>1, StaysAlone DEF Served, Alone, Idle
  <2> QED
    BY <1>1, <2>2, <2>4, <2>5 DEF Served, options
<1>4. ASSUME m \notin spent, entered[m] # Nobody, entered' = entered, Goto(h, "error")
      PROVE  Served'
  <2>1. entered[m] \in Hosts /\ pc[entered[m]] \in Busy
    BY <1>0, <1>2, <1>4 DEF Shape, TypeOK, Held
  <2>2. cpu_exclusive
    <3>1. entered[m] # h /\ h \in Calling /\ entered[m] \in Calling
      BY <1>1, <2>1 DEF Busy, Calling, Idle
    <3> QED
      BY <1>0, <3>1 DEF Served, Alone
  <2>3. (Current /\ Asking /\ Asked /\ Installed /\ Finished /\ Fresh /\ RoundRobin)'
    BY <1>0, <1>1, <1>2, <1>4, MoveServed DEF Idle, Busy
  <2>4. \A g \in Hosts : pc'[g] = IF g = h THEN "error" ELSE pc[g]
    BY <1>0, <1>4 DEF Goto, Shape, TypeOK
  <2>5. Accounted'
    BY <1>0, <1>1, <2>2, <2>4 DEF Served, Accounted
  <2> QED
    BY <1>1, <2>2, <2>3, <2>5 DEF Served, options
<1>5. ASSUME m \notin spent, entered[m] = Nobody, Goto(h, "outer"),
             entered' = [entered EXCEPT ![m] = h]
      PROVE  Served'
  <2>1. \A k \in Makers \ {m} : entered'[k] = entered[k]
    BY <1>0, <1>5 DEF Shape, TypeOK
  <2>2. (Current /\ Asking /\ Asked /\ Installed /\ Finished /\ Fresh /\ RoundRobin)'
    BY <1>0, <1>1, <1>2, <1>5, <2>1, MoveServed DEF Idle, Busy
  <2>3. \A g \in Hosts : pc'[g] = IF g = h THEN "outer" ELSE pc[g]
    BY <1>0, <1>5 DEF Goto, Shape, TypeOK
  <2>4. cpu_exclusive => Accounted'
    BY <1>0, <1>1, <2>3 DEF Served, Accounted
  <2>5. ~cpu_exclusive => Alone'
    BY <1>0, <1>1, <2>3, StaysAlone DEF Served, Alone, Idle
  <2> QED
    BY <1>1, <2>2, <2>4, <2>5 DEF Served, options
<1> QED
  BY <1>3, <1>4, <1>5 DEF Enter

LEMMA OuterServed ==
    ASSUME RoundInv, Shape', Orderly, NEW h \in Hosts, Outer(h)
    PROVE  Served'
<1> DEFINE m == generator
           n == NodeOf(generator)
<1>0. Shape /\ IInv /\ Served
  BY DEF RoundInv
<1>1. /\ pc[h] = "outer" /\ own[h] = m /\ m \in Makers
      /\ UNCHANGED <<options, generator, range, num, taken, again, step, core>>
  BY <1>0 DEF Outer, Served, Current, Busy, Shape, TypeOK
<1>2. n \in Node /\ range[n] = m
  BY <1>0, <1>1, NoReset, Basics DEF Busy
<1>3. entered[m] = h
  BY <1>0, <1>1 DEF Shape, Holder, Busy
<1>4. CASE num[m] = Cpus /\ LeaveWith(h, StopIteration(h)) /\ UNCHANGED <<inside, own>>
  <2>1. PICK where \in {"reset", "exhausted"} : where = StopIteration(h)
    BY <1>0, <1>1, StopIterationType
  <2>2. \A k \in Makers : entered'[k] = IF k = m THEN Nobody ELSE entered[k]
    BY <1>0, <1>1, <1>4 DEF LeaveWith, Shape, TypeOK
  <2>3. (Current /\ Asking /\ Asked /\ Installed /\ Finished /\ Fresh /\ RoundRobin)'
    BY <1>0, <1>1, <1>4, <2>1, <2>2, MoveServed DEF Idle, Busy, LeaveWith
  <2>4. \A g \in Hosts : pc'[g] = IF g = h THEN where ELSE pc[g]
    BY <1>0, <1>4, <2>1 DEF LeaveWith, Goto, Shape, TypeOK
  <2>5. m \in spent'
    BY <1>1, <1>4 DEF LeaveWith
  <2>6. cpu_exclusive => Accounted'
    BY <1>0, <1>1, <2>4, <2>5 DEF Served, Accounted
  <2>7. ASSUME ~cpu_exclusive
        PROVE  Alone'
    <3>1. Cpus > 0
      BY <1>0, CpusBalanced DEF Shape, TypeOK, Orderly
    <3>2. ~again[h] /\ where = "reset"
      BY <1>0, <1>1, <1>4, <2>1, <2>7, <3>1 DEF Served, Alone, StopIteration
    <3> QED
      BY <1>0, <1>1, <2>4, <2>7, <3>2, StaysAlone DEF Served, Alone, Idle
  <2> QED
    BY <1>1, <2>3, <2>6, <2>7 DEF Served, options
<1>5. CASE /\ num[m] < Cpus
           /\ inside' = [inside EXCEPT ![m][n] = h]
           /\ Goto(h, "inner")
           /\ UNCHANGED <<entered, spent, own>>
  <2>1. /\ \A g \in Hosts : pc'[g] = IF g = h THEN "inner" ELSE pc[g]
        /\ \A k \in Makers, l \in Node :
              inside'[k][l] = IF k = m /\ l = n THEN h ELSE inside[k][l]
    BY <1>0, <1>1, <1>2, <1>5 DEF Goto, Shape, TypeOK
  <2>2. Cpus' = Cpus /\ NodeOf(generator)' = NodeOf(generator)
    BY <1>1, SameCpus DEF NodeOf
  <2>3. Current'
    BY <1>0, <1>1, <1>5, <2>1 DEF Served, Current, Busy
  <2>4. Asking'
    BY <1>0, <1>1, <2>1, <2>2 DEF Served, Asking
  <2>5. Asked'
    <3>1. \A g \in Hosts \ {h} : pc[g] \notin Busy
      BY <1>0, <1>1, OneBusy DEF Busy, Served
    <3> QED
      BY <1>1, <1>2, <2>1, <2>2, <3>1 DEF Asked, Busy
  <2>6. (Installed /\ Finished /\ Fresh)'
    BY <1>0, <1>1, <1>5, <2>1, <2>2 DEF Served, Installed, Finished, Fresh
  <2>7. RoundRobin'
    <3>1. Yielding' = Yielding
      BY <1>1, <2>1 DEF Yielding
    <3> QED
      BY <1>0, <1>1, <2>2, <3>1 DEF Served, RoundRobin
  <2>8. cpu_exclusive => Accounted'
    BY <1>0, <1>1, <1>5, <2>1 DEF Served, Accounted
  <2>9. ~cpu_exclusive => Alone'
    BY <1>0, <1>1, <2>1, StaysAlone DEF Served, Alone, Idle
  <2> QED
    BY <1>1, <2>3, <2>4, <2>5, <2>6, <2>7, <2>8, <2>9 DEF Served, options
<1>6. num[m] < Cpus => inside[m][n] = Nobody /\ Left(m, n)
  BY <1>0, <1>1, NodeHasCore
<1> HIDE DEF m, n
<1> QED
  BY <1>1, <1>2, <1>4, <1>5, <1>6 DEF Outer, m, n

LEMMA InnerServed ==
    ASSUME RoundInv, Shape', Orderly, NEW h \in Hosts, Inner(h)
    PROVE  Served'
<1>0. Shape /\ IInv /\ Served
  BY DEF RoundInv
<1>1. PICK r \in Makers, n \in Node :
        /\ inside[r][n] = h
        /\ inside' = [inside EXCEPT ![r][n] = Nobody]
        /\ taken' = [taken EXCEPT ![r][n] = @ + 1]
        /\ core' = [core EXCEPT ![h] = <<n, taken[r][n]>>]
  BY DEF Inner
<1>2. /\ pc[h] = "inner" /\ pc' = [pc EXCEPT ![h] = "yield"]
      /\ UNCHANGED <<options, generator, range, entered, spent, num, own, again, step>>
  BY DEF Inner, Goto
<1>3. r = generator /\ n = NodeOf(generator)
  BY <1>0, <1>1, CoresAssumption DEF Served, Asking
<1>4. /\ \A g \in Hosts : pc'[g] = IF g = h THEN "yield" ELSE pc[g]
      /\ \A k \in Makers, l \in Node :
            /\ inside'[k][l] = IF k = r /\ l = n THEN Nobody ELSE inside[k][l]
            /\ taken'[k][l] = IF k = r /\ l = n THEN taken[r][n] + 1 ELSE taken[k][l]
      /\ \A g \in Hosts : core'[g] = IF g = h THEN <<n, taken[r][n]>> ELSE core[g]
  BY <1>0, <1>1, <1>2 DEF Shape, TypeOK
<1>5. Cpus' = Cpus /\ NodeOf(generator)' = NodeOf(generator)
  BY <1>2, SameCpus DEF NodeOf
<1>6. \A g \in Hosts \ {h} : pc[g] \notin Busy
  BY <1>0, <1>2, OneBusy DEF Busy, Served
<1>7. Current' /\ Asked'
  BY <1>0, <1>2, <1>4, <1>6 DEF Served, Current, Asked, Busy
<1>8. Asking'
  BY <1>0, <1>2, <1>4, <1>5 DEF Served, Asking
<1>9. (Installed /\ Finished)'
  BY <1>0, <1>2, <1>4, <1>5 DEF Served, Installed, Finished
<1>10. Fresh'
  BY <1>0, <1>2, <1>3, <1>4 DEF Served, Fresh, Makers
<1>11. RoundRobin'
  <2>1. PICK k \in Nat : k = num[generator]
    BY <1>0, Basics
  <2>2. ~Yielding /\ Yielding'
    BY <1>2, <1>4, <1>6 DEF Yielding, Busy
  <2>3. k \div Nodes \in Nat /\ Node \subseteq Nat /\ generator \in Makers
    BY <1>0, NextTurn, Basics, CoresAssumption
  <2>4. \A l \in Node : taken[generator][l] = (k \div Nodes) + IF l < n THEN 1 ELSE 0
    BY <1>0, <1>3, <2>1, <2>2, <2>3 DEF Served, RoundRobin
  <2>5. \A l \in Node : taken'[generator][l] = (k \div Nodes) + IF l < n \/ l = n THEN 1 ELSE 0
    BY <1>1, <1>3, <1>4, <2>3, <2>4
  <2> QED
    BY <1>2, <1>3, <1>5, <2>1, <2>2, <2>5 DEF RoundRobin
<1>12. ASSUME cpu_exclusive
       PROVE  Accounted'
  <2>1. core[h] = NoCore /\ r = Boot
    BY <1>0, <1>2, <1>3, <1>12 DEF Served, Accounted, IInv, Exclusive, OneTopology
  <2>2. \A l \in Node : taken[Boot][l] \in Nat /\ taken'[Boot][l] \in Nat
    BY <1>0, CoresAssumption DEF Shape, TypeOK, Makers
  <2>3. \A g \in Hosts : pc'[g] \notin {"yield", "core"} => core'[g] = NoCore
    BY <1>0, <1>4, <1>12 DEF Served, Accounted
  <2>4. ASSUME NEW l \in Node, NEW k \in Nat, k < taken'[Boot][l]
        PROVE  \E g \in Hosts : core'[g] = <<l, k>>
    <3>1. CASE k < taken[Boot][l]
      <4>1. PICK g \in Hosts : core[g] = <<l, k>>
        BY <1>0, <1>12, <3>1 DEF Served, Accounted
      <4>2. <<l, k>> # NoCore
        BY CoresAssumption DEF NoCore, Node
      <4> QED
        BY <1>4, <2>1, <4>1, <4>2
    <3>2. CASE ~(k < taken[Boot][l])
      <4>1. l = n /\ k = taken[r][n]
        BY <1>4, <2>1, <2>2, <2>4, <3>2
      <4> QED
        BY <1>4, <4>1
    <3> QED
      BY <3>1, <3>2
  <2>5. \A g \in Hosts : pc'[g] = "exhausted" => generator' \in spent'
    BY <1>0, <1>2, <1>4, <1>12 DEF Served, Accounted
  <2> QED
    BY <2>3, <2>4, <2>5 DEF Accounted
<1>13. ~cpu_exclusive => Alone'
  BY <1>0, <1>2, <1>4, StaysAlone DEF Served, Alone, Idle
<1> QED
  BY <1>2, <1>7, <1>8, <1>9, <1>10, <1>11, <1>12, <1>13 DEF Served, options

LEMMA YieldServed ==
    ASSUME RoundInv, Shape', Orderly, NEW h \in Hosts, Yield(h)
    PROVE  Served'
<1> DEFINE m == generator
<1>0. Shape /\ IInv /\ Served
  BY DEF RoundInv
<1>1. /\ pc[h] = "yield" /\ pc' = [pc EXCEPT ![h] = "core"]
      /\ own[h] = m /\ m \in Makers
      /\ entered' = [entered EXCEPT ![m] = Nobody]
      /\ num' = [num EXCEPT ![m] = @ + 1]
      /\ UNCHANGED <<options, generator, range, spent, inside, taken, own, again, step, core>>
  BY <1>0 DEF Yield, Goto, Served, Current, Busy, Shape, TypeOK
<1>2. /\ \A g \in Hosts : pc'[g] = IF g = h THEN "core" ELSE pc[g]
      /\ \A k \in Makers : /\ entered'[k] = IF k = m THEN Nobody ELSE entered[k]
                           /\ num'[k] = IF k = m THEN num[k] + 1 ELSE num[k]
  BY <1>0, <1>1 DEF Shape, TypeOK
<1>3. \A g \in Hosts \ {h} : pc[g] \notin Busy
  BY <1>0, <1>1, OneBusy DEF Busy, Served
<1>4. Cpus' = Cpus
  BY <1>1, SameCpus
<1>5. Current' /\ Asked' /\ Installed'
  BY <1>0, <1>1, <1>2, <1>3 DEF Served, Current, Asked, Installed, Busy
<1>6. Asking'
  <2>1. \A k \in Makers, l \in Node : inside[k][l] = Nobody
    BY <1>0, <1>1, <1>3 DEF Shape, TypeOK, Within, Busy
  <2> QED
    BY <1>1, <2>1 DEF Asking
<1>7. Finished'
  <2>1. generator \notin spent
    BY <1>0, <1>1, CoresAssumption DEF Shape, Holder, Busy, Served, Finished
  <2> QED
    BY <1>1, <2>1 DEF Finished
<1>8. Fresh'
  BY <1>0, <1>1, <1>2 DEF Served, Fresh, Makers
<1>9. RoundRobin'
  <2>1. PICK k \in Nat : k = num[generator]
    BY <1>0, Basics
  <2>2. Yielding /\ ~Yielding'
    BY <1>1, <1>2, <1>3 DEF Yielding, Busy
  <2>3. num'[generator] = k + 1
    BY <1>1, <1>2, <2>1
  <2>4. \A n \in Node : taken[generator][n] =
            (k \div Nodes) + IF n < k % Nodes \/ n = k % Nodes THEN 1 ELSE 0
    BY <1>0, <2>1, <2>2 DEF Served, RoundRobin, NodeOf
  <2>5. \A n \in Node : n \in 0..(Nodes - 1)
    BY DEF Node
  <2>6. \A n \in Node : taken[generator][n] =
            ((k + 1) \div Nodes) + IF n < (k + 1) % Nodes THEN 1 ELSE 0
    <3>1. CASE k % Nodes = Nodes - 1
      <4>1. (k + 1) % Nodes = 0 /\ (k + 1) \div Nodes = (k \div Nodes) + 1 /\ k \div Nodes \in Nat
        BY <3>1, NextTurn, CoresAssumption
      <4>2. \A n \in Node : (n < k % Nodes \/ n = k % Nodes) /\ ~(n < 0)
        BY <2>5, <3>1, CoresAssumption
      <4> QED
        BY <2>4, <4>1, <4>2
    <3>2. CASE k % Nodes # Nodes - 1
      <4>0. k % Nodes \in Nat
        BY NextTurn, CoresAssumption
      <4>1. (k + 1) % Nodes = (k % Nodes) + 1 /\ (k + 1) \div Nodes = k \div Nodes
        BY <3>2, NextTurn, CoresAssumption
      <4>2. \A n \in Node : (n < k % Nodes \/ n = k % Nodes) <=> n < (k % Nodes) + 1
        BY <2>5, <4>0, CoresAssumption
      <4> QED
        BY <2>4, <4>1, <4>2
    <3> QED
      BY <3>1, <3>2
  <2> QED
    BY <1>1, <2>2, <2>3, <2>6 DEF RoundRobin, NodeOf
<1>10. ASSUME cpu_exclusive PROVE Accounted'
  <2>1. Accounted
    BY <1>0, <1>10 DEF Served
  <2>2. \A g \in Hosts : pc'[g] = "exhausted" => generator' \in spent'
    BY <1>1, <1>2, <2>1 DEF Accounted
  <2>3. \A g \in Hosts : pc'[g] \notin {"yield", "core"} => core'[g] = NoCore
    BY <1>1, <1>2, <2>1 DEF Accounted
  <2>4. \A n \in Node, k \in Nat : k < taken'[Boot][n] => \E g \in Hosts : core'[g] = <<n, k>>
    BY <1>1, <1>2, <2>1 DEF Accounted
  <2> QED
    BY <2>2, <2>3, <2>4 DEF Accounted
<1>11. ~cpu_exclusive => Alone'
  BY <1>0, <1>1, <1>2, StaysAlone DEF Served, Alone, Idle
<1> QED
  BY <1>1, <1>5, <1>6, <1>7, <1>8, <1>9, <1>10, <1>11 DEF Served, options

LEMMA ResetNodeServed ==
    ASSUME RoundInv, Shape', Orderly, NEW h \in Hosts, ResetNode(h)
    PROVE  Served'
<1>0. Shape /\ IInv /\ Served
  BY DEF RoundInv
<1>1. /\ pc[h] = "reset" /\ step[h] < Nodes
      /\ range' = [range EXCEPT ![step[h]] = h]
      /\ step' = [step EXCEPT ![h] = @ + 1]
      /\ UNCHANGED <<options, generator, entered, spent, num, inside, taken, pc, own, again, core>>
  BY DEF ResetNode
<1>2. Cpus' = Cpus /\ NodeOf(generator)' = NodeOf(generator) /\ Yielding' = Yielding
  BY <1>1, SameCpus DEF NodeOf, Yielding
<1>3. (Current /\ Asking /\ Asked /\ Finished /\ Fresh /\ RoundRobin)'
  BY <1>0, <1>1, <1>2 DEF Served, Current, Asking, Asked, Finished, Fresh, RoundRobin
<1>4. ~cpu_exclusive /\ Alone'
  BY <1>0, <1>1 DEF Shape, Retry, Served, Alone, Calling
<1>5. Installed'
  <2>1. \A g \in Hosts : pc[g] = "reset" => g = h
    BY <1>0, <1>1, <1>4 DEF Served, Alone, Calling, Idle
  <2>2. PICK s \in 0..(Nodes - 1) : s = step[h]
    BY <1>0, <1>1, CoresAssumption DEF Shape, TypeOK
  <2>3. /\ step'[h] = s + 1
        /\ \A n \in Node : range'[n] = IF n = s THEN h ELSE range[n]
    BY <1>0, <1>1, <2>2 DEF Shape, TypeOK
  <2>4. \A n \in Node : n < s + 1 => n < s \/ n = s
    BY <2>2, CoresAssumption DEF Node
  <2>5. \A n \in Node : n < s => range[n] = h
    BY <1>0, <1>1, <2>2 DEF Served, Installed
  <2> QED
    BY <1>1, <2>1, <2>3, <2>4, <2>5 DEF Installed
<1> QED
  BY <1>1, <1>3, <1>4, <1>5 DEF Served, options

LEMMA ResetGeneratorServed ==
    ASSUME RoundInv, Shape', Orderly, NEW h \in Hosts, ResetGenerator(h)
    PROVE  Served'
<1>0. Shape /\ IInv /\ Served
  BY DEF RoundInv
<1>1. /\ pc[h] = "reset" /\ step[h] = Nodes
      /\ generator' = h
      /\ again' = [again EXCEPT ![h] = TRUE]
      /\ UNCHANGED <<options, range, entered, spent, num, inside, taken, own, step, core>>
  BY DEF ResetGenerator
<1>2. /\ \A g \in Hosts : /\ pc'[g] = IF g = h THEN "next" ELSE pc[g]
                          /\ again'[g] = IF g = h THEN TRUE ELSE again[g]
      /\ h \in Makers
  BY <1>0, <1>1 DEF ResetGenerator, Goto, Shape, TypeOK, Makers
<1>3. ~cpu_exclusive /\ ~again[h]
  BY <1>0, <1>1 DEF Shape, Retry
<1>4. \A g \in Hosts \ {h} : pc[g] \in {"idle", "core"}
  BY <1>0, <1>1, <1>3 DEF Served, Alone, Calling, Idle
<1>5. num[h] = 0 /\ h \notin spent /\ \A n \in Node : taken[h][n] = 0
  BY <1>0, <1>3 DEF Served, Fresh
<1>6. Current' /\ Asked'
  BY <1>2, <1>4 DEF Current, Asked, Busy
<1>7. Asking'
  <2>1. \A g \in Hosts : pc[g] # "inner"
    BY <1>1, <1>4
  <2>2. \A k \in Makers, l \in Node : inside[k][l] = Nobody
    BY <1>0, <2>1 DEF Shape, TypeOK, Within
  <2> QED
    BY <1>1, <2>2 DEF Asking
<1>8. Installed'
  <2>1. \A n \in Node : n < Nodes
    BY CoresAssumption DEF Node
  <2>2. \A n \in Node : range[n] = h
    BY <1>0, <1>1, <2>1 DEF Served, Installed
  <2> QED
    BY <1>1, <1>2, <1>4, <2>2 DEF Installed
<1>9. Finished' /\ Fresh'
  BY <1>0, <1>1, <1>2, <1>5 DEF Served, Finished, Fresh
<1>10. RoundRobin'
  <2>1. 0 % Nodes = 0 /\ 0 \div Nodes = 0
    BY CoresAssumption, NextTurn
  <2>2. \A n \in Node : n \in Nat
    BY CoresAssumption DEF Node
  <2>3. ~Yielding'
    BY <1>2, <1>4 DEF Yielding
  <2>4. NodeOf(generator)' = 0
    BY <1>1, <1>5, <2>1 DEF NodeOf
  <2> QED
    BY <1>1, <1>5, <2>1, <2>2, <2>3, <2>4 DEF RoundRobin
<1>11. Alone'
  BY <1>0, <1>1, <1>2, <1>3, <1>4, <1>5, StaysAlone DEF Served, Alone, Idle
<1> QED
  BY <1>1, <1>3, <1>6, <1>7, <1>8, <1>9, <1>10, <1>11 DEF Served, options

LEMMA NextRoundInv ==
    ASSUME RoundInv, [Next]_vars
    PROVE  RoundInv'
<1>1. Shape' /\ IInv'
  BY NextShape, NextIInv DEF RoundInv
<1>2. UNCHANGED options /\ Orderly' = Orderly
  <2>1. UNCHANGED options
    BY DEF Next, vars, Terminated, Call, Enter, Outer, Inner, Yield, ResetNode, ResetGenerator
  <2> QED
    BY <2>1 DEF options, Orderly, Balanced
<1>3. ASSUME Orderly, UNCHANGED vars
      PROVE  Served'
  <2>1. (Current /\ Asking /\ Asked /\ Installed /\ Finished /\ Fresh /\ RoundRobin)'
    BY <1>2, <1>3, SameCpus DEF RoundInv, Served, vars, generators, Current, Asking, Asked, Installed,
       Finished, Fresh, RoundRobin, NodeOf, Yielding
  <2>2. (cpu_exclusive => Accounted)' /\ (~cpu_exclusive => Alone)'
    BY <1>3 DEF RoundInv, Served, vars, generators, options, Accounted, Alone, Calling
  <2> QED
    BY <2>1, <2>2 DEF Served
<1>4. ASSUME Orderly
      PROVE  Served'
  BY <1>1, <1>3, <1>4, CallServed, EnterServed, OuterServed, InnerServed, YieldServed,
     ResetNodeServed, ResetGeneratorServed DEF Next, Terminated
<1> QED
  BY <1>1, <1>2, <1>4 DEF RoundInv

(* The generators go round the nodes in step. *)
THEOREM RoundsServed == Spec => []RoundInv
<1>1. Init => RoundInv
  BY InitShape, InitIInv, InitServed DEF RoundInv
<1> QED
  BY <1>1, NextRoundInv, PTL DEF Spec

(* With equal nodes an exclusive core is refused only when each core of each  *)
(* node belongs to a host, also when other workers fail on a generator that   *)
(* is already executing.                                                      *)
THEOREM NoneWasted == Spec => []NoCoreWasted
<1>1. ASSUME RoundInv
      PROVE  NoCoreWasted
  <2> SUFFICES ASSUME cpu_exclusive, Balanced, NEW h \in Hosts, pc[h] = "exhausted", NEW n \in Node
               PROVE  Cardinality({core[g][2] : g \in {x \in Given : core[x][1] = n}}) = size[n]
    BY DEF NoCoreWasted
  <2>0. Shape /\ IInv /\ Served /\ Accounted /\ Passed /\ generator = Boot
    BY <1>1 DEF RoundInv, Served, Orderly, IInv, Exclusive, OneTopology
  <2>1. num[Boot] = Cpus /\ entered[Boot] = Nobody
    BY <2>0 DEF Accounted, Served, Finished
  <2>2. ~Yielding
    BY <2>0, <2>1, CoresAssumption DEF Yielding, Served, Current, Busy, Shape, Holder
  <2>3. PICK z \in 1..MaxPerNode : z = size[0]
    BY <2>0, CoresAssumption DEF Shape, TypeOK, Node
  <2>4. size[n] = z /\ Cpus = Nodes * z /\ z \in Nat
    <3>1. size[n] = z
      BY <2>3, CoresAssumption DEF Balanced, Node
    <3>2. size \in [Node -> 1..MaxPerNode]
      BY <2>0 DEF Shape, TypeOK
    <3>3. Cpus = Nodes * z
      BY <2>3, <3>2, CpusBalanced
    <3> QED
      BY <3>1, <3>3, CoresAssumption
  <2>5. taken[Boot][n] = z
    <3>1. Cpus % Nodes = 0 /\ Cpus \div Nodes = z
      BY <2>4, Multiple, CoresAssumption
    <3>2. NodeOf(Boot) = 0 /\ ~(n < 0)
      BY <2>1, <3>1, CoresAssumption DEF NodeOf, Node
    <3>3. taken[Boot][n] = z + 0
      BY <2>0, <2>1, <2>2, <3>1, <3>2 DEF Served, RoundRobin
    <3> QED
      BY <2>4, <3>3
  <2>6. {core[g][2] : g \in {x \in Given : core[x][1] = n}} = 0..(z - 1)
    <3>1. \A g \in Given : core[g][1] = n => core[g][2] \in 0..(z - 1)
      <4>1. \A g \in Given : core[g] \in Node \X (0..(MaxPerNode - 1))
        BY <2>0 DEF Shape, TypeOK, Given
      <4>2. \A g \in Given : core[g][1] = n => core[g][2] < z
        BY <2>0, <2>5 DEF Passed
      <4> QED
        BY <2>4, <4>1, <4>2, CoresAssumption
    <3>2. ASSUME NEW k \in 0..(z - 1)
          PROVE  \E g \in Given : core[g][1] = n /\ core[g][2] = k
      <4>1. PICK g \in Hosts : core[g] = <<n, k>>
        <5>1. k \in Nat /\ k < taken[Boot][n]
          BY <2>4, <2>5
        <5> QED
          BY <2>0, <5>1 DEF Accounted
      <4>2. <<n, k>> # NoCore
        BY CoresAssumption DEF NoCore, Node
      <4>3. <<n, k>>[1] = n /\ <<n, k>>[2] = k
        OBVIOUS
      <4> QED
        BY <4>1, <4>2, <4>3 DEF Given
    <3> QED
      BY <3>1, <3>2
  <2>7. Cardinality(0..(z - 1)) = z
    <3>1. 0 \in Int /\ z - 1 \in Int /\ ~(0 > z - 1) /\ z - 1 - 0 + 1 = z
      BY <2>3, CoresAssumption
    <3> QED
      BY <3>1, FS_Interval
  <2> QED
    BY <2>4, <2>6, <2>7
<1> QED
  BY <1>1, RoundsServed, PTL

(* With one worker and equal nodes get_unused_core ends neither with          *)
(* StopIteration nor with a RuntimeError when cores are shared, through any   *)
(* number of resets.                                                          *)
THEOREM AlwaysServed == Spec => []SharedAlwaysServed
<1>1. RoundInv => SharedAlwaysServed
  BY DEF RoundInv, Orderly, Served, Alone, SharedAlwaysServed
<1> QED
  BY <1>1, RoundsServed, PTL

--------------------------------------------------------------------------------
(* The life of a host.  Cleanup runs its commands in one order, whatever step *)
(* or sysctl scheduled them; what a host has made has its command among those *)
(* to come, or is excused, or belongs to a netcat that came too late.         *)

(* The cleanup commands, each of which is scheduled by one step. *)
Scheduled ==
    {"stop", "container", "kill", "netns", "etc", "helpers", "sync", "cgroup", "socket"} \cup Values

(* The order in which cleanup runs them. *)
Rank(c) ==
    CASE c \in Values    -> 0
      [] c = "stop"      -> 1
      [] c = "container" -> 2
      [] c = "kill"      -> 3
      [] c = "netns"     -> 4
      [] c = "etc"       -> 5
      [] c = "helpers"   -> 6
      [] c = "sync"      -> 7
      [] c = "cgroup"    -> 8
      [] OTHER           -> 9

Sorted(d) ==
    \A j, k \in DOMAIN d :
        j < k => Rank(d[j]) < Rank(d[k]) \/ (d[j] \in Values /\ d[k] \in Values)

(* The rank of each command. *)
LEMMA Ranks ==
    /\ \A v \in Values : Rank(v) = 0
    /\ Rank("stop") = 1 /\ Rank("container") = 2 /\ Rank("kill") = 3 /\ Rank("netns") = 4
    /\ Rank("etc") = 5 /\ Rank("helpers") = 6 /\ Rank("sync") = 7 /\ Rank("cgroup") = 8
    /\ Rank("socket") = 9
  BY HostLifeAssumption DEF Rank, Things

(* No value has the name of another command. *)
LEMMA NotValues ==
    /\ Values \cap {"stop", "container", "kill", "netns", "etc",
                     "helpers", "sync", "cgroup", "socket"} = {}
    /\ "nothing" \notin Values
  BY HostLifeAssumption DEF Things

(* Commands that are joined to those of d. *)
LEMMA JoinedCommands ==
    ASSUME NEW s \in Seq(Scheduled), NEW d \in Seq(Scheduled)
    PROVE  /\ s \o d \in Seq(Scheduled)
           /\ Range(s \o d) = Range(s) \cup Range(d)
           /\ Sorted(s) /\ Sorted(d) /\ (\A b \in Range(s), c \in Range(d) :
                  Rank(b) < Rank(c) \/ (b \in Values /\ c \in Values)) => Sorted(s \o d)
<1> DEFINE t == s \o d
<1>0. PICK m \in Nat, n \in Nat : m = Len(s) /\ n = Len(d)
  BY LenProperties
<1>1. /\ t \in Seq(Scheduled) /\ DOMAIN t = 1..(m + n)
      /\ \A k \in 1..(m + n) : t[k] = IF k <= m THEN s[k] ELSE d[k - m]
  BY <1>0, ConcatProperties, LenProperties
<1>2. DOMAIN s = 1..m /\ DOMAIN d = 1..n
  BY <1>0, LenProperties
<1> HIDE DEF t
<1>3. Range(t) = Range(s) \cup Range(d)
  <2>1. \A k \in 1..m : k \in 1..(m + n) /\ t[k] = s[k]
    BY <1>0, <1>1
  <2>2. \A k \in 1..n : k + m \in 1..(m + n) /\ t[k + m] = d[k]
    <3> SUFFICES ASSUME NEW k \in 1..n PROVE k + m \in 1..(m + n) /\ t[k + m] = d[k]
      OBVIOUS
    <3>1. k + m \in 1..(m + n) /\ ~(k + m <= m) /\ (k + m) - m = k
      BY <1>0
    <3> QED
      BY <1>1, <3>1
  <2>3. \A k \in 1..(m + n) : k \in 1..m \/ (k - m \in 1..n /\ k = (k - m) + m)
    BY <1>0
  <2>4. \A k \in 1..(m + n) : t[k] \in {s[j] : j \in 1..m} \cup {d[j] : j \in 1..n}
    BY <1>1, <2>1, <2>2, <2>3
  <2>5. /\ Range(t) = {t[k] : k \in 1..(m + n)}
        /\ Range(s) = {s[j] : j \in 1..m} /\ Range(d) = {d[j] : j \in 1..n}
    BY <1>1, <1>2 DEF Range
  <2>6. \A x \in Range(s) \cup Range(d) : x \in Range(t)
    BY <2>1, <2>2, <2>5
  <2> QED
    BY <2>4, <2>5, <2>6
<1>4. ASSUME Sorted(s), Sorted(d),
             \A b \in Range(s), c \in Range(d) : Rank(b) < Rank(c) \/ (b \in Values /\ c \in Values)
      PROVE  Sorted(t)
  <2> SUFFICES ASSUME NEW j \in 1..(m + n), NEW k \in 1..(m + n), j < k
               PROVE  Rank(t[j]) < Rank(t[k]) \/ (t[j] \in Values /\ t[k] \in Values)
    BY <1>1 DEF Sorted
  <2>1. CASE k <= m
    <3>1. j \in 1..m /\ k \in 1..m /\ t[j] = s[j] /\ t[k] = s[k]
      BY <1>0, <1>1, <2>1
    <3> QED
      BY <1>2, <1>4, <3>1 DEF Sorted
  <2>2. CASE j > m
    <3>1. j - m \in 1..n /\ k - m \in 1..n /\ j - m < k - m /\ t[j] = d[j - m] /\ t[k] = d[k - m]
      BY <1>0, <1>1, <2>2
    <3> QED
      BY <1>2, <1>4, <3>1 DEF Sorted
  <2>3. CASE j <= m /\ k > m
    <3>1. j \in 1..m /\ k - m \in 1..n /\ t[j] = s[j] /\ t[k] = d[k - m]
      BY <1>0, <1>1, <2>3
    <3>2. t[j] \in Range(s) /\ t[k] \in Range(d)
      BY <1>2, <3>1 DEF Range
    <3> QED
      BY <1>4, <3>2
  <2> QED
    BY <1>0, <2>1, <2>2, <2>3
<1> QED
  BY <1>1, <1>3, <1>4 DEF t

(* schedule_cleanup_command of the value that a sysctl replaced.              *)
LEMMA Prepended ==
    ASSUME NEW v \in Values, NEW d \in Seq(Scheduled)
    PROVE  /\ <<v>> \o d \in Seq(Scheduled)
           /\ Len(<<v>> \o d) = Len(d) + 1
           /\ (<<v>> \o d)[1] = v
           /\ \A k \in DOMAIN d : k + 1 \in DOMAIN (<<v>> \o d) /\ (<<v>> \o d)[k + 1] = d[k]
           /\ \A k \in DOMAIN (<<v>> \o d) :
                  k = 1 \/ (k - 1 \in DOMAIN d /\ (<<v>> \o d)[k] = d[k - 1])
           /\ Range(<<v>> \o d) = {v} \cup Range(d)
           /\ Sorted(d) => Sorted(<<v>> \o d)
<1> DEFINE s == <<v>>
           t == s \o d
<1>1. s \in Seq(Scheduled) /\ Len(s) = 1 /\ s[1] = v /\ DOMAIN s = 1..1
  BY DEF Scheduled
<1>0. PICK n \in Nat : n = Len(d) /\ DOMAIN d = 1..n
  BY LenProperties
<1> HIDE DEF s
<1>2. /\ t \in Seq(Scheduled) /\ Len(t) = 1 + n
      /\ \A k \in 1..(1 + n) : t[k] = IF k <= 1 THEN s[k] ELSE d[k - 1]
  BY <1>0, <1>1, ConcatProperties
<1>3. DOMAIN t = 1..(n + 1) /\ Len(t) = n + 1
  BY <1>2, LenProperties
<1>4. /\ Range(t) = Range(s) \cup Range(d)
      /\ Sorted(s) /\ Sorted(d) /\ (\A b \in Range(s), c \in Range(d) :
             Rank(b) < Rank(c) \/ (b \in Values /\ c \in Values)) => Sorted(t)
  BY <1>1, JoinedCommands
<1> HIDE DEF t
<1>5. Range(s) = {v}
  BY <1>1 DEF Range
<1>6. Sorted(s)
  BY <1>1 DEF Sorted
<1>7. \A c \in Range(d) : Rank(v) < Rank(c) \/ c \in Values
  <2>1. \A c \in Range(d) : c \in Scheduled
    BY <1>0, ElementOfSeq DEF Range
  <2>2. \A c \in Scheduled : c \in Values \/ Rank(c) > 0
    BY Ranks DEF Scheduled
  <2> QED
    BY <2>1, <2>2, Ranks
<1>8. t[1] = v /\ \A k \in 1..n : k + 1 \in 1..(n + 1) /\ t[k + 1] = d[k]
  BY <1>1, <1>2
<1>9. \A k \in 1..(n + 1) : k = 1 \/ (k - 1 \in 1..n /\ t[k] = d[k - 1])
  BY <1>2
<1> QED
  BY <1>0, <1>2, <1>3, <1>4, <1>5, <1>6, <1>7, <1>8, <1>9 DEF s, t

(* What remains of __init__. *)
Todos ==
    {<<"real_host", "helpers", "netns", "cgroup", "sysctl", "sshd", "pipe">>,
     <<"helpers", "netns", "cgroup", "sysctl", "sshd", "pipe">>,
     <<"netns", "cgroup", "sysctl", "sshd", "pipe">>, <<"cgroup", "sysctl", "sshd", "pipe">>,
     <<"sysctl", "sshd", "pipe">>, <<"sshd", "pipe">>,
     <<"real_host", "helpers", "netns", "docker", "pipe">>,
     <<"helpers", "netns", "docker", "pipe">>, <<"netns", "docker", "pipe">>,
     <<"docker", "pipe">>, <<"pipe">>, <<>>}

StepNames == {"real_host", "helpers", "netns", "cgroup", "sysctl", "sshd", "docker", "pipe"}

(* The order of the steps. *)
LEMMA TodoSteps ==
    ASSUME NEW t \in Todos, t # <<>>
    PROVE  /\ Head(t) \in StepNames
           /\ Tail(t) \in Todos
           /\ Head(t) = "pipe" <=> Tail(t) = <<>>
           /\ Head(t) = "real_host" => Head(Tail(t)) = "helpers"
           /\ Head(t) = "helpers" => Head(Tail(t)) = "netns"
           /\ Head(t) = "netns" => Head(Tail(t)) \in {"cgroup", "docker"}
           /\ Head(t) = "cgroup" => Head(Tail(t)) = "sysctl"
           /\ Head(t) = "sysctl" => Head(Tail(t)) = "sshd"
           /\ Head(t) \in {"sshd", "docker"} => Head(Tail(t)) = "pipe"
<1>1. CASE t = <<"real_host", "helpers", "netns", "cgroup", "sysctl", "sshd", "pipe">>
  BY <1>1 DEF Todos, StepNames
<1>2. CASE t = <<"helpers", "netns", "cgroup", "sysctl", "sshd", "pipe">>
  BY <1>2 DEF Todos, StepNames
<1>3. CASE t = <<"netns", "cgroup", "sysctl", "sshd", "pipe">>
  BY <1>3 DEF Todos, StepNames
<1>4. CASE t = <<"cgroup", "sysctl", "sshd", "pipe">>
  BY <1>4 DEF Todos, StepNames
<1>5. CASE t = <<"sysctl", "sshd", "pipe">>
  BY <1>5 DEF Todos, StepNames
<1>6. CASE t = <<"sshd", "pipe">>
  BY <1>6 DEF Todos, StepNames
<1>7. CASE t = <<"real_host", "helpers", "netns", "docker", "pipe">>
  BY <1>7 DEF Todos, StepNames
<1>8. CASE t = <<"helpers", "netns", "docker", "pipe">>
  BY <1>8 DEF Todos, StepNames
<1>9. CASE t = <<"netns", "docker", "pipe">>
  BY <1>9 DEF Todos, StepNames
<1>10. CASE t = <<"docker", "pipe">>
  BY <1>10 DEF Todos, StepNames
<1>11. CASE t = <<"pipe">>
  BY <1>11 DEF Todos, StepNames
<1> QED
  BY <1>1, <1>2, <1>3, <1>4, <1>5, <1>6, <1>7, <1>8, <1>9, <1>10, <1>11 DEF Todos

(* The types, with the sequences that the steps can leave. *)
LifeTyped ==
    /\ stage \in {"init", "ready", "cleanup", "closed", "failed", "gone"}
    /\ todo \in Todos
    /\ real \subseteq Things
    /\ del_cmds \in Seq(Scheduled)
    /\ next \in 0..(Len(del_cmds) + 1)
    /\ back \in {"closed", "failed", "gone"}
    /\ pipe \in {"none", "armed", "running", "reading", "ended"}
    /\ channels \in {"none", "open", "closed"}
    /\ setting \in Values /\ calls \in 0..MaxCalls
    /\ remote \in Values \cup {"nothing"}
    /\ excused \subseteq Things \cup {"setting"}

(* deque of del_cmds: the values, then the commands of the last step first. *)
Ordered == Sorted(del_cmds)

(* What a host under construction has made and scheduled. *)
Exactly(commands, things) == Range(del_cmds) = commands /\ real = things

(* What every host has before its cgroup or its container. *)
Base == {"helpers", "netns", "etc"}

(* Each step has made its things and scheduled its commands. *)
Progress ==
    stage = "init" =>
        /\ todo # <<>> /\ next = 0 /\ excused = {}
        /\ \/ Head(todo) \in {"real_host", "helpers"} /\ Exactly({}, {})
           \/ Head(todo) = "netns" /\ Exactly({"helpers"}, {"helpers"})
           \/ Head(todo) \in {"cgroup", "docker"} /\ Exactly(Base \cup {"kill"}, Base)
           \/ /\ Head(todo) \in {"sysctl", "sshd"}
              /\ Exactly(Base \cup {"kill", "sync", "cgroup"}, Base \cup {"cgroup"})
           \/ /\ Head(todo) = "pipe"
              /\ \/ Exactly(Base \cup {"kill", "sync", "cgroup"}, Base \cup {"cgroup", "sshd"})
                 \/ Exactly(Base \cup {"kill", "stop", "container"},
                            Base \cup {"container", "sshd"})

Has(c) == \E k \in DOMAIN del_cmds : del_cmds[k] = c

(* A cleanup under way still comes to command c; another begins with the first. *)
Ahead(c) == \E k \in DOMAIN del_cmds : del_cmds[k] = c /\ (stage = "cleanup" => k >= next)

(* The thread of the pipe came too late to be ended: it keeps the host. *)
Stuck ==
    /\ pipe \in {"running", "reading"} /\ "nc" \in real /\ channels # "closed"
    /\ \/ stage = "closed"
       \/ stage = "cleanup" /\ back = "closed" /\ next > 0 /\ ~Ahead("kill")

(* __init__ has not returned; the destructor is at work or has been. *)
Constructing == stage \in {"init", "failed"} \/ (stage = "cleanup" /\ back = "failed")
Dying == stage = "gone" \/ (stage = "cleanup" /\ back = "gone")

(* The pipe of a host and its socket; no thread uses a host that is not yet   *)
(* there or no longer there.                                                  *)
Pipes ==
    /\ Constructing => pipe = "none" /\ remote = "nothing"
    /\ Dying => pipe \in {"none", "ended"} /\ remote = "nothing"
    /\ pipe \in {"none", "armed"} => "nc" \notin real /\ "socket" \notin real
    /\ pipe \in {"none", "armed", "running"} => channels = "none"
    /\ pipe # "none" /\ Has("kill") => Has("socket")
    /\ stage = "ready" \/ (stage = "cleanup" /\ back = "closed" /\ next = 0) => Has("kill")

(* What is on the real host and should go. *)
Leftover == real \ excused

(* What is left has its command ahead, and what that needs is there. *)
Undoable ==
    /\ \A x \in {"helpers", "netns", "etc", "cgroup", "container"} \cap Leftover : Ahead(x)
    /\ "container" \in Leftover /\ "sshd" \in real => Ahead("stop")
    /\ "sshd" \in Leftover =>
          Ahead("kill") /\ "netns" \in real /\ {"cgroup", "container"} \cap real # {}
    /\ "nc" \in Leftover => Stuck \/ (Ahead("kill") /\ "netns" \in real)
    /\ "socket" \in Leftover => Stuck \/ Ahead("socket")

(* The last value that cleanup restores is the first one. *)
Restorable ==
    "setting" \notin excused =>
        /\ \A k \in DOMAIN del_cmds :
              /\ del_cmds[k] \in Values
              /\ \A j \in DOMAIN del_cmds : j > k => del_cmds[j] \notin Values
              => del_cmds[k] = "original"
        /\ remote = "nothing" => setting = "original" \/ \E v \in Values : Ahead(v)
        /\ remote # "nothing" =>
              \/ remote = "original" \/ \E v \in Values : Has(v)
              \/ stage = "closed" /\ del_cmds = <<>>

LifeInv == LifeTyped /\ Ordered /\ Progress /\ Pipes /\ Undoable /\ Restorable

(* Commands of del_cmds as a set. *)
LEMMA HasRange == \A c : Has(c) <=> c \in Range(del_cmds)
  BY DEF Has, Range

LEMMA HasRangePrime == \A c : Has(c)' <=> c \in Range(del_cmds')
  BY DEF Has, Range

(* A host that has made nothing. *)
LEMMA InitLifeInv == LifeInit => LifeInv
<1> SUFFICES ASSUME LifeInit PROVE LifeInv
  OBVIOUS
<1>1. /\ del_cmds = <<>> /\ <<>> \in Seq(Scheduled) /\ Len(<<>>) = 0
      /\ DOMAIN del_cmds = {} /\ Range(del_cmds) = {}
  BY DEF LifeInit, Range
<1>2. LifeTyped
  BY <1>1, HostLifeAssumption DEF LifeInit, LifeTyped, Todos, Steps, DockerSteps
<1>3. Ordered
  BY <1>1 DEF Ordered, Sorted
<1>4. Progress
  <2>1. todo # <<>> /\ Head(todo) = "real_host"
    BY DEF LifeInit, Steps, DockerSteps
  <2> QED
    BY <1>1, <2>1 DEF LifeInit, Progress, Exactly
<1>5. Pipes
  BY DEF LifeInit, Pipes, Dying
<1>6. Undoable
  BY DEF LifeInit, Undoable, Leftover
<1>7. Restorable
  BY <1>1 DEF LifeInit, Restorable
<1> QED
  BY <1>2, <1>3, <1>4, <1>5, <1>6, <1>7 DEF LifeInv

(* What a step schedules. *)
Adds(s) ==
    CASE s = "helpers" -> {"helpers"}
      [] s = "netns"   -> {"kill", "netns", "etc"}
      [] s = "cgroup"  -> {"sync", "cgroup"}
      [] s = "docker"  -> {"stop", "container"}
      [] s = "pipe"    -> {"socket"}
      [] OTHER         -> {}

(* A step that adds at most a command of its own to those of a host under construction ... *)
LEMMA ScheduleCommands ==
    ASSUME LifeInv, stage = "init"
    PROVE  /\ Schedule(Head(todo)) \in Seq(Scheduled)
           /\ Sorted(Schedule(Head(todo)))
           /\ Range(Schedule(Head(todo))) = Range(del_cmds) \cup Adds(Head(todo))
<1> DEFINE s == Head(todo)
           d == del_cmds
<1> SUFFICES /\ Schedule(s) \in Seq(Scheduled)
             /\ Sorted(Schedule(s))
             /\ Range(Schedule(s)) = Range(d) \cup Adds(s)
  OBVIOUS
<1>0. d \in Seq(Scheduled) /\ Sorted(d) /\ s \in StepNames
  BY TodoSteps DEF LifeInv, LifeTyped, Ordered, Progress
<1> DEFINE a == <<"helpers">>  b == <<"kill", "netns", "etc">>  c == <<"sync", "cgroup">>
           e == <<"stop", "container">>  f == <<"socket">>
<1>a. /\ s = "helpers" => Adds(s) = {"helpers"}
      /\ s = "netns" => Adds(s) = {"kill", "netns", "etc"}
      /\ s = "cgroup" => Adds(s) = {"sync", "cgroup"}
      /\ s = "docker" => Adds(s) = {"stop", "container"}
      /\ s = "pipe" => Adds(s) = {"socket"}
      /\ s \in {"real_host", "sysctl", "sshd"} => Adds(s) = {}
  BY DEF Adds
<1>1. /\ a \in Seq(Scheduled) /\ b \in Seq(Scheduled) /\ c \in Seq(Scheduled)
      /\ e \in Seq(Scheduled) /\ f \in Seq(Scheduled)
  BY DEF Scheduled
<1>2. /\ Sorted(a) /\ Sorted(b) /\ Sorted(c) /\ Sorted(e) /\ Sorted(f)
  BY Ranks DEF Sorted
<1>3. /\ Range(a) = {"helpers"} /\ Range(b) = {"kill", "netns", "etc"}
      /\ Range(c) = {"sync", "cgroup"}
      /\ Range(e) = {"stop", "container"} /\ Range(f) = {"socket"}
  BY DEF Range
<1>4. /\ s = "helpers" => Schedule(s) = a \o d
      /\ s = "netns" => Schedule(s) = b \o d
      /\ s = "cgroup" => Schedule(s) = d \o c
      /\ s = "docker" => Schedule(s) = e \o d
      /\ s = "pipe" => Schedule(s) = d \o f
      /\ s \in {"real_host", "sysctl", "sshd"} => Schedule(s) = d
  BY DEF Schedule
<1> HIDE DEF a, b, c, d, e, f, s
<1>5. /\ s \in {"real_host", "helpers"} => Range(d) = {}
      /\ s = "netns" => Range(d) = {"helpers"}
      /\ s \in {"cgroup", "docker"} => Range(d) = {"kill", "netns", "etc", "helpers"}
      /\ s = "pipe" => Range(d) \subseteq Scheduled \ {"socket"} /\ Range(d) \cap Values = {}
  BY NotValues DEF LifeInv, Progress, Exactly, Base, Scheduled, s, d
<1>6. CASE s = "helpers"
  <2>1. \A x \in Range(a), y \in Range(d) : Rank(x) < Rank(y) \/ (x \in Values /\ y \in Values)
    BY <1>5, <1>6
  <2>2. /\ a \o d \in Seq(Scheduled) /\ Sorted(a \o d)
        /\ Range(a \o d) = Range(a) \cup Range(d)
    BY <1>0, <1>1, <1>2, <2>1, JoinedCommands
  <2> QED
    BY <1>a, <1>3, <1>4, <1>6, <2>2
<1>7. CASE s = "netns"
  <2>1. \A x \in Range(b), y \in Range(d) : Rank(x) < Rank(y) \/ (x \in Values /\ y \in Values)
    BY <1>3, <1>5, <1>7, Ranks
  <2>2. /\ b \o d \in Seq(Scheduled) /\ Sorted(b \o d)
        /\ Range(b \o d) = Range(b) \cup Range(d)
    BY <1>0, <1>1, <1>2, <2>1, JoinedCommands
  <2> QED
    BY <1>a, <1>3, <1>4, <1>7, <2>2
<1>8. CASE s = "cgroup"
  <2>1. \A x \in Range(d), y \in Range(c) : Rank(x) < Rank(y) \/ (x \in Values /\ y \in Values)
    BY <1>3, <1>5, <1>8, Ranks
  <2>2. /\ d \o c \in Seq(Scheduled) /\ Sorted(d \o c)
        /\ Range(d \o c) = Range(d) \cup Range(c)
    BY <1>0, <1>1, <1>2, <2>1, JoinedCommands
  <2> QED
    BY <1>a, <1>3, <1>4, <1>8, <2>2
<1>9. CASE s = "docker"
  <2>1. \A x \in Range(e), y \in Range(d) : Rank(x) < Rank(y) \/ (x \in Values /\ y \in Values)
    BY <1>3, <1>5, <1>9, Ranks
  <2>2. /\ e \o d \in Seq(Scheduled) /\ Sorted(e \o d)
        /\ Range(e \o d) = Range(e) \cup Range(d)
    BY <1>0, <1>1, <1>2, <2>1, JoinedCommands
  <2> QED
    BY <1>a, <1>3, <1>4, <1>9, <2>2
<1>10. CASE s = "pipe"
  <2>1. \A x \in Range(d), y \in Range(f) : Rank(x) < Rank(y) \/ (x \in Values /\ y \in Values)
    BY <1>3, <1>5, <1>10, Ranks DEF Scheduled
  <2>2. /\ d \o f \in Seq(Scheduled) /\ Sorted(d \o f)
        /\ Range(d \o f) = Range(d) \cup Range(f)
    BY <1>0, <1>1, <1>2, <2>1, JoinedCommands
  <2> QED
    BY <1>a, <1>3, <1>4, <1>10, <2>2
<1>11. CASE s \in {"real_host", "sysctl", "sshd"}
  BY <1>a, <1>0, <1>4, <1>11
<1> QED
  BY <1>0, <1>6, <1>7, <1>8, <1>9, <1>10, <1>11 DEF StepNames

(* Outside a running cleanup every scheduled command is ahead. *)
LEMMA AheadHas ==
    ASSUME LifeTyped, NEW c
    PROVE  /\ Ahead(c) => c \in Range(del_cmds)
           /\ stage # "cleanup" \/ next = 0 => (Ahead(c) <=> c \in Range(del_cmds))
<1>1. \A k \in DOMAIN del_cmds : k >= 0
  BY LenProperties DEF LifeTyped
<1> QED
  BY <1>1 DEF Ahead, Range

LEMMA AheadHasPrime ==
    ASSUME LifeTyped', stage' # "cleanup" \/ next' = 0
    PROVE  \A c : Ahead(c)' <=> c \in Range(del_cmds')
<1>1. \A k \in DOMAIN del_cmds' : k >= 0
  BY LenProperties DEF LifeTyped
<1> QED
  BY <1>1 DEF Ahead, Range

(* __init__: a step makes its things and then schedules what undoes them. *)
LEMMA StepOkLife == ASSUME LifeInv, StepOk PROVE LifeInv'
<1> DEFINE s == Head(todo)
<1>0. /\ stage = "init" /\ todo # <<>>
      /\ real' = real \cup Makes(s)
      /\ del_cmds' = Schedule(s)
      /\ pipe' = IF s = "pipe" THEN "armed" ELSE pipe
      /\ todo' = Tail(todo)
      /\ stage' = IF Tail(todo) = <<>> THEN "ready" ELSE "init"
      /\ UNCHANGED <<next, back, channels, excused, setting, calls, remote>>
      /\ next = 0 /\ excused = {}
  BY DEF StepOk, sysctlVars, LifeInv, Progress
<1>1. /\ s \in StepNames
      /\ Tail(todo) \in Todos
      /\ s = "pipe" <=> Tail(todo) = <<>>
      /\ s = "real_host" => Head(Tail(todo)) = "helpers"
      /\ s = "helpers" => Head(Tail(todo)) = "netns"
      /\ s = "netns" => Head(Tail(todo)) \in {"cgroup", "docker"}
      /\ s = "cgroup" => Head(Tail(todo)) = "sysctl"
      /\ s = "sysctl" => Head(Tail(todo)) = "sshd"
      /\ s \in {"sshd", "docker"} => Head(Tail(todo)) = "pipe"
  BY <1>0, TodoSteps DEF LifeInv, LifeTyped
<1>2. /\ del_cmds' \in Seq(Scheduled) /\ Sorted(del_cmds')
      /\ Range(del_cmds') = Range(del_cmds) \cup Adds(s)
  BY <1>0, ScheduleCommands
<1>3. /\ \/ s \in {"real_host", "helpers"} /\ Exactly({}, {})
         \/ s = "netns" /\ Exactly({"helpers"}, {"helpers"})
         \/ s \in {"cgroup", "docker"} /\ Exactly(Base \cup {"kill"}, Base)
         \/ /\ s \in {"sysctl", "sshd"}
            /\ Exactly(Base \cup {"kill", "sync", "cgroup"}, Base \cup {"cgroup"})
         \/ /\ s = "pipe"
            /\ \/ Exactly(Base \cup {"kill", "sync", "cgroup"}, Base \cup {"cgroup", "sshd"})
               \/ Exactly(Base \cup {"kill", "stop", "container"}, Base \cup {"container", "sshd"})
  BY <1>0 DEF LifeInv, Progress
<1>4. /\ s \in {"real_host", "sysctl"} => Adds(s) = {} /\ Makes(s) = {}
      /\ s = "helpers" => Adds(s) = {"helpers"} /\ Makes(s) = {"helpers"}
      /\ s = "netns" => Adds(s) = {"kill", "netns", "etc"} /\ Makes(s) = {"netns", "etc"}
      /\ s = "cgroup" => Adds(s) = {"sync", "cgroup"} /\ Makes(s) = {"cgroup"}
      /\ s = "sshd" => Adds(s) = {} /\ Makes(s) = {"sshd"}
      /\ s = "docker" => Adds(s) = {"stop", "container"} /\ Makes(s) = {"container", "sshd"}
      /\ s = "pipe" => Adds(s) = {"socket"} /\ Makes(s) = {}
  BY DEF Adds, Makes
<1> HIDE DEF s
<1>5. CASE s # "pipe"
  <2>1. stage' = "init" /\ pipe' = pipe /\ pipe = "none" /\ remote = "nothing" /\ channels = "none"
    BY <1>0, <1>1, <1>5 DEF LifeInv, Pipes, Constructing
  <2>2. \/ Head(todo') \in {"real_host", "helpers"} /\ Exactly({}, {})'
        \/ Head(todo') = "netns" /\ Exactly({"helpers"}, {"helpers"})'
        \/ Head(todo') \in {"cgroup", "docker"} /\ Exactly(Base \cup {"kill"}, Base)'
        \/ /\ Head(todo') \in {"sysctl", "sshd"}
           /\ Exactly(Base \cup {"kill", "sync", "cgroup"}, Base \cup {"cgroup"})'
        \/ /\ Head(todo') = "pipe"
           /\ \/ Exactly(Base \cup {"kill", "sync", "cgroup"}, Base \cup {"cgroup", "sshd"})'
              \/ Exactly(Base \cup {"kill", "stop", "container"}, Base \cup {"container", "sshd"})'
    <3>1. CASE s = "real_host"
      BY <1>0, <1>1, <1>2, <1>3, <1>4, <3>1 DEF Exactly
    <3>2. CASE s = "helpers"
      BY <1>0, <1>1, <1>2, <1>3, <1>4, <3>2 DEF Exactly
    <3>3. CASE s = "netns"
      BY <1>0, <1>1, <1>2, <1>3, <1>4, <3>3 DEF Exactly, Base
    <3>4. CASE s = "cgroup"
      BY <1>0, <1>1, <1>2, <1>3, <1>4, <3>4 DEF Exactly, Base
    <3>5. CASE s = "sysctl"
      BY <1>0, <1>1, <1>2, <1>3, <1>4, <3>5 DEF Exactly, Base
    <3>6. CASE s = "sshd"
      BY <1>0, <1>1, <1>2, <1>3, <1>4, <3>6 DEF Exactly, Base
    <3>7. CASE s = "docker"
      BY <1>0, <1>1, <1>2, <1>3, <1>4, <3>7 DEF Exactly, Base
    <3> QED
      BY <1>1, <1>5, <3>1, <3>2, <3>3, <3>4, <3>5, <3>6, <3>7 DEF StepNames
  <2>3. Progress'
    BY <1>0, <1>1, <1>5, <2>2 DEF Progress
  <2>4. LifeTyped'
    BY <1>0, <1>1, <1>2, <2>1, <2>2 DEF LifeInv, LifeTyped, Exactly, Base, Things
  <2>5. Pipes'
    BY <1>0, <2>1, <2>2 DEF Pipes, Constructing, Dying, Exactly, Base
  <2>6. \A c : Ahead(c)' <=> c \in Range(del_cmds')
    BY <2>1, <2>4, AheadHasPrime
  <2>7. Undoable'
    BY <1>0, <2>2, <2>6 DEF Undoable, Leftover, Exactly, Base
  <2>8. setting = "original"
    BY <1>0, <1>3, <2>1, HasRange, NotValues, AheadHas DEF LifeInv, Restorable, Exactly, Base
  <2>9. Range(del_cmds') \cap Values = {}
    BY <2>2, NotValues DEF Exactly, Base
  <2>10. Restorable'
    BY <1>0, <2>1, <2>8, <2>9 DEF Restorable, Range
  <2> QED
    BY <1>2, <2>3, <2>4, <2>5, <2>7, <2>10 DEF LifeInv, Ordered
<1>6. CASE s = "pipe"
  <2>1. /\ stage' = "ready" /\ pipe' = "armed" /\ pipe = "none" /\ remote = "nothing"
        /\ channels = "none" /\ todo' = <<>> /\ <<>> \in Todos
    BY <1>0, <1>1, <1>6 DEF LifeInv, Pipes, Constructing, Todos
  <2>2. \/ Exactly(Base \cup {"kill", "sync", "cgroup", "socket"}, Base \cup {"cgroup", "sshd"})'
        \/ Exactly(Base \cup {"kill", "stop", "container", "socket"},
                   Base \cup {"container", "sshd"})'
    BY <1>0, <1>2, <1>3, <1>4, <1>6 DEF Exactly
  <2>3. Progress'
    BY <2>1 DEF Progress
  <2>4. LifeTyped'
    <3>1. real' \subseteq Things
      BY <2>2 DEF Exactly, Base, Things
    <3>2. next' \in 0..(Len(del_cmds') + 1)
      BY <1>0, <1>2, LenProperties
    <3> QED
      BY <1>0, <1>2, <2>1, <3>1, <3>2 DEF LifeInv, LifeTyped
  <2>5. Pipes'
    BY <1>0, <2>1, <2>2, HasRangePrime DEF Pipes, Constructing, Dying, Exactly, Base
  <2>6. \A c : Ahead(c)' <=> c \in Range(del_cmds')
    BY <2>1, <2>4, AheadHasPrime
  <2>7. Undoable'
    BY <1>0, <2>2, <2>6 DEF Undoable, Leftover, Exactly, Base
  <2>8. setting = "original"
    BY <1>0, <1>3, <2>1, HasRange, NotValues, AheadHas DEF LifeInv, Restorable, Exactly, Base
  <2>9. Range(del_cmds') \cap Values = {}
    BY <2>2, NotValues DEF Exactly, Base
  <2>10. Restorable'
    BY <1>0, <2>1, <2>8, <2>9 DEF Restorable, Range
  <2> QED
    BY <1>2, <2>3, <2>4, <2>5, <2>7, <2>10 DEF LifeInv, Ordered
<1> QED
  BY <1>5, <1>6

(* A command of a step fails, or there is no core: the host is left as it is, *)
(* with what the step has made.                                               *)
LEMMA StepFailsLife == ASSUME LifeInv, StepFails PROVE LifeInv'
<1>1. PICK part \in SUBSET Makes(Head(todo)) :
          /\ Head(todo) = "docker" /\ "sshd" \in part => "container" \in part
          /\ real' = real \cup part
          /\ excused' = excused \cup (part \ UNION {Undoes(c) : c \in Range(del_cmds)})
  BY DEF StepFails
<1>2. /\ stage = "init" /\ todo # <<>> /\ Head(todo) # "pipe" /\ stage' = "failed"
      /\ UNCHANGED <<del_cmds, next, back, todo, pipe, channels, setting, calls, remote>>
      /\ next = 0 /\ excused = {} /\ Head(todo) \in StepNames
  BY TodoSteps DEF StepFails, hostVars, sysctlVars, LifeInv, Progress, LifeTyped
<1>a. part \ UNION {Undoes(c) : c \in Range(del_cmds)} = part \ Processes
  <2>1. \A c \in {"helpers", "netns", "etc", "sync", "cgroup", "kill"} :
          Undoes(c) = CASE c = "kill" -> Processes [] c = "sync" -> {} [] OTHER -> {c}
    BY DEF Undoes
  <2>2. CASE Head(todo) \in {"real_host", "sysctl"}
    BY <1>1, <2>2 DEF Makes
  <2>3. CASE Head(todo) = "helpers"
    <3>1. Range(del_cmds) = {} /\ part \subseteq {"helpers"}
      BY <1>1, <1>2, <2>3 DEF LifeInv, Progress, Exactly, Makes
    <3> QED
      BY <3>1 DEF Processes
  <2>4. CASE Head(todo) = "netns"
    <3>1. Range(del_cmds) = {"helpers"} /\ part \subseteq {"netns", "etc"}
      BY <1>1, <1>2, <2>4 DEF LifeInv, Progress, Exactly, Makes
    <3>2. UNION {Undoes(c) : c \in Range(del_cmds)} = {"helpers"}
      BY <2>1, <3>1
    <3> QED
      BY <3>1, <3>2 DEF Processes
  <2>5. CASE Head(todo) \in {"cgroup", "docker"}
    <3>1. /\ Range(del_cmds) = Base \cup {"kill"}
          /\ part \subseteq {"cgroup"} \/ part \subseteq {"container", "sshd"}
      BY <1>1, <1>2, <2>5 DEF LifeInv, Progress, Exactly, Makes
    <3>2. UNION {Undoes(c) : c \in Range(del_cmds)} = Base \cup Processes
      BY <2>1, <3>1 DEF Base
    <3> QED
      BY <3>1, <3>2 DEF Processes, Base
  <2>6. CASE Head(todo) = "sshd"
    <3>1. Range(del_cmds) = Base \cup {"kill", "sync", "cgroup"} /\ part \subseteq {"sshd"}
      BY <1>1, <1>2, <2>6 DEF LifeInv, Progress, Exactly, Makes
    <3>2. "kill" \in Range(del_cmds) /\ Undoes("kill") = Processes
      BY <2>1, <3>1
    <3> QED
      BY <3>1, <3>2 DEF Processes
  <2> QED
    BY <1>2, <2>2, <2>3, <2>4, <2>5, <2>6 DEF StepNames
<1>b. excused' = excused \cup (part \ Processes)
  BY <1>1, <1>a
<1>3. pipe = "none" /\ remote = "nothing" /\ channels = "none"
  BY <1>2 DEF LifeInv, Pipes, Constructing
<1>4. part \subseteq Things \ {"nc", "socket"}
  BY <1>1 DEF Makes, Things
<1>5. LifeTyped' /\ Ordered' /\ Progress'
  BY <1>1, <1>b, <1>2, <1>4 DEF LifeInv, LifeTyped, Ordered, Progress
<1>6. Pipes'
  BY <1>1, <1>b, <1>2, <1>3, <1>4 DEF LifeInv, Pipes, Constructing, Dying, Has
<1>7. \A c : Ahead(c)' <=> c \in Range(del_cmds)
  BY <1>2, <1>5, AheadHasPrime
<1>8. Undoable'
  <2>1. CASE Head(todo) \in {"real_host", "helpers", "netns", "sysctl", "cgroup"}
    BY <1>1, <1>b, <1>2, <1>7, <2>1
       DEF LifeInv, Progress, Exactly, Base, Undoable, Leftover, Makes, Processes
  <2>2. CASE Head(todo) = "sshd"
    BY <1>1, <1>b, <1>2, <1>7, <2>2
       DEF LifeInv, Progress, Exactly, Base, Undoable, Leftover, Makes, Processes
  <2>3. CASE Head(todo) = "docker"
    BY <1>1, <1>b, <1>2, <1>7, <2>3
       DEF LifeInv, Progress, Exactly, Base, Undoable, Leftover, Makes, Processes
  <2> QED
    BY <1>2, <2>1, <2>2, <2>3 DEF StepNames
<1>9. Restorable'
  BY <1>1, <1>b, <1>2, <1>3, <1>7, AheadHas DEF LifeInv, Restorable
<1> QED
  BY <1>5, <1>6, <1>8, <1>9 DEF LifeInv

(* get_unused_core has no core: the group, which is there, is undone too. *)
LEMMA NoCoreLeftLife == ASSUME LifeInv, NoCoreLeft PROVE LifeInv'
<1>1. /\ stage = "init" /\ todo # <<>>
      /\ \/ Head(todo) = "cgroup" /\ real' = real \cup {"cgroup"} /\ del_cmds' = Schedule("cgroup")
         \/ Head(todo) = "docker" /\ UNCHANGED <<real, del_cmds>>
      /\ \/ stage' = "cleanup" /\ next' = 0 /\ back' = "failed"
         \/ stage' = "failed" /\ UNCHANGED <<next, back>>
      /\ UNCHANGED <<excused, todo, pipe, channels, setting, calls, remote>>
      /\ next = 0 /\ excused = {}
  BY DEF NoCoreLeft, StartCleanup, Makes, hostVars, sysctlVars, LifeInv, Progress
<1>2. pipe = "none" /\ remote = "nothing" /\ channels = "none"
  BY <1>1 DEF LifeInv, Pipes, Constructing
<1>3. /\ del_cmds' \in Seq(Scheduled) /\ Sorted(del_cmds')
      /\ \/ Range(del_cmds') = Base \cup {"kill"} /\ real' = Base
         \/ Range(del_cmds') = Base \cup {"kill", "sync", "cgroup"} /\ real' = Base \cup {"cgroup"}
  BY <1>1, ScheduleCommands DEF LifeInv, LifeTyped, Ordered, Progress, Exactly, Adds
<1>4. LifeTyped' /\ Ordered' /\ Progress'
  BY <1>1, <1>3 DEF LifeInv, LifeTyped, Ordered, Progress, Base, Things
<1>5. Pipes'
  BY <1>1, <1>2, <1>3 DEF LifeInv, Pipes, Constructing, Dying, Base
<1>6. \A c : Ahead(c)' <=> c \in Range(del_cmds')
  BY <1>1, <1>4, AheadHasPrime
<1>7. Undoable'
  BY <1>1, <1>3, <1>6 DEF Undoable, Leftover, Base
<1>8. setting = "original"
  BY <1>1, <1>2, NotValues, AheadHas DEF LifeInv, Restorable, Progress, Exactly, Base
<1>9. Range(del_cmds') \cap Values = {}
  BY <1>3, NotValues DEF Base
<1>10. Restorable'
  BY <1>1, <1>2, <1>8, <1>9 DEF Restorable, Range
<1> QED
  BY <1>4, <1>5, <1>7, <1>10 DEF LifeInv

(* A step that neither begins nor ends a cleanup and schedules nothing: what  *)
(* is ahead stays there.                                                      *)
LEMMA SameAhead ==
    ASSUME UNCHANGED <<stage, del_cmds, next>>
    PROVE  \A c : (Ahead(c)' <=> Ahead(c)) /\ (Has(c)' <=> Has(c))
  BY DEF Ahead, Has

(* A value is scheduled to be restored before all that is scheduled; a loop   *)
(* that goes through the commands is left.                                    *)
LEMMA PushLife ==
    ASSUME LifeInv, NEW v \in Values, del_cmds' = <<v>> \o del_cmds,
           \/ /\ stage \in {"ready", "closed"} \/ (stage = "cleanup" /\ back = "closed" /\ next = 0)
              /\ UNCHANGED <<stage, next>>
           \/ stage = "cleanup" /\ back = "closed" /\ stage' = "closed" /\ UNCHANGED next,
           UNCHANGED <<real, todo, pipe, channels, back, excused>>,
           setting' \in Values, calls' \in 0..MaxCalls, remote' = "nothing",
           "setting" \notin excused =>
               v = "original" \/ \E k \in DOMAIN del_cmds : del_cmds[k] \in Values
    PROVE  LifeInv'
<1> DEFINE d == <<v>> \o del_cmds
<1>a. stage' # "cleanup" \/ next' = 0
  OBVIOUS
<1>0. /\ d \in Seq(Scheduled) /\ Len(d) = Len(del_cmds) + 1
      /\ d[1] = v
      /\ \A k \in DOMAIN del_cmds : k + 1 \in DOMAIN d /\ d[k + 1] = del_cmds[k]
      /\ \A k \in DOMAIN d : k = 1 \/ (k - 1 \in DOMAIN del_cmds /\ d[k] = del_cmds[k - 1])
      /\ Range(d) = {v} \cup Range(del_cmds)
      /\ Sorted(d)
  BY Prepended DEF LifeInv, LifeTyped, Ordered
<1>1. del_cmds' = d
  OBVIOUS
<1> HIDE DEF d
<1>2. LifeTyped' /\ Ordered'
  <2>1. Len(del_cmds) \in Nat
    BY LenProperties DEF LifeInv, LifeTyped
  <2>2. next' \in 0..(Len(del_cmds') + 1)
    BY <1>0, <1>1, <2>1 DEF LifeInv, LifeTyped
  <2> QED
    BY <1>0, <1>1, <2>2 DEF LifeInv, LifeTyped, Ordered
<1>3. \A c : Ahead(c)' <=> c \in Range(d)
  BY <1>a, <1>1, <1>2, AheadHasPrime
<1>4. \A c : Ahead(c) => Ahead(c)'
  BY <1>0, <1>3, AheadHas DEF LifeInv
<1>5. Progress'
  BY DEF LifeInv, LifeTyped, Progress
<1>6. Pipes'
  <2>1. \A c : Has(c)' <=> c \in {v} \cup Range(del_cmds)
    BY <1>0, <1>1, HasRangePrime
  <2>2. \A c : Has(c) <=> c \in Range(del_cmds)
    BY HasRange
  <2>3. Has("kill")' <=> Has("kill")
    BY <2>1, <2>2, NotValues
  <2>4. Has("socket")' <=> Has("socket")
    BY <2>1, <2>2, NotValues
  <2>5. stage' \in {"ready", "closed", "cleanup"} /\ (stage' = "cleanup" => back = "closed")
    OBVIOUS
  <2>6. stage' = "ready" \/ (stage' = "cleanup" /\ back = "closed" /\ next' = 0) =>
            stage = "ready" \/ (stage = "cleanup" /\ back = "closed" /\ next = 0)
    OBVIOUS
  <2>7. stage' = "ready" => stage = "ready"
    OBVIOUS
  <2> HIDE DEF Has
  <2> QED
    BY <2>3, <2>4, <2>5, <2>6, <2>7 DEF LifeInv, Pipes, Constructing, Dying
<1>7. Undoable'
  <2>1. Stuck => Stuck'
    BY DEF Stuck, LifeInv, LifeTyped
  <2> QED
    BY <1>4, <2>1 DEF LifeInv, Undoable, Leftover
<1>8. Restorable'
  <2>1. Ahead(v)'
    BY <1>0, <1>3
  <2>2. ASSUME "setting" \notin excused, NEW k \in DOMAIN d, d[k] \in Values,
               \A j \in DOMAIN d : j > k => d[j] \notin Values
        PROVE  d[k] = "original"
    <3>0. DOMAIN del_cmds \subseteq Nat /\ \A j \in DOMAIN del_cmds : j >= 1
      BY LenProperties DEF LifeInv, LifeTyped
    <3>1. CASE k = 1
      <4>1. \A j \in DOMAIN del_cmds : del_cmds[j] \notin Values
        BY <1>0, <2>2, <3>0, <3>1
      <4> QED
        BY <1>0, <2>2, <3>1, <4>1
    <3>2. CASE k - 1 \in DOMAIN del_cmds /\ d[k] = del_cmds[k - 1]
      <4>1. \A j \in DOMAIN del_cmds : j > k - 1 => del_cmds[j] \notin Values
        BY <1>0, <2>2, <3>0, <3>2
      <4> QED
        BY <2>2, <3>2, <4>1 DEF LifeInv, Restorable
    <3> QED
      BY <1>0, <3>1, <3>2
  <2> QED
    BY <1>1, <2>1, <2>2 DEF Restorable
<1> QED
  BY <1>2, <1>5, <1>6, <1>7, <1>8 DEF LifeInv

(* sysctl: the value that it replaced is restored before the older ones. *)
LEMMA SysctlOkLife == ASSUME LifeInv, SysctlOk PROVE LifeInv'
<1>1. /\ stage = "ready" /\ calls < MaxCalls /\ remote = "nothing"
      /\ calls' = calls + 1 /\ setting' \in Values
      /\ del_cmds' = <<setting>> \o del_cmds
      /\ UNCHANGED <<stage, real, next, back, remote, excused, todo, pipe, channels>>
  BY DEF SysctlOk, CanCall, NextSetting, hostVars
<1>2. "setting" \notin excused =>
          setting = "original" \/ \E k \in DOMAIN del_cmds : del_cmds[k] \in Values
  BY <1>1 DEF LifeInv, Restorable, Ahead
<1>3. calls' \in 0..MaxCalls /\ setting \in Values
  BY <1>1, HostLifeAssumption DEF LifeInv, LifeTyped
<1> QED
  BY <1>1, <1>2, <1>3, PushLife

(* sysctl whose command fails: the value may be lost. *)
LEMMA SysctlFailsLife == ASSUME LifeInv, SysctlFails PROVE LifeInv'
<1>1. /\ stage = "ready" /\ calls < MaxCalls /\ remote = "nothing"
      /\ calls' = calls + 1 /\ setting' \in Values
      /\ excused' = excused \cup {"setting"}
      /\ UNCHANGED <<stage, real, del_cmds, next, back, remote, todo, pipe, channels>>
  BY DEF SysctlFails, CanCall, NextSetting, hostVars
<1>2. calls' \in 0..MaxCalls
  BY <1>1, HostLifeAssumption DEF LifeInv, LifeTyped
<1>3. LifeTyped' /\ Ordered' /\ Progress'
  BY <1>1, <1>2 DEF LifeInv, LifeTyped, Ordered, Progress
<1>4. Pipes'
  BY <1>1, SameAhead DEF LifeInv, Pipes, Constructing, Dying
<1>5. Undoable'
  <2>1. Leftover' = Leftover
    BY <1>1, <1>3 DEF Leftover, LifeInv, LifeTyped, Things
  <2> QED
    BY <1>1, <2>1, SameAhead DEF LifeInv, Undoable, Stuck
<1>6. Restorable'
  BY <1>1 DEF Restorable
<1> QED
  BY <1>3, <1>4, <1>5, <1>6 DEF LifeInv

(* A remote sysctl that has not scheduled its command keeps what it read. *)
LEMMA RemoteWriteLife == ASSUME LifeInv, RemoteWrite PROVE LifeInv'
<1>1. /\ \/ stage \in {"ready", "closed"}
         \/ stage = "cleanup" /\ back = "closed"
      /\ calls < MaxCalls /\ remote = "nothing"
      /\ calls' = calls + 1 /\ setting' \in Values /\ remote' = setting
      /\ UNCHANGED <<stage, real, del_cmds, next, back, excused, todo, pipe, channels>>
  BY DEF RemoteWrite, CanCall, NextSetting, hostVars
<1>2. calls' \in 0..MaxCalls
  BY <1>1, HostLifeAssumption DEF LifeInv, LifeTyped
<1>3. LifeTyped' /\ Ordered' /\ Progress'
  BY <1>1, <1>2 DEF LifeInv, LifeTyped, Ordered, Progress
<1>4. Pipes'
  BY <1>1, SameAhead DEF LifeInv, Pipes, Constructing, Dying
<1>5. Undoable'
  BY <1>1, SameAhead DEF LifeInv, Undoable, Stuck, Leftover
<1>6. Restorable'
  <2>1. setting \in Values /\ \A c : Ahead(c) => Has(c)
    BY DEF LifeInv, LifeTyped, Ahead, Has
  <2> QED
    BY <1>1, <2>1, SameAhead, NotValues DEF LifeInv, Restorable
<1> QED
  BY <1>3, <1>4, <1>5, <1>6 DEF LifeInv

(* It schedules its command, in time, in the middle of a cleanup or too late. *)
LEMMA RemoteScheduleLife == ASSUME LifeInv, RemoteSchedule PROVE LifeInv'
<1>0. /\ remote # "nothing" /\ remote \in Values /\ remote' = "nothing"
      /\ UNCHANGED <<real, back, setting, calls, todo, pipe, channels>>
      /\ setting' \in Values /\ calls' \in 0..MaxCalls
      /\ stage \in {"ready", "closed"} \/ (stage = "cleanup" /\ back = "closed")
  BY DEF RemoteSchedule, hostVars, LifeInv, LifeTyped, Pipes, Constructing, Dying
<1>1. CASE /\ \/ stage = "ready"
              \/ stage = "closed" /\ del_cmds # <<>>
              \/ stage = "cleanup" /\ next = 0
           /\ del_cmds' = <<remote>> \o del_cmds
           /\ UNCHANGED <<stage, next, excused>>
  <2>1. "setting" \notin excused =>
            remote = "original" \/ \E k \in DOMAIN del_cmds : del_cmds[k] \in Values
    BY <1>0, <1>1 DEF LifeInv, Restorable, Has
  <2> QED
    BY <1>0, <1>1, <2>1, PushLife
<1>2. CASE /\ stage = "cleanup" /\ next > 0
           /\ del_cmds' = <<remote>> \o del_cmds
           /\ stage' = back
           /\ UNCHANGED <<next, excused>>
  <2>1. "setting" \notin excused =>
            remote = "original" \/ \E k \in DOMAIN del_cmds : del_cmds[k] \in Values
    BY <1>0, <1>2 DEF LifeInv, Restorable, Has
  <2> QED
    BY <1>0, <1>2, <2>1, PushLife
<1>3. CASE /\ stage = "cleanup" /\ next > Len(del_cmds)
           /\ del_cmds' = <<remote>> \o del_cmds
           /\ next' = next + 1
           /\ excused' = excused \cup {"setting"}
           /\ UNCHANGED stage
  <2>1. PICK n \in Nat : n = Len(del_cmds) /\ DOMAIN del_cmds = 1..n
    BY LenProperties DEF LifeInv, LifeTyped
  <2>2. /\ del_cmds' \in Seq(Scheduled) /\ Len(del_cmds') = n + 1 /\ DOMAIN del_cmds' = 1..(n + 1)
        /\ Range(del_cmds') = {remote} \cup Range(del_cmds) /\ Sorted(del_cmds')
    BY <1>0, <1>3, <2>1, Prepended, LenProperties DEF LifeInv, LifeTyped, Ordered
  <2>3. next = n + 1 /\ next' = n + 2
    BY <1>3, <2>1 DEF LifeInv, LifeTyped
  <2>4. LifeTyped' /\ Ordered' /\ Progress'
    BY <1>0, <1>3, <2>2, <2>3 DEF LifeInv, LifeTyped, Ordered, Progress
  <2>5. \A c : ~Ahead(c) /\ ~Ahead(c)'
    BY <1>3, <2>1, <2>2, <2>3 DEF Ahead
  <2>6. Pipes'
    <3>1. \A c : Has(c)' <=> c \in {remote} \cup Range(del_cmds)
      BY <2>2, HasRangePrime
    <3>2. \A c : Has(c) <=> c \in Range(del_cmds)
      BY HasRange
    <3> QED
      BY <1>0, <1>3, <2>3, <3>1, <3>2, NotValues DEF LifeInv, Pipes, Constructing, Dying
  <2>7. Undoable'
    <3>1. Stuck => Stuck'
      BY <1>0, <1>3, <2>3, <2>5 DEF Stuck
    <3>2. Leftover' = Leftover
      BY <1>0, <1>3, <2>4 DEF Leftover, LifeInv, LifeTyped, Things
    <3> QED
      BY <2>5, <3>1, <3>2 DEF LifeInv, Undoable
  <2>8. Restorable'
    BY <1>3 DEF Restorable
  <2> QED
    BY <2>4, <2>6, <2>7, <2>8 DEF LifeInv
<1>4. CASE /\ stage = "closed" /\ del_cmds = <<>>
           /\ excused' = excused \cup {"setting"}
           /\ UNCHANGED <<stage, del_cmds, next>>
  <2>1. LifeTyped' /\ Ordered' /\ Progress'
    BY <1>0, <1>4 DEF LifeInv, LifeTyped, Ordered, Progress
  <2>2. Pipes'
    BY <1>0, <1>4, SameAhead DEF LifeInv, Pipes, Constructing, Dying
  <2>3. Undoable'
    <3>1. Leftover' = Leftover
      BY <1>0, <1>4, <2>1 DEF Leftover, LifeInv, LifeTyped, Things
    <3> QED
      BY <1>0, <1>4, <3>1, SameAhead DEF LifeInv, Undoable, Stuck
  <2>4. Restorable'
    BY <1>4 DEF Restorable
  <2> QED
    BY <2>1, <2>2, <2>3, <2>4 DEF LifeInv
<1> QED
  BY <1>1, <1>2, <1>3, <1>4 DEF RemoteSchedule

(* Cleanup comes to the commands in the order of their ranks. *)
LEMMA AheadAfter ==
    ASSUME LifeInv, NEW b, NEW c, Ahead(b), Has(c), Rank(b) < Rank(c),
           Rank(b) \in Nat, Rank(c) \in Nat, c \notin Values
    PROVE  Ahead(c)
<1>1. PICK j \in DOMAIN del_cmds : del_cmds[j] = b /\ (stage = "cleanup" => j >= next)
  BY DEF Ahead
<1>2. PICK k \in DOMAIN del_cmds : del_cmds[k] = c
  BY DEF Has
<1>3. j \in Nat /\ k \in Nat /\ next \in Nat
  BY LenProperties DEF LifeInv, LifeTyped
<1>4. ~(k < j)
  BY <1>1, <1>2 DEF LifeInv, Ordered, Sorted
<1>5. stage = "cleanup" => k >= next
  BY <1>1, <1>3, <1>4
<1> QED
  BY <1>2, <1>5 DEF Ahead

(* The netcat of a pipe starts: its socket and its end are still ahead, or it *)
(* came too late.                                                             *)
LEMMA PipeRunLife == ASSUME LifeInv, PipeRun PROVE LifeInv'
<1>1. /\ pipe = "armed" /\ pipe' = "running" /\ channels = "none"
      /\ real' = IF "netns" \in real THEN real \cup {"nc", "socket"} ELSE real
      /\ UNCHANGED <<stage, todo, del_cmds, next, back, channels, excused, setting, calls, remote>>
      /\ stage \in {"ready", "closed"} \/ (stage = "cleanup" /\ back = "closed")
  BY DEF PipeRun, sysctlVars, LifeInv, LifeTyped, Pipes, Constructing, Dying
<1>2. LifeTyped' /\ Ordered' /\ Progress'
  BY <1>1 DEF LifeInv, LifeTyped, Ordered, Progress, Things
<1>3. Pipes'
  BY <1>1, SameAhead DEF LifeInv, Pipes, Constructing, Dying
<1>4. ~Stuck
  BY <1>1 DEF Stuck
<1>5. Undoable'
  <2>1. CASE "netns" \notin real
    BY <1>1, <1>4, <2>1, SameAhead DEF LifeInv, Undoable, Leftover
  <2>2. CASE "netns" \in real /\ Ahead("kill")
    <3>1. Has("kill") /\ Has("socket")
      BY <1>1, <2>2 DEF LifeInv, Pipes, Ahead, Has
    <3>2. Ahead("socket")
      BY <2>2, <3>1, AheadAfter, Ranks, NotValues
    <3> QED
      BY <1>1, <1>4, <2>2, <3>2, SameAhead DEF LifeInv, Undoable, Leftover
  <2>3. CASE "netns" \in real /\ ~Ahead("kill")
    <3>1. stage # "ready" /\ (stage = "cleanup" => next > 0)
      BY <1>1, <2>3, AheadHas, HasRange DEF LifeInv, LifeTyped, Pipes
    <3>2. Stuck'
      BY <1>1, <2>3, <3>1, SameAhead DEF Stuck
    <3> QED
      BY <1>1, <1>4, <2>3, <3>2, SameAhead DEF LifeInv, Undoable, Leftover
  <2> QED
    BY <2>1, <2>2, <2>3
<1>6. Restorable'
  BY <1>1, SameAhead DEF LifeInv, Restorable
<1> QED
  BY <1>2, <1>3, <1>5, <1>6 DEF LifeInv

(* Its channels are known. *)
LEMMA PipeSetLife == ASSUME LifeInv, PipeSet PROVE LifeInv'
<1>1. /\ pipe = "running" /\ pipe' = "reading" /\ channels = "none" /\ channels' = "open"
      /\ UNCHANGED <<stage, todo, real, del_cmds, next, back, excused, setting, calls, remote>>
  BY DEF PipeSet, sysctlVars, LifeInv, Pipes
<1>2. LifeTyped' /\ Ordered' /\ Progress'
  BY <1>1 DEF LifeInv, LifeTyped, Ordered, Progress, Exactly
<1>3. Pipes'
  BY <1>1, SameAhead DEF LifeInv, Pipes, Constructing, Dying
<1>4. Undoable'
  BY <1>1, SameAhead DEF LifeInv, Undoable, Leftover, Stuck
<1>5. Restorable'
  BY <1>1, SameAhead DEF LifeInv, Restorable
<1> QED
  BY <1>2, <1>3, <1>4, <1>5 DEF LifeInv

(* Its thread ends. *)
LEMMA PipeEndsLife == ASSUME LifeInv, PipeEnds PROVE LifeInv'
<1>1. /\ pipe = "reading" /\ pipe' = "ended"
      /\ "nc" \notin real
      /\ UNCHANGED <<stage, todo, real, del_cmds, next, back, channels, excused,
                     setting, calls, remote>>
  BY DEF PipeEnds, sysctlVars
<1>2. LifeTyped' /\ Ordered' /\ Progress'
  BY <1>1 DEF LifeInv, LifeTyped, Ordered, Progress, Exactly
<1>3. Pipes'
  BY <1>1, SameAhead DEF LifeInv, Pipes, Constructing, Dying
<1>4. ~Stuck
  BY <1>1 DEF Stuck
<1>5. Undoable'
  BY <1>1, <1>4, SameAhead DEF LifeInv, Undoable, Leftover
<1>6. Restorable'
  BY <1>1, SameAhead DEF LifeInv, Restorable
<1> QED
  BY <1>2, <1>3, <1>5, <1>6 DEF LifeInv

(* close and the destructor begin a cleanup. *)
LEMMA StartCleanupLife ==
    ASSUME LifeInv, NEW then \in {"closed", "gone"}, StartCleanup(then),
           \/ stage = "ready" /\ then = "closed"
           \/ /\ stage \in {"failed", "closed"} /\ then = "gone"
              /\ pipe \in {"none", "ended"} /\ remote = "nothing",
           UNCHANGED <<real, del_cmds, excused, todo, pipe, channels, setting, calls, remote>>
    PROVE  LifeInv'
<1>1. stage' = "cleanup" /\ next' = 0 /\ back' = then /\ stage # "cleanup"
  BY DEF StartCleanup
<1>2. LifeTyped' /\ Ordered' /\ Progress'
  <2>1. Len(del_cmds) \in Nat
    BY LenProperties DEF LifeInv, LifeTyped
  <2>2. next' \in 0..(Len(del_cmds') + 1)
    BY <1>1, <2>1
  <2> QED
    BY <1>1, <2>2 DEF LifeInv, LifeTyped, Ordered, Progress
<1>3. \A c : (Has(c)' <=> Has(c)) /\ (Ahead(c)' <=> Ahead(c))
  <2>1. \A c : Ahead(c)' <=> c \in Range(del_cmds')
    BY <1>1, <1>2, AheadHasPrime
  <2>2. \A c : Ahead(c) <=> c \in Range(del_cmds)
    BY <1>1, AheadHas DEF LifeInv
  <2> QED
    BY <2>1, <2>2 DEF Has
<1>4. Pipes'
  BY <1>1, <1>3 DEF LifeInv, Pipes, Constructing, Dying
<1>5. ~Stuck
  BY <1>1 DEF Stuck
<1>6. Undoable'
  BY <1>1, <1>3, <1>5 DEF LifeInv, Undoable, Leftover
<1>7. Restorable'
  BY <1>1, <1>3 DEF LifeInv, Restorable
<1> QED
  BY <1>2, <1>4, <1>6, <1>7 DEF LifeInv

(* Cleanup closes the channels before its first command. *)
LEMMA CloseChannelsLife == ASSUME LifeInv, CloseChannels PROVE LifeInv'
<1>1. /\ stage = "cleanup" /\ next = 0 /\ next' = 1
      /\ channels' = IF channels = "open" THEN "closed" ELSE channels
      /\ UNCHANGED <<stage, todo, real, del_cmds, back, pipe, excused, setting, calls, remote>>
  BY DEF CloseChannels, sysctlVars
<1>2. PICK n \in Nat : n = Len(del_cmds) /\ DOMAIN del_cmds = 1..n
  BY LenProperties DEF LifeInv, LifeTyped
<1>3. LifeTyped' /\ Ordered' /\ Progress'
  <2>1. next' \in 0..(Len(del_cmds') + 1)
    BY <1>1, <1>2
  <2> QED
    BY <1>1, <2>1 DEF LifeInv, LifeTyped, Ordered, Progress
<1>4. \A c : (Has(c)' <=> Has(c)) /\ (Ahead(c)' <=> Ahead(c))
  BY <1>1, <1>2 DEF Has, Ahead
<1>5. Pipes'
  BY <1>1, <1>4 DEF LifeInv, Pipes, Constructing, Dying
<1>6. ~Stuck
  BY <1>1 DEF Stuck
<1>7. Undoable'
  BY <1>1, <1>4, <1>6 DEF LifeInv, Undoable, Leftover
<1>8. Restorable'
  BY <1>1, <1>4 DEF LifeInv, Restorable
<1> QED
  BY <1>3, <1>5, <1>7, <1>8 DEF LifeInv

(* A cleanup command has run, or has failed and what it should have removed   *)
(* is excused: what is left still has its command ahead.                      *)
LEMMA CommandLife ==
    ASSUME LifeInv, Cleaning, NEW c \in Scheduled, c = del_cmds[next], next' = next + 1,
           UNCHANGED <<stage, del_cmds, back, calls, remote, todo, pipe, channels>>,
           real' \subseteq real, real \ Removes(c) \subseteq real',
           Leftover' \subseteq Leftover \ Removes(c),
           excused \subseteq excused', excused' \subseteq Things \cup {"setting"},
           c = "stop" => "sshd" \notin real' \/ "container" \notin Leftover',
           setting' \in Values, "setting" \notin excused' => setting' = Restored(c)
    PROVE  LifeInv'
<1>0. PICK n \in Nat : n = Len(del_cmds) /\ DOMAIN del_cmds = 1..n
  BY LenProperties DEF LifeInv, LifeTyped
<1>1. stage = "cleanup" /\ next \in 1..n
  BY <1>0 DEF Cleaning
<1>2. LifeTyped' /\ Ordered' /\ Progress'
  <2>1. next' \in 0..(Len(del_cmds') + 1)
    BY <1>0, <1>1
  <2> QED
    BY <1>1, <2>1 DEF LifeInv, LifeTyped, Ordered, Progress
<1>3. \A x : Has(x)' <=> Has(x)
  BY DEF Has
<1>4. \A x : Ahead(x) /\ x # c => Ahead(x)'
  BY <1>0, <1>1 DEF Ahead
<1>5. \A x : Ahead(x)' => Ahead(x)
  BY <1>0, <1>1 DEF Ahead
<1>6. \A x : Ahead(x) => x = c \/ Rank(c) < Rank(x) \/ (c \in Values /\ x \in Values)
  <2> SUFFICES ASSUME NEW x, Ahead(x), x # c
               PROVE  Rank(c) < Rank(x) \/ (c \in Values /\ x \in Values)
    OBVIOUS
  <2>1. PICK k \in 1..n : del_cmds[k] = x /\ k >= next
    BY <1>0, <1>1 DEF Ahead
  <2>2. next < k
    BY <1>1, <2>1
  <2> QED
    BY <1>0, <1>1, <2>1, <2>2 DEF LifeInv, Ordered, Sorted
<1>7. Pipes'
  BY <1>1, <1>3 DEF LifeInv, Pipes, Constructing, Dying
<1>8. /\ Ahead("stop") => c # "container"
      /\ Ahead("kill") => c \notin {"netns", "cgroup"}
  <2>1. Rank("container") = 2 /\ Rank("netns") = 4 /\ Rank("cgroup") = 8
        /\ Rank("stop") = 1 /\ Rank("kill") = 3
    BY Ranks
  <2>2. {"container", "netns", "cgroup", "stop", "kill"} \cap Values = {}
    BY NotValues
  <2> QED
    BY <1>6, <2>1, <2>2
<1>a. /\ c = "kill" => Removes(c) = IF "netns" \in real THEN Processes ELSE {}
      /\ c = "stop" => Removes(c) = {"sshd"}
      /\ c = "container" => Removes(c) = IF "sshd" \in real THEN {} ELSE {"container"}
      /\ c \in {"helpers", "netns", "etc", "cgroup", "socket"} => Removes(c) = {c}
      /\ c = "sync" => Removes(c) = {}
      /\ c \in Values => Removes(c) = {c}
  BY NotValues DEF Removes, Undoes
<1>b. /\ "nc" \in Removes(c) => c = "kill"
      /\ "netns" \in Removes(c) => c = "netns"
      /\ "cgroup" \in Removes(c) => c = "cgroup"
      /\ "container" \in Removes(c) => "sshd" \notin real
  <2>1. CASE c \in Values
    <3>1. Removes(c) \cap Things = {}
      BY <1>a, <2>1, HostLifeAssumption
    <3> QED
      BY <3>1 DEF Things
  <2>2. CASE c = "kill" \/ c = "stop" \/ c = "sync"
    BY <1>a, <2>2 DEF Processes
  <2>3. CASE c = "container"
    BY <1>a, <2>3
  <2>4. CASE c \in {"helpers", "netns", "etc", "cgroup", "socket"}
    BY <1>a, <2>4
  <2> QED
    BY <2>1, <2>2, <2>3, <2>4 DEF Scheduled
<1>9. Stuck => Stuck'
  <2> SUFFICES ASSUME Stuck PROVE Stuck'
    OBVIOUS
  <2>1. ~Ahead("kill") /\ ~Ahead("kill")' /\ back = "closed"
    BY <1>1, <1>5 DEF Stuck
  <2>2. c # "kill"
    BY <1>0, <1>1, <2>1 DEF Ahead
  <2>3. "nc" \in real'
    BY <1>b, <2>2 DEF Stuck
  <2>4. next' > 0
    BY <1>1
  <2> QED
    BY <2>1, <2>3, <2>4 DEF Stuck
<1>10. Undoable'
  <2>1. \A x \in {"helpers", "netns", "etc", "cgroup", "container"} \cap Leftover : Ahead(x)
    BY DEF LifeInv, Undoable
  <2>2. \A x \in {"helpers", "netns", "etc", "cgroup"} \cap Leftover' : Ahead(x)'
    BY <1>4, <1>a, <2>1
  <2>3. "container" \in Leftover' => Ahead("container")'
    <3>1. ASSUME "container" \in Leftover', c = "container" PROVE FALSE
      <4>1. "container" \in Leftover /\ "sshd" \in real
        BY <1>a, <3>1
      <4> QED
        BY <1>8, <3>1, <4>1 DEF LifeInv, Undoable
    <3> QED
      BY <1>4, <2>1, <3>1
  <2>4. "container" \in Leftover' /\ "sshd" \in real' => Ahead("stop")'
    BY <1>4 DEF LifeInv, Undoable
  <2>5. "sshd" \in Leftover' =>
            Ahead("kill")' /\ "netns" \in real' /\ {"cgroup", "container"} \cap real' # {}
    <3> SUFFICES ASSUME "sshd" \in Leftover'
                 PROVE  /\ Ahead("kill")' /\ "netns" \in real'
                        /\ {"cgroup", "container"} \cap real' # {}
      OBVIOUS
    <3>1. "sshd" \in Leftover /\ "sshd" \in real /\ "sshd" \notin Removes(c)
      BY DEF Leftover
    <3>2. Ahead("kill") /\ "netns" \in real /\ {"cgroup", "container"} \cap real # {}
      BY <3>1 DEF LifeInv, Undoable
    <3>3. c # "kill"
      BY <1>a, <3>1, <3>2 DEF Processes
    <3> QED
      BY <1>4, <1>8, <1>b, <3>1, <3>2, <3>3
  <2>6. "nc" \in Leftover' => Stuck' \/ (Ahead("kill")' /\ "netns" \in real')
    <3> SUFFICES ASSUME "nc" \in Leftover', ~Stuck
                 PROVE  Ahead("kill")' /\ "netns" \in real'
      BY <1>9
    <3>1. "nc" \in Leftover /\ "nc" \notin Removes(c)
      OBVIOUS
    <3>2. Ahead("kill") /\ "netns" \in real
      BY <3>1 DEF LifeInv, Undoable
    <3>3. c # "kill"
      BY <1>a, <3>1, <3>2 DEF Processes
    <3> QED
      BY <1>4, <1>8, <1>b, <3>2, <3>3
  <2>7. "socket" \in Leftover' => Stuck' \/ Ahead("socket")'
    BY <1>4, <1>9, <1>a DEF LifeInv, Undoable
  <2>8. \A x \in {"helpers", "netns", "etc", "cgroup", "container"} \cap Leftover' : Ahead(x)'
    BY <2>2, <2>3
  <2> QED
    BY <2>4, <2>5, <2>6, <2>7, <2>8 DEF Undoable
<1>11. Restorable'
  <2>1. ASSUME "setting" \notin excused', remote' = "nothing"
        PROVE  setting' = "original" \/ \E v \in Values : Ahead(v)'
    <3>1. setting' = Restored(c) /\ "setting" \notin excused
      BY <2>1
    <3>2. CASE c \in Values
      <4>1. setting' = c
        BY <3>1, <3>2 DEF Restored
      <4>2. CASE \E j \in 1..n : j > next /\ del_cmds[j] \in Values
        BY <1>0, <1>1, <4>2 DEF Ahead
      <4>3. CASE \A j \in 1..n : j > next => del_cmds[j] \notin Values
        BY <1>0, <1>1, <3>1, <3>2, <4>1, <4>3 DEF LifeInv, Restorable
      <4> QED
        BY <4>2, <4>3
    <3>3. CASE c \notin Values
      BY <1>4, <2>1, <3>1, <3>3 DEF LifeInv, Restorable, Restored
    <3> QED
      BY <3>2, <3>3
  <2> QED
    BY <1>3, <2>1 DEF LifeInv, Restorable
<1> QED
  BY <1>2, <1>7, <1>10, <1>11 DEF LifeInv

(* The command at which cleanup is. *)
LEMMA Command ==
    ASSUME LifeTyped, Cleaning
    PROVE  del_cmds[next] \in Scheduled
  BY ElementOfSeq DEF LifeTyped, Cleaning

(* A command of cleanup has run. *)
LEMMA CleanupOkLife == ASSUME LifeInv, CleanupOk PROVE LifeInv'
<1> DEFINE c == del_cmds[next]
<1>1. /\ Cleaning /\ real' = real \ Removes(c) /\ setting' = Restored(c) /\ next' = next + 1
      /\ UNCHANGED <<stage, del_cmds, back, calls, remote, todo, pipe, channels, excused>>
      /\ c \in Scheduled
  BY Command DEF CleanupOk, hostVars, LifeInv
<1>2. setting' \in Values
  BY <1>1 DEF Restored, LifeInv, LifeTyped
<1>3. Leftover' \subseteq Leftover \ Removes(c)
  BY <1>1 DEF Leftover
<1>4. c = "stop" => "sshd" \notin real'
  BY <1>1, NotValues DEF Removes, Undoes
<1>5. excused' \subseteq Things \cup {"setting"}
  BY <1>1 DEF LifeInv, LifeTyped
<1> HIDE DEF c
<1>6. c = del_cmds[next]
  BY DEF c
<1> QED
  BY <1>1, <1>2, <1>3, <1>4, <1>5, <1>6, CommandLife

(* What a cleanup command would have removed is excused when it fails. *)
LEMMA SpoiledThings ==
    ASSUME NEW c \in Scheduled
    PROVE  /\ Things \cap Removes(c) \subseteq Spoiled(c)
           /\ Spoiled(c) \subseteq Things \cup {"setting"}
           /\ c = "stop" => "container" \in Spoiled(c)
           /\ c \in Values => "setting" \in Spoiled(c)
<1>1. CASE c = "stop"
  <2>1. Spoiled(c) = {"sshd", "container"} /\ Removes(c) = {"sshd"} /\ c \notin Values
    BY <1>1, NotValues DEF Spoiled, Removes, Undoes
  <2> QED
    BY <2>1 DEF Things
<1>2. CASE c \in Values
  <2>1. Removes(c) = {c} /\ Spoiled(c) = {"setting"} /\ c # "stop"
    BY <1>2, NotValues DEF Removes, Undoes, Spoiled
  <2> QED
    BY <1>2, <2>1, HostLifeAssumption
<1>3. CASE c # "stop" /\ c \notin Values
  <2>1. Spoiled(c) = Removes(c)
    BY <1>3 DEF Spoiled
  <2>2. Removes(c) \subseteq Things
    BY <1>3 DEF Removes, Undoes, Processes, Things, Scheduled
  <2> QED
    BY <1>3, <2>1, <2>2
<1> QED
  BY <1>1, <1>2, <1>3

(* A command of cleanup has failed and cleanup goes on. *)
LEMMA CleanupIgnoredLife == ASSUME LifeInv, CleanupIgnored PROVE LifeInv'
<1> DEFINE c == del_cmds[next]
<1>1. /\ Cleaning /\ excused' = excused \cup Spoiled(c) /\ next' = next + 1
      /\ UNCHANGED <<stage, real, del_cmds, back, todo, pipe, channels, setting, calls, remote>>
      /\ c \in Scheduled
  BY Command DEF CleanupIgnored, hostVars, sysctlVars, LifeInv
<1>2. c = del_cmds[next]
  OBVIOUS
<1> HIDE DEF c
<1>3. setting' \in Values /\ real \subseteq Things /\ excused \subseteq Things \cup {"setting"}
  BY <1>1 DEF LifeInv, LifeTyped
<1>4. Leftover' \subseteq Leftover \ Removes(c)
  BY <1>1, <1>3, SpoiledThings DEF Leftover
<1>5. c = "stop" => "container" \notin Leftover'
  BY <1>1, SpoiledThings DEF Leftover
<1>6. excused' \subseteq Things \cup {"setting"}
  BY <1>1, <1>3, SpoiledThings
<1>7. "setting" \notin excused' => setting' = Restored(c)
  BY <1>1, SpoiledThings DEF Restored
<1> QED
  BY <1>1, <1>2, <1>3, <1>4, <1>5, <1>6, <1>7, CommandLife

(* A command of cleanup has raised what nobody catches: the others stay. *)
LEMMA CleanupAbortsLife == ASSUME LifeInv, CleanupAborts PROVE LifeInv'
<1>1. /\ stage = "cleanup" /\ stage' = back /\ back \in {"closed", "failed", "gone"}
      /\ excused' = IF back = "gone" THEN Things \cup {"setting"} ELSE excused
      /\ UNCHANGED <<real, del_cmds, next, back, todo, pipe, channels, setting, calls, remote>>
  BY DEF CleanupAborts, Cleaning, hostVars, sysctlVars, LifeInv, LifeTyped
<1>2. LifeTyped' /\ Ordered' /\ Progress'
  BY <1>1 DEF LifeInv, LifeTyped, Ordered, Progress
<1>3. \A c : (Has(c)' <=> Has(c)) /\ (Ahead(c) => Ahead(c)')
  BY <1>1 DEF Has, Ahead
<1>4. Pipes'
  BY <1>1, <1>3 DEF LifeInv, Pipes, Constructing, Dying
<1>5. Undoable'
  <2>1. Stuck => Stuck'
    BY <1>1 DEF Stuck
  <2>2. Leftover' \subseteq Leftover
    BY <1>1 DEF Leftover, LifeInv, LifeTyped
  <2> QED
    BY <1>1, <1>3, <2>1, <2>2 DEF LifeInv, Undoable
<1>6. Restorable'
  BY <1>1, <1>3 DEF LifeInv, Restorable
<1> QED
  BY <1>2, <1>4, <1>5, <1>6 DEF LifeInv

(* No command is ahead: what is left is what a netcat that came too late has. *)
LEMMA NothingAhead ==
    ASSUME LifeInv, \A c : ~Ahead(c)
    PROVE  /\ Leftover \subseteq {"nc", "socket"}
           /\ ~Stuck => Leftover = {}
           /\ "setting" \notin excused /\ remote = "nothing" => setting = "original"
<1>1. Leftover \subseteq Things
  BY DEF LifeInv, LifeTyped, Leftover
<1>2. Leftover \cap {"helpers", "netns", "etc", "cgroup", "container", "sshd"} = {}
  BY DEF LifeInv, Undoable
<1>3. ~Stuck => Leftover \cap {"nc", "socket"} = {}
  BY DEF LifeInv, Undoable
<1>4. Leftover \subseteq {"nc", "socket"}
  BY <1>1, <1>2 DEF Things
<1>5. "setting" \notin excused /\ remote = "nothing" => setting = "original"
  BY DEF LifeInv, Restorable
<1> QED
  BY <1>3, <1>4, <1>5

(* Cleanup has come to its end and forgets its commands. *)
LEMMA CleanupDoneLife == ASSUME LifeInv, CleanupDone PROVE LifeInv'
<1>1. /\ stage = "cleanup" /\ next > Len(del_cmds) /\ del_cmds' = <<>> /\ next' = 0
      /\ stage' = back /\ back \in {"closed", "failed", "gone"}
      /\ UNCHANGED <<real, back, excused, todo, pipe, channels, setting, calls, remote>>
  BY DEF CleanupDone, hostVars, sysctlVars, LifeInv, LifeTyped
<1>2. PICK n \in Nat : n = Len(del_cmds) /\ DOMAIN del_cmds = 1..n
  BY LenProperties DEF LifeInv, LifeTyped
<1>3. <<>> \in Seq(Scheduled) /\ Len(<<>>) = 0 /\ DOMAIN del_cmds' = {}
  BY <1>1
<1>4. LifeTyped' /\ Ordered' /\ Progress'
  BY <1>1, <1>3 DEF LifeInv, LifeTyped, Ordered, Sorted, Progress
<1>5. \A c : ~Ahead(c) /\ ~Ahead(c)' /\ ~Has(c)'
  BY <1>1, <1>2, <1>3 DEF LifeInv, LifeTyped, Ahead, Has
<1>6. /\ Leftover \subseteq {"nc", "socket"} /\ (~Stuck => Leftover = {})
      /\ "setting" \notin excused /\ remote = "nothing" => setting = "original"
  BY <1>5, NothingAhead
<1>7. Pipes'
  BY <1>1, <1>5 DEF LifeInv, Pipes, Constructing, Dying
<1>8. Undoable'
  <2>1. Stuck => Stuck'
    BY <1>1 DEF Stuck
  <2>2. Leftover' = Leftover
    BY <1>1 DEF Leftover
  <2> QED
    BY <1>6, <2>1, <2>2 DEF Undoable
<1>9. Restorable'
  <2>1. remote # "nothing" => stage' = "closed"
    BY <1>1 DEF LifeInv, Pipes, Constructing, Dying
  <2> QED
    BY <1>1, <1>3, <1>6, <2>1 DEF Restorable
<1> QED
  BY <1>4, <1>7, <1>8, <1>9 DEF LifeInv

(* Nothing happens. *)
LEMMA LifeUnchanged == ASSUME LifeInv, UNCHANGED lifeVars PROVE LifeInv'
  BY DEF LifeInv, lifeVars, hostVars, sysctlVars, LifeTyped, Ordered, Progress, Exactly,
         Pipes, Constructing, Dying, Has, Undoable, Leftover, Stuck, Ahead, Restorable

(* Every step preserves the invariant. *)
LEMMA NextLifeInv == ASSUME LifeInv, [LifeNext]_lifeVars PROVE LifeInv'
<1>1. CASE StepOk BY <1>1, StepOkLife
<1>2. CASE StepFails BY <1>2, StepFailsLife
<1>3. CASE NoCoreLeft BY <1>3, NoCoreLeftLife
<1>4. CASE SysctlOk BY <1>4, SysctlOkLife
<1>5. CASE SysctlFails BY <1>5, SysctlFailsLife
<1>6. CASE RemoteWrite BY <1>6, RemoteWriteLife
<1>7. CASE RemoteSchedule BY <1>7, RemoteScheduleLife
<1>8. CASE PipeRun BY <1>8, PipeRunLife
<1>9. CASE PipeSet BY <1>9, PipeSetLife
<1>10. CASE PipeEnds BY <1>10, PipeEndsLife
<1>11. CASE Close
  BY <1>11, StartCleanupLife DEF Close, hostVars, sysctlVars
<1>12. CASE CloseChannels BY <1>12, CloseChannelsLife
<1>13. CASE CleanupOk BY <1>13, CleanupOkLife
<1>14. CASE CleanupIgnored BY <1>14, CleanupIgnoredLife
<1>15. CASE CleanupAborts BY <1>15, CleanupAbortsLife
<1>16. CASE CleanupDone BY <1>16, CleanupDoneLife
<1>17. CASE Destroy
  BY <1>17, StartCleanupLife DEF Destroy, hostVars, sysctlVars
<1>18. CASE LifeTerminated \/ UNCHANGED lifeVars
  BY <1>18, LifeUnchanged DEF LifeTerminated
<1> QED
  BY <1>1, <1>2, <1>3, <1>4, <1>5, <1>6, <1>7, <1>8, <1>9, <1>10, <1>11, <1>12, <1>13,
     <1>14, <1>15, <1>16, <1>17, <1>18 DEF LifeNext

(* The host object goes when its commands have run, or with an error that     *)
(* stopped them for good.                                                     *)
Final == stage = "gone" => del_cmds = <<>> \/ excused = Things \cup {"setting"}

LifeIInv == LifeInv /\ Final

(* Only the end of a cleanup of the destructor makes the host go. *)
LEMMA NextFinal == ASSUME LifeIInv, [LifeNext]_lifeVars PROVE Final'
<1>1. CASE stage' # "gone"
  BY <1>1 DEF Final
<1>2. CASE stage = "gone" /\ stage' = "gone" /\ del_cmds' = del_cmds /\ excused' = excused
  BY <1>2 DEF LifeIInv, Final
<1>3. CASE CleanupAborts \/ CleanupDone
  BY <1>3 DEF CleanupAborts, CleanupDone, Final
<1>4. CASE RemoteSchedule
  <2>1. stage' # "gone"
    BY <1>4 DEF RemoteSchedule, LifeIInv, LifeInv, Pipes, Dying
  <2> QED
    BY <2>1 DEF Final
<1>5. CASE StepOk \/ StepFails \/ NoCoreLeft \/ Close \/ Destroy \/ CloseChannels
  BY <1>5 DEF StepOk, StepFails, NoCoreLeft, Close, Destroy, StartCleanup, CloseChannels, Final
<1>6. CASE SysctlOk \/ SysctlFails \/ RemoteWrite
  BY <1>6 DEF SysctlOk, SysctlFails, RemoteWrite, Final
<1>7. CASE CleanupOk \/ CleanupIgnored
  BY <1>7 DEF CleanupOk, CleanupIgnored, Cleaning, Final
<1>8. CASE PipeRun \/ PipeSet \/ PipeEnds
  BY <1>2, <1>8 DEF PipeRun, PipeSet, PipeEnds, Final
<1>9. CASE LifeTerminated \/ UNCHANGED lifeVars
  BY <1>2, <1>9 DEF LifeTerminated, lifeVars, Final
<1> QED
  BY <1>3, <1>4, <1>5, <1>6, <1>7, <1>8, <1>9 DEF LifeNext

(* LifeIInv is inductive: the cleanup commands are in the order of their      *)
(* ranks, what a host has made has its command among those to come, and the   *)
(* last value they restore is the first one.                                  *)
THEOREM LifeInductive == LifeSpec => []LifeIInv
<1>1. LifeInit => LifeIInv
  <2>1. LifeInit => Final
    BY DEF LifeInit, Final
  <2> QED
    BY <2>1, InitLifeInv DEF LifeIInv
<1>2. LifeIInv /\ [LifeNext]_lifeVars => LifeIInv'
  <2> SUFFICES ASSUME LifeIInv, [LifeNext]_lifeVars PROVE LifeIInv'
    OBVIOUS
  <2>1. LifeInv'
    BY NextLifeInv DEF LifeIInv
  <2>2. Final'
    BY NextFinal
  <2> QED
    BY <2>1, <2>2 DEF LifeIInv
<1> QED
  BY <1>1, <1>2, PTL DEF LifeSpec

(* What remains of __init__ is a sequence of its steps. *)
LEMMA TodoSequences == Todos \subseteq Seq(Range(Steps) \cup Range(DockerSteps))
<1>1. StepNames \subseteq Range(Steps) \cup Range(DockerSteps)
  <2>1. /\ Steps[1] = "real_host" /\ Steps[2] = "helpers" /\ Steps[3] = "netns"
        /\ Steps[4] = "cgroup" /\ Steps[5] = "sysctl" /\ Steps[6] = "sshd" /\ Steps[7] = "pipe"
        /\ 1..7 \subseteq DOMAIN Steps
    BY DEF Steps
  <2>2. DockerSteps[4] = "docker" /\ 4 \in DOMAIN DockerSteps
    BY DEF DockerSteps
  <2>3. {1, 2, 3, 4, 5, 6, 7} \subseteq DOMAIN Steps
    BY <2>1
  <2>4. {"real_host", "helpers", "netns", "cgroup", "sysctl", "sshd", "pipe"} \subseteq Range(Steps)
    BY <2>1, <2>3 DEF Range
  <2>5. "docker" \in Range(DockerSteps)
    BY <2>2 DEF Range
  <2> QED
    BY <2>4, <2>5 DEF StepNames
<1>2. Todos \subseteq Seq(StepNames)
  BY DEF Todos, StepNames
<1>3. \A t \in Seq(StepNames) : t \in Seq(Range(Steps) \cup Range(DockerSteps))
  <2> DEFINE S == Range(Steps) \cup Range(DockerSteps)
  <2> HIDE DEF S
  <2> SUFFICES ASSUME NEW t \in Seq(StepNames), StepNames \subseteq S PROVE t \in Seq(S)
    BY <1>1 DEF S
  <2> QED
    BY SeqMonotonic
<1> QED
  BY <1>2, <1>3

(* Types of HostLife: position and list of cleanup fit, also when a remote    *)
(* sysctl schedules its command while the loop goes through the list.         *)
THEOREM LifeTypeCorrect == LifeSpec => []LifeTypeOK
<1>1. LifeIInv => LifeTypeOK
  <2> SUFFICES ASSUME LifeTyped PROVE LifeTypeOK
    BY DEF LifeIInv, LifeInv
  <2>1. todo \in Seq(Range(Steps) \cup Range(DockerSteps))
    BY TodoSequences DEF LifeTyped
  <2>2. Scheduled \subseteq Commands
    BY DEF Scheduled, Commands, Things
  <2>3. del_cmds \in Seq(Commands)
    BY <2>2, SeqMonotonic DEF LifeTyped
  <2> QED
    BY <2>1, <2>3 DEF LifeTyped, LifeTypeOK
<1> QED
  BY <1>1, LifeInductive, PTL

(* Host.cleanup and __del__: whatever failed, and wherever a cleanup was      *)
(* interrupted, a host that is gone leaves nothing but what a failed command  *)
(* makes impossible to undo, and its sysctl has its first value again.        *)
THEOREM EverythingUndone == LifeSpec => []Undone
<1>1. LifeIInv => Undone
  <2> SUFFICES ASSUME LifeIInv PROVE Undone
    OBVIOUS
  <2>1. ASSUME del_cmds = <<>>
        PROVE  /\ Leftover \subseteq {"nc", "socket"} /\ (~Stuck => Leftover = {})
               /\ "setting" \notin excused /\ remote = "nothing" => setting = "original"
    <3>1. \A c : ~Ahead(c)
      BY <2>1 DEF Ahead
    <3> QED
      BY <3>1, NothingAhead DEF LifeIInv
  <2>2. ASSUME stage = "gone"
        PROVE  real \ excused = {} /\ (setting = "original" \/ "setting" \in excused)
    <3>1. remote = "nothing" /\ ~Stuck /\ real \subseteq Things
      BY <2>2 DEF LifeIInv, LifeInv, LifeTyped, Pipes, Dying, Stuck
    <3> QED
      BY <2>1, <2>2, <3>1 DEF LifeIInv, Final, Leftover
  <2>3. ASSUME stage = "closed", del_cmds = <<>>
        PROVE  real \ excused \subseteq
                   IF pipe \in {"running", "reading"} /\ channels # "closed"
                   THEN {"nc", "socket"} ELSE {}
    BY <2>1, <2>3 DEF Leftover, Stuck
  <2> QED
    BY <2>2, <2>3 DEF Undone
<1> QED
  BY <1>1, LifeInductive, PTL

(* schedule_cleanup_command: the sshd of a host never outlives the namespace  *)
(* or the group it runs in.                                                   *)
THEOREM CleanupInOrder == LifeSpec => []OrderedCleanup
<1>1. LifeIInv => OrderedCleanup
  BY DEF LifeIInv, LifeInv, Undoable, Leftover, OrderedCleanup
<1> QED
  BY <1>1, LifeInductive, PTL
==================================================================================
