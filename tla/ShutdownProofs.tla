----------------------------- MODULE ShutdownProofs -----------------------------
(* Whatever threads close the pool, and however many hosts and workers there  *)
(* are: no task meets a topology that is gone, and it goes only after the     *)
(* hosts that were there before the first close are stopped.                  *)
EXTENDS Shutdown, SequenceTheorems, TLAPS

(* The types that the argument needs. *)
Typed ==
    /\ pc \in [Closers -> PC]
    /\ new \in [Closers -> Hosts \cup {None}]
    /\ fut \in [Tasks -> {"none", "queued", "running", "ok"}]
    /\ queue \in Seq(Tasks)
    /\ order \in Seq(Hosts)
    /\ size \in [Closers -> Nat] /\ next \in [Closers -> Nat \ {0}]

(* A close is past the join of the executor; the executor is then empty, and  *)
(* stays so, because it takes no task any more.                               *)
Joined(c) == pc[c] \in {"bridges", "done"}
Drained == queue = <<>> /\ Running = {}

Ordered ==
    /\ \A c \in Closers : pc[c] = "join" \/ Joined(c) => shut
    /\ \A c \in Closers : Joined(c) => Drained
    /\ ~bridges => \E c \in Closers : Joined(c)

IInv == Typed /\ Ordered

LEMMA InitIInv == Init => IInv
  BY DEF Init, IInv, Typed, Ordered, Joined, Drained, PC, Running

(* A task may be submitted as long as the executor is not shut down: then no  *)
(* close is past the join.                                                    *)
LEMMA SubmitIInv ==
    ASSUME IInv, ~shut, NEW t \in Tasks, Submit(t),
           UNCHANGED <<pc, shut, bridges, size>>, order' \in Seq(Hosts),
           next' \in [Closers -> Nat \ {0}], new' \in [Closers -> Hosts \cup {None}]
    PROVE  IInv'
<1>1. Typed'
  BY DEF IInv, Typed, Submit
<1>2. Ordered'
  BY DEF IInv, Ordered, Joined
<1> QED
  BY <1>1, <1>2 DEF IInv

LEMMA KeyKept ==
    ASSUME Typed, NEW h \in Hosts
    PROVE  /\ WithKey(h) \in Seq(Hosts)
           /\ WithKey(h) \in {order, Append(order, h)}
  BY DEF Typed, WithKey

(* A step of a close that leaves tasks alone and does not reach the join.     *)
LEMMA GoIInv ==
    ASSUME IInv, NEW c \in Closers, NEW stage \in PC \ {"join", "bridges", "done"},
           pc[c] \notin {"bridges", "done"},
           Go(c, stage), UNCHANGED <<new, order, fut, queue, shut, bridges, next>>,
           size' \in [Closers -> Nat]
    PROVE  IInv'
<1>1. Typed'
  BY DEF IInv, Typed, Go
<1>2. \A d \in Closers : Joined(d)' <=> Joined(d)
  BY DEF IInv, Typed, Go, Joined
<1>3. \A d \in Closers : pc'[d] = "join" => pc[d] = "join"
  BY DEF IInv, Typed, Go
<1>4. Drained' <=> Drained
  BY DEF Drained, Running
<1>5. Ordered'
  BY <1>2, <1>3, <1>4 DEF IInv, Ordered
<1> QED
  BY <1>1, <1>5 DEF IInv

LEMMA StartCloseIInv ==
    ASSUME IInv, NEW c \in Closers, pc[c] \in {"script", "listening"}, StartClose(c)
    PROVE  IInv'
<1>1. size' \in [Closers -> Nat]
  BY DEF StartClose, IInv, Typed
<1> QED
  BY <1>1, GoIInv DEF StartClose, PC

LEMMA CloseStepIInv ==
    ASSUME IInv, NEW c \in Closers, CloseStep(c)
    PROVE  IInv'
<1>1. CASE WaitEnds(c)
  <2>1. size' \in [Closers -> Nat]
    BY <1>1 DEF WaitEnds, IInv, Typed
  <2> QED
    BY <1>1, <2>1, GoIInv DEF WaitEnds, PC
<1>2. CASE SubmitStop(c)
  <2>1. next[c] \in 1..Len(order)
    BY <1>2 DEF SubmitStop, IInv, Typed
  <2>2. order[next[c]] \in Hosts
    BY <2>1 DEF IInv, Typed
  <2>3. Stop(order[next[c]], c) \in Tasks
    BY <2>2 DEF Tasks
  <2>4. next' \in [Closers -> Nat \ {0}]
    BY <1>2 DEF SubmitStop, IInv, Typed
  <2> QED
    BY <1>2, <2>3, <2>4, SubmitIInv DEF SubmitStop, IInv, Typed
<1>3. CASE ForeachRaises(c)
  BY <1>3, GoIInv DEF ForeachRaises, PC, IInv, Typed
<1>4. CASE ForeachEnds(c)
  BY <1>4, GoIInv DEF ForeachEnds, PC, IInv, Typed
<1>5. CASE ShutdownExecutor(c)
  <2>1. Typed'
    BY <1>5 DEF ShutdownExecutor, Go, IInv, Typed, PC
  <2>2. \A d \in Closers : Joined(d)' <=> Joined(d)
    BY <1>5 DEF ShutdownExecutor, Go, Joined, IInv, Typed
  <2>3. Drained' <=> Drained
    BY <1>5 DEF ShutdownExecutor, Drained, Running
  <2> QED
    BY <1>5, <2>1, <2>2, <2>3 DEF ShutdownExecutor, IInv, Ordered
<1>6. CASE ExecutorEnds(c)
  <2>1. Typed'
    BY <1>6 DEF ExecutorEnds, Go, IInv, Typed, PC
  <2>2. Drained'
    BY <1>6 DEF ExecutorEnds, Drained, Running
  <2>3. shut'
    BY <1>6 DEF ExecutorEnds, IInv, Ordered
  <2>4. Joined(c)'
    BY <1>6 DEF ExecutorEnds, Go, Joined, IInv, Typed
  <2> QED
    BY <2>1, <2>2, <2>3, <2>4 DEF IInv, Ordered
<1>7. CASE CloseRealHosts(c)
  <2>1. Typed'
    BY <1>7 DEF CloseRealHosts, Go, IInv, Typed, PC
  <2>2. shut' /\ Drained'
    BY <1>7 DEF CloseRealHosts, IInv, Ordered, Joined, Drained, Running
  <2>3. Joined(c)'
    BY <1>7 DEF CloseRealHosts, Go, Joined, IInv, Typed
  <2> QED
    BY <2>1, <2>2, <2>3 DEF IInv, Ordered
<1> QED
  BY <1>1, <1>2, <1>3, <1>4, <1>5, <1>6, <1>7 DEF CloseStep

LEMMA WorkerStepIInv ==
    ASSUME IInv, WorkerStep
    PROVE  IInv'
<1>1. CASE StartTask
  <2>1. Typed'
    BY <1>1 DEF StartTask, IInv, Typed
  <2>2. \A c \in Closers : ~Joined(c)
    BY <1>1 DEF StartTask, IInv, Ordered, Drained
  <2> QED
    BY <1>1, <2>1, <2>2 DEF StartTask, IInv, Ordered, Joined
<1>2. ASSUME NEW t \in Tasks, Ends(t), order' \in Seq(Hosts)
      PROVE  IInv'
  <2>1. Typed'
    BY <1>2 DEF Ends, IInv, Typed
  <2>2. \A c \in Closers : ~Joined(c)
    BY <1>2 DEF Ends, IInv, Ordered, Drained, Running
  <2> QED
    BY <1>2, <2>1, <2>2 DEF Ends, IInv, Ordered, Joined
<1>3. ASSUME NEW h \in Hosts, EndCreate(h)
      PROVE  IInv'
  <2>1. order' \in Seq(Hosts)
    BY <1>3, KeyKept DEF EndCreate, IInv, Typed
  <2> QED
    BY <1>2, <1>3, <2>1 DEF EndCreate, Tasks
<1>4. ASSUME NEW h \in Hosts, NEW c \in Closers, EndStop(h, c)
      PROVE  IInv'
  <2>1. order' \in Seq(Hosts) /\ Stop(h, c) \in Tasks
    BY <1>4 DEF EndStop, Tasks, IInv, Typed
  <2> QED
    BY <1>2, <1>4, <2>1 DEF EndStop
<1> QED
  BY <1>1, <1>3, <1>4 DEF WorkerStep

LEMMA RegisterIInv ==
    ASSUME IInv, NEW c \in Closers, Register(c)
    PROVE  IInv'
<1>1. new[c] \in Hosts /\ new' \in [Closers -> Hosts \cup {None}]
  BY DEF Register, IInv, Typed
<1>2. order' \in Seq(Hosts)
  BY <1>1, KeyKept DEF Register, IInv
<1>3. Typed'
  BY <1>1, <1>2 DEF Register, IInv, Typed
<1>4. Ordered'
  BY DEF Register, IInv, Ordered, Joined, Drained, Running
<1> QED
  BY <1>3, <1>4 DEF IInv

LEMMA NextIInv ==
    ASSUME IInv, [Next]_vars
    PROVE  IInv'
<1>1. CASE EndOfScript
  BY <1>1, StartCloseIInv DEF EndOfScript, Ready, Closers
<1>2. ASSUME NEW c \in Closers, NEW h \in Hosts, SubmitDef(c, h)
      PROVE  IInv'
  <2>1. Create(h) \in Tasks /\ new' \in [Closers -> Hosts \cup {None}]
    BY <1>2 DEF SubmitDef, Tasks, IInv, Typed
  <2> QED
    BY <1>2, <2>1, SubmitIInv DEF SubmitDef, IInv, Typed
<1>3. ASSUME NEW h \in Hosts, Fatal(h) \/ PipeDies(h)
      PROVE  IInv'
  <2>1. h \in Closers /\ pc[h] \in {"script", "listening"}
    BY <1>3 DEF Fatal, PipeDies, Ready, Closers
  <2>2. CASE Fatal(h)
    BY <2>1, <2>2, StartCloseIInv DEF Fatal
  <2>3. CASE PipeDies(h)
    BY <2>1, <2>3, GoIInv DEF PipeDies, PC, IInv, Typed
  <2> QED
    BY <1>3, <2>2, <2>3
<1>4. ASSUME NEW c \in Closers, CloseStep(c) \/ Register(c)
      PROVE  IInv'
  BY <1>4, CloseStepIInv, RegisterIInv
<1>5. CASE WorkerStep
  BY <1>5, WorkerStepIInv
<1>6. CASE UNCHANGED vars
  BY <1>6 DEF vars, IInv, Typed, Ordered, Joined, Drained, Running
<1> QED
  BY <1>1, <1>2, <1>3, <1>4, <1>5, <1>6 DEF Next

--------------------------------------------------------------------------------
(* Which hosts are stopped *)

Bounds ==
    /\ \A c \in Closers : size[c] <= Len(order) /\ next[c] \in 1..(size[c] + 1)
    /\ snap \in [Closers -> SUBSET Tasks]
    /\ shut \in BOOLEAN /\ bridges \in BOOLEAN
    /\ early \subseteq Registered

(* A close has been through the whole loop of parallel_foreach_host. *)
Through(c) == pc[c] \in {"shutdown", "join", "bridges", "done"}
Asked(h) == \E c \in Closers : fut[Stop(h, c)] # "none"

(* The loop of each close submits as it goes, and one that was through has    *)
(* asked for the stop of every early host.                                    *)
Loops ==
    /\ \A t \in Tasks : fut[t] = "queued" => \E i \in 1..Len(queue) : queue[i] = t
    /\ \A c \in Closers : \A k \in 1..(next[c] - 1) : fut[Stop(order[k], c)] # "none"
    /\ (\E c \in Closers : Through(c)) => \A h \in early : Asked(h)

LInv == Bounds /\ Loops

LEMMA InitLInv == Init => LInv
<1> SUFFICES ASSUME Init PROVE LInv
  OBVIOUS
<1>1. Len(order) = 0 /\ \A c \in Closers : size[c] = 0 /\ next[c] = 1
  BY DEF Init
<1>2. Bounds
  <2>1. \A c \in Closers : size[c] <= Len(order) /\ next[c] \in 1..(size[c] + 1)
    BY <1>1
  <2> QED
    BY <2>1 DEF Init, Bounds
<1>3. Loops
  BY <1>1 DEF Init, Loops, Through
<1> QED
  BY <1>2, <1>3 DEF LInv

LEMMA Entries ==
    ASSUME Typed
    PROVE  /\ order \in Seq(Hosts) /\ Len(order) \in Nat /\ DOMAIN order = 1..Len(order)
           /\ \A k \in 1..Len(order) : order[k] \in Hosts /\ order[k] \in Registered
           /\ \A h \in Registered : h \in Hosts /\ \E k \in 1..Len(order) : order[k] = h
           /\ \A h \in Hosts, c \in Closers : Stop(h, c) \in Tasks /\ Create(h) \in Tasks
<1>1. order \in Seq(Hosts) /\ Len(order) \in Nat /\ DOMAIN order = 1..Len(order)
  BY DEF Typed
<1> QED
  BY <1>1 DEF Registered, Tasks

(* Tasks are never forgotten, and neither are hosts: what a close has         *)
(* submitted stays submitted, and the dict only grows.                        *)
LEMMA AskedKept ==
    ASSUME IInv, Bounds,
           \/ order' = order
           \/ \E h \in Hosts : order' = Append(order, h),
           \A t \in Tasks : fut[t] # "none" => fut'[t] # "none"
    PROVE  /\ Registered \subseteq Registered' /\ Len(order) <= Len(order')
           /\ \A h \in early : Asked(h) => Asked(h)'
           /\ \A k \in 1..Len(order) : order'[k] = order[k]
           /\ \A c \in Closers : \A k \in 1..(next[c] - 1) :
                fut[Stop(order[k], c)] # "none" => fut'[Stop(order'[k], c)] # "none"
<1>1. /\ Len(order) \in Nat /\ Len(order') \in Nat /\ Len(order) <= Len(order')
      /\ \A k \in 1..Len(order) : order'[k] = order[k]
      /\ DOMAIN order = 1..Len(order) /\ DOMAIN order' = 1..Len(order')
  <2>1. CASE order' = order
    BY <2>1 DEF IInv, Typed
  <2>2. ASSUME NEW h \in Hosts, order' = Append(order, h)
        PROVE  /\ Len(order) \in Nat /\ Len(order') \in Nat /\ Len(order) <= Len(order')
               /\ \A k \in 1..Len(order) : order'[k] = order[k]
               /\ DOMAIN order = 1..Len(order) /\ DOMAIN order' = 1..Len(order')
    <3>1. order \in Seq(Hosts) /\ order' \in Seq(Hosts)
      BY <2>2, AppendProperties DEF IInv, Typed
    <3> QED
      BY <2>2, <3>1, AppendProperties, LenProperties
  <2> QED
    BY <2>1, <2>2
<1>2. Registered \subseteq Registered'
  <2>1. 1..Len(order) \subseteq 1..Len(order')
    <3>1. \A m, n \in Nat : m <= n => 1..m \subseteq 1..n
      OBVIOUS
    <3> QED
      BY <1>1, <3>1
  <2>2. DOMAIN order \subseteq DOMAIN order'
    <3>1. DOMAIN order = 1..Len(order)
      BY <1>1
    <3>2. DOMAIN order' = 1..Len(order')
      BY <1>1
    <3> QED
      BY <2>1, <3>1, <3>2, Zenon
  <2>3. \A k \in DOMAIN order : order'[k] = order[k]
    BY <1>1
  <2> QED
    BY <2>2, <2>3, Zenon DEF Registered
<1>3. \A h \in early : Asked(h) => Asked(h)'
  BY Entries DEF IInv, Bounds, Asked
<1>4. \A c \in Closers : \A k \in 1..(next[c] - 1) :
        order'[k] = order[k] /\ Stop(order[k], c) \in Tasks
  <2> SUFFICES ASSUME NEW c \in Closers, NEW k \in 1..(next[c] - 1)
               PROVE  order'[k] = order[k] /\ Stop(order[k], c) \in Tasks
    OBVIOUS
  <2>1. size[c] \in Nat /\ next[c] \in Nat /\ Len(order) \in Nat
        /\ next[c] <= size[c] + 1 /\ size[c] <= Len(order)
    BY Entries DEF IInv, Typed, Bounds
  <2>2. k \in 1..Len(order)
    BY <2>1
  <2> QED
    BY <1>1, <2>2, Entries DEF IInv
<1> QED
  BY <1>1, <1>2, <1>3, <1>4

(* A step that leaves the closes where they are: the dict may grow, and tasks *)
(* go on.                                                                     *)
LEMMA GrowLInv ==
    ASSUME IInv, LInv,
           \/ order' = order
           \/ \E h \in Hosts : order' = Append(order, h),
           \A t \in Tasks : fut[t] # "none" => fut'[t] # "none",
           \A t \in Tasks : fut'[t] = "queued" => \E i \in 1..Len(queue') : queue'[i] = t,
           UNCHANGED <<pc, shut, size, next, snap, bridges, early>>
    PROVE  LInv'
<1>1. /\ Registered \subseteq Registered' /\ Len(order) <= Len(order')
      /\ \A h \in early : Asked(h) => Asked(h)'
      /\ \A c \in Closers : \A k \in 1..(next[c] - 1) :
            fut[Stop(order[k], c)] # "none" => fut'[Stop(order'[k], c)] # "none"
  BY AskedKept DEF LInv
<1>2. \A c \in Closers : size[c] <= Len(order')
  <2>1. Len(order) \in Nat /\ Len(order') \in Nat
    <3>1. order \in Seq(Hosts)
      BY DEF IInv, Typed
    <3>2. order' \in Seq(Hosts)
      BY <3>1, AppendProperties
    <3> QED
      BY <3>1, <3>2, LenProperties
  <2> QED
    BY <1>1, <2>1 DEF LInv, Bounds, IInv, Typed
<1>3. Bounds'
  BY <1>1, <1>2 DEF LInv, Bounds
<1>4. Loops'
  BY <1>1 DEF LInv, Loops, Through
<1> QED
  BY <1>3, <1>4 DEF LInv

LEMMA AppendQueue ==
    ASSUME IInv, LInv, NEW t \in Tasks, Submit(t)
    PROVE  /\ \A u \in Tasks : fut'[u] = IF u = t THEN "queued" ELSE fut[u]
           /\ \A u \in Tasks : fut'[u] = "queued" => \E i \in 1..Len(queue') : queue'[i] = u
<1>1. /\ queue \in Seq(Tasks) /\ queue' = Append(queue, t) /\ Len(queue) \in Nat
      /\ Len(queue') = Len(queue) + 1 /\ queue'[Len(queue) + 1] = t
      /\ \A i \in 1..Len(queue) : queue'[i] = queue[i]
  BY AppendProperties, LenProperties DEF IInv, Typed, Submit
<1>2. \A u \in Tasks : fut'[u] = IF u = t THEN "queued" ELSE fut[u]
  BY DEF IInv, Typed, Submit
<1>3. ASSUME NEW u \in Tasks, fut'[u] = "queued"
      PROVE  \E i \in 1..Len(queue') : queue'[i] = u
  <2>1. CASE u = t
    BY <1>1, <2>1
  <2>2. CASE u # t
    <3>1. PICK i \in 1..Len(queue) : queue[i] = u
      BY <1>2, <1>3, <2>2 DEF LInv, Loops
    <3> QED
      BY <1>1, <3>1
  <2> QED
    BY <2>1, <2>2
<1> QED
  BY <1>2, <1>3

LEMMA SubmitDefLInv ==
    ASSUME IInv, LInv, NEW c \in Closers, NEW h \in Hosts, SubmitDef(c, h)
    PROVE  LInv'
<1>1. Create(h) \in Tasks /\ Submit(Create(h))
  BY DEF SubmitDef, Tasks
<1>2. /\ \A u \in Tasks : fut'[u] = IF u = Create(h) THEN "queued" ELSE fut[u]
      /\ \A u \in Tasks : fut'[u] = "queued" => \E i \in 1..Len(queue') : queue'[i] = u
  BY <1>1, AppendQueue
<1>3. \A u \in Tasks : fut[u] # "none" => fut'[u] # "none"
  BY <1>2
<1> QED
  BY <1>2, <1>3, GrowLInv DEF SubmitDef

LEMMA RegisterLInv ==
    ASSUME IInv, LInv, NEW c \in Closers, Register(c)
    PROVE  LInv'
<1>1. new[c] \in Hosts
  BY DEF Register, IInv, Typed
<1>2. order' \in {order, Append(order, new[c])}
  BY <1>1, KeyKept DEF Register, IInv
<1> QED
  BY <1>1, <1>2, GrowLInv DEF Register, LInv, Loops

LEMMA StartCloseLInv ==
    ASSUME IInv, IInv', LInv, NEW c \in Closers, pc[c] \in {"script", "listening"}, StartClose(c)
    PROVE  LInv'
<1>1. /\ pc' = [pc EXCEPT ![c] = "wait"] /\ pc \in [Closers -> PC]
      /\ size' = [size EXCEPT ![c] = Len(order)] /\ size \in [Closers -> Nat]
      /\ UNCHANGED <<order, fut, queue, shut, next, bridges>>
  BY DEF StartClose, Go, IInv, Typed
<1>2. Registered' = Registered /\ Len(order) \in Nat
  BY <1>1, Entries DEF Registered, IInv
<1>3. snap' \in [Closers -> SUBSET Tasks]
  <2>1. {Create(h) : h \in Registered} \subseteq Tasks
    BY Entries DEF IInv, Tasks
  <2> QED
    BY <2>1 DEF StartClose, LInv, Bounds
<1>4. early' \subseteq Registered'
  BY <1>2 DEF StartClose, LInv, Bounds
<1>5. Bounds'
  <2>1. \A d \in Closers : size[d] <= size'[d] /\ size'[d] <= Len(order) /\ size'[d] \in Nat
    BY <1>1, <1>2 DEF LInv, Bounds
  <2>2. \A d \in Closers : next[d] \in 1..(size'[d] + 1)
    BY <1>1, <2>1 DEF LInv, Bounds
  <2> QED
    BY <1>1, <1>3, <1>4, <2>1, <2>2 DEF LInv, Bounds
<1>6. \A d \in Closers : Through(d)' <=> Through(d)
  BY <1>1 DEF Through
<1>7. (\E d \in Closers : Through(d)) => early' = early
  BY DEF StartClose, Through
<1>8. Loops'
  BY <1>1, <1>6, <1>7 DEF LInv, Loops, Asked
<1> QED
  BY <1>5, <1>8 DEF LInv

LEMMA WaitEndsLInv ==
    ASSUME IInv, IInv', LInv, NEW c \in Closers, WaitEnds(c)
    PROVE  LInv'
<1>1. /\ pc' = [pc EXCEPT ![c] = "foreach"] /\ pc \in [Closers -> PC] /\ pc[c] = "wait"
      /\ size' = [size EXCEPT ![c] = Len(order)] /\ size \in [Closers -> Nat]
      /\ UNCHANGED <<order, fut, queue, shut, next, snap, bridges, early>>
  BY DEF WaitEnds, Go, IInv, Typed
<1>2. Registered' = Registered /\ Len(order) \in Nat
  BY <1>1, Entries DEF Registered, IInv
<1>3. Bounds'
  BY <1>1, <1>2 DEF LInv, Bounds, IInv, Typed
<1>4. \A d \in Closers : Through(d)' <=> Through(d)
  BY <1>1 DEF Through
<1>5. Loops'
  BY <1>1, <1>4 DEF LInv, Loops, Asked
<1> QED
  BY <1>3, <1>5 DEF LInv

LEMMA SubmitStopLInv ==
    ASSUME IInv, IInv', LInv, NEW c \in Closers, SubmitStop(c)
    PROVE  LInv'
<1>1. /\ pc[c] = "foreach" /\ Len(order) = size[c] /\ next[c] <= size[c] /\ ~shut
      /\ next' = [next EXCEPT ![c] = @ + 1] /\ next \in [Closers -> Nat \ {0}]
      /\ size \in [Closers -> Nat]
      /\ Submit(Stop(order[next[c]], c))
      /\ UNCHANGED <<pc, order, shut, size, snap, bridges, early>>
  BY DEF SubmitStop, IInv, Typed
<1>2. Len(order) \in Nat /\ next[c] \in 1..Len(order) /\ Stop(order[next[c]], c) \in Tasks
  BY <1>1, Entries DEF IInv
<1>3. /\ \A u \in Tasks : fut'[u] = IF u = Stop(order[next[c]], c) THEN "queued" ELSE fut[u]
      /\ \A u \in Tasks : fut'[u] = "queued" => \E i \in 1..Len(queue') : queue'[i] = u
  BY <1>1, <1>2, AppendQueue
<1>4. /\ Registered \subseteq Registered'
      /\ \A h \in early : Asked(h) => Asked(h)'
      /\ \A d \in Closers : \A k \in 1..(next[d] - 1) :
            fut[Stop(order[k], d)] # "none" => fut'[Stop(order'[k], d)] # "none"
  BY <1>1, <1>3, AskedKept DEF LInv
<1>5. Bounds'
  BY <1>1, <1>4 DEF LInv, Bounds
<1>6. \A d \in Closers : \A k \in 1..(next'[d] - 1) : fut'[Stop(order'[k], d)] # "none"
  <2>1. \A d \in Closers : \A k \in 1..(next'[d] - 1) : k \in 1..(next[d] - 1) \/ (d = c /\ k = next[c])
    BY <1>1
  <2> QED
    BY <1>1, <1>2, <1>3, <1>4, <2>1 DEF LInv, Loops
<1>7. Loops'
  BY <1>1, <1>3, <1>4, <1>6 DEF LInv, Loops, Through
<1> QED
  BY <1>5, <1>7 DEF LInv

(* A close that reaches the end of its loop has asked for every stop.         *)
LEMMA ForeachEndsLInv ==
    ASSUME IInv, IInv', LInv, NEW c \in Closers, ForeachEnds(c)
    PROVE  LInv'
<1>1. /\ pc[c] = "foreach" /\ Len(order) = size[c] /\ next[c] > size[c]
      /\ pc' = [pc EXCEPT ![c] = "shutdown"] /\ pc \in [Closers -> PC]
      /\ UNCHANGED <<order, fut, queue, shut, size, next, snap, bridges, early>>
  BY DEF ForeachEnds, Go, IInv, Typed
<1>2. Bounds'
  BY <1>1 DEF LInv, Bounds, Registered
<1>3. \A h \in early : Asked(h)
  <2> SUFFICES ASSUME NEW h \in early
               PROVE  Asked(h)
    OBVIOUS
  <2>1. PICK k \in 1..Len(order) : order[k] = h
    BY Entries DEF IInv, LInv, Bounds
  <2>2. k \in 1..(next[c] - 1)
    BY <1>1, <2>1 DEF IInv, Typed
  <2> QED
    BY <2>1, <2>2 DEF LInv, Loops, Asked
<1>4. \A d \in Closers : Through(d) => Through(d)'
  BY <1>1 DEF Through
<1>5. Loops'
  BY <1>1, <1>3, <1>4 DEF LInv, Loops, Asked
<1> QED
  BY <1>2, <1>5 DEF LInv

(* The other steps of a close, and the end of a pipe thread. *)
LEMMA OtherStepLInv ==
    ASSUME IInv, IInv', LInv, NEW c \in Closers,
           \/ ForeachRaises(c) \/ ShutdownExecutor(c) \/ ExecutorEnds(c) \/ CloseRealHosts(c)
           \/ PipeDies(c)
    PROVE  LInv'
<1>1. /\ pc \in [Closers -> PC]
      /\ UNCHANGED <<order, fut, queue, size, next, snap, early>>
      /\ shut' = shut \/ shut' = TRUE
      /\ bridges' = bridges \/ bridges' = FALSE
  BY DEF ForeachRaises, ShutdownExecutor, ExecutorEnds, CloseRealHosts, PipeDies, IInv, Typed
<1>2. Bounds'
  BY <1>1 DEF LInv, Bounds, Registered
<1>3. \A d \in Closers : Through(d)' <=> Through(d)
  BY <1>1 DEF ForeachRaises, ShutdownExecutor, ExecutorEnds, CloseRealHosts, PipeDies, Ready, Go,
              Through
<1>4. Loops'
  BY <1>1, <1>3 DEF LInv, Loops, Asked
<1> QED
  BY <1>2, <1>4 DEF LInv

LEMMA WorkerStepLInv ==
    ASSUME IInv, IInv', LInv, WorkerStep
    PROVE  LInv'
<1>1. /\ UNCHANGED <<pc, shut, size, next, snap, bridges, early>>
      /\ order' = order \/ \E h \in Hosts : order' = Append(order, h)
  <2>1. ASSUME NEW h \in Hosts, EndCreate(h)
        PROVE  order' \in {order, Append(order, h)}
    BY <2>1, KeyKept DEF EndCreate, IInv
  <2> QED
    BY <2>1 DEF WorkerStep, StartTask, EndCreate, EndStop, Ends
<1>2. /\ \A t \in Tasks : fut[t] # "none" => fut'[t] # "none"
      /\ \A t \in Tasks : fut'[t] = "queued" => \E i \in 1..Len(queue') : queue'[i] = t
  <2>1. CASE StartTask
    <3>1. /\ queue \in Seq(Tasks) /\ Len(queue) \in Nat \ {0} /\ Head(queue) = queue[1]
          /\ Len(queue') = Len(queue) - 1
          /\ \A i \in 1..Len(queue') : queue'[i] = queue[i + 1]
      BY <2>1, HeadTailProperties, EmptySeq, LenProperties DEF StartTask, IInv, Typed
    <3>2. /\ fut \in [Tasks -> {"none", "queued", "running", "ok"}]
          /\ fut' = [fut EXCEPT ![queue[1]] = "running"]
      BY <2>1, <3>1 DEF StartTask, IInv, Typed
    <3>3. ASSUME NEW t \in Tasks, fut'[t] = "queued"
          PROVE  \E i \in 1..Len(queue') : queue'[i] = t
      <4>1. fut[t] = "queued" /\ t # queue[1]
        BY <3>2, <3>3
      <4>2. PICK i \in 1..Len(queue) : queue[i] = t
        BY <4>1 DEF LInv, Loops
      <4>3. i - 1 \in 1..Len(queue') /\ queue'[i - 1] = t
        BY <3>1, <4>1, <4>2
      <4> QED
        BY <4>3
    <3> QED
      BY <3>2, <3>3
  <2>2. ASSUME NEW t \in Tasks, Ends(t)
        PROVE  /\ \A u \in Tasks : fut[u] # "none" => fut'[u] # "none"
               /\ \A u \in Tasks : fut'[u] = "queued" => \E i \in 1..Len(queue') : queue'[i] = u
    BY <2>2 DEF Ends, IInv, Typed, LInv, Loops
  <2>3. CASE ~StartTask
    <3>1. \E t \in Tasks : Ends(t)
      BY <2>3 DEF WorkerStep, EndCreate, EndStop, Tasks
    <3> QED
      BY <2>2, <3>1
  <2> QED
    BY <2>1, <2>3
<1> QED
  BY <1>1, <1>2, GrowLInv

LEMMA NextLInv ==
    ASSUME IInv, LInv, [Next]_vars
    PROVE  LInv'
<1>1. IInv'
  BY NextIInv
<1>2. CASE EndOfScript
  BY <1>1, <1>2, StartCloseLInv DEF EndOfScript, Ready, Closers
<1>3. ASSUME NEW c \in Closers, NEW h \in Hosts, SubmitDef(c, h)
      PROVE  LInv'
  BY <1>3, SubmitDefLInv
<1>4. ASSUME NEW h \in Hosts, Fatal(h) \/ PipeDies(h)
      PROVE  LInv'
  <2>1. h \in Closers /\ pc[h] \in {"script", "listening"}
    BY <1>4 DEF Fatal, PipeDies, Ready, Closers
  <2>2. CASE Fatal(h)
    BY <1>1, <2>1, <2>2, StartCloseLInv DEF Fatal
  <2>3. CASE PipeDies(h)
    BY <1>1, <2>1, <2>3, OtherStepLInv
  <2> QED
    BY <1>4, <2>2, <2>3
<1>5. ASSUME NEW c \in Closers, CloseStep(c) \/ Register(c)
      PROVE  LInv'
  BY <1>1, <1>5, WaitEndsLInv, SubmitStopLInv, ForeachEndsLInv, OtherStepLInv, RegisterLInv
     DEF CloseStep
<1>6. CASE WorkerStep
  BY <1>1, <1>6, WorkerStepLInv
<1>7. CASE UNCHANGED vars
  BY <1>7 DEF vars, LInv, Bounds, Loops, Registered, Through, Asked
<1> QED
  BY <1>2, <1>3, <1>4, <1>5, <1>6, <1>7 DEF Next

--------------------------------------------------------------------------------
(* Theorems *)

(* In every reachable state a close that is past executor.shutdown(wait=True) *)
(* has left an executor that is empty and takes no task.                      *)
THEOREM Inductive == Spec => []IInv
  BY InitIInv, NextIInv, PTL DEF Spec

(* No task runs, or waits to run, once close_real_hosts has removed the       *)
(* topology, whoever closes the pool and in whichever order.                  *)
THEOREM TopologyOutlivesTasks == Spec => []NoTaskWithoutBridges
<1>1. IInv => NoTaskWithoutBridges
  BY DEF IInv, Ordered, Drained, NoTaskWithoutBridges
<1> QED
  BY <1>1, Inductive, PTL

(* In every reachable state each close has submitted the stop of every host   *)
(* that its loop has passed (1039-1040), although the dict may grow under it, *)
(* and once some close is through its loop every host that was registered     *)
(* before the first close has been asked to stop.                             *)
THEOREM LoopsInductive == Spec => [](IInv /\ LInv)
<1>1. IInv /\ LInv /\ [Next]_vars => LInv'
  BY NextLInv
<1> QED
  BY <1>1, InitLInv, Inductive, PTL DEF Spec

(* Every variable of the closing pool keeps its type.                         *)
THEOREM TypeCorrect == Spec => []TypeOK
<1>1. IInv /\ LInv => TypeOK
  BY Entries DEF IInv, Typed, LInv, Bounds, TypeOK
<1> QED
  BY <1>1, LoopsInductive, PTL

(* However many threads close the pool or define hosts meanwhile, and although*)
(* a close may end with an exception: when close_real_hosts has removed the   *)
(* topology, every host that was registered before the first close is stopped.*)
THEOREM EarlierStopped == Spec => []EarlierHostsStopped
<1>1. ASSUME IInv, LInv, ~bridges, NEW h \in early
      PROVE  Stopped(h)
  <2>1. Drained /\ \E c \in Closers : Through(c)
    BY <1>1 DEF IInv, Ordered, Joined, Through
  <2>2. PICK c \in Closers : fut[Stop(h, c)] # "none"
    BY <1>1, <2>1 DEF LInv, Loops, Asked
  <2>3. Stop(h, c) \in Tasks
    BY <1>1, Entries DEF IInv, LInv, Bounds
  <2>4. fut[Stop(h, c)] # "queued" /\ fut[Stop(h, c)] # "running"
    <3>1. queue = <<>> /\ Running = {}
      BY <2>1 DEF Drained
    <3> QED
      BY <1>1, <2>3, <3>1 DEF LInv, Loops, Running
  <2> QED
    BY <1>1, <2>2, <2>3, <2>4 DEF IInv, Typed, Stopped
<1>2. IInv /\ LInv => EarlierHostsStopped
  BY <1>1 DEF EarlierHostsStopped
<1> QED
  BY <1>2, LoopsInductive, PTL
================================================================================
