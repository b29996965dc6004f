-------------------------------- MODULE Shutdown --------------------------------
(* Closing the pool from several threads, in parallel mode: main closes it at *)
(* the end of the script, and the thread that reads the pipe of a host closes *)
(* it too when a `fatal' message arrives. Main, and every pipe thread with a  *)
(* `cmd' message, may still define hosts meanwhile. Each close also stops the *)
(* administrative host itself, on which nothing here depends. Nothing fails   *)
(* here; HostPool has the close of main with failures.                        *)
EXTENDS Naturals, Sequences, FiniteSets

CONSTANTS
    Hosts,        \* virtual hosts that the script may define
    NWorkers,     \* max_parallel_workers
    Main, None

(* A host stands for the thread of its pipe. *)
Closers == Hosts \cup {Main}

ASSUME ShutdownAssumption ==
    /\ IsFiniteSet(Hosts)
    /\ NWorkers \in Nat \ {0}
    /\ Main \notin Hosts /\ None \notin Hosts

VARIABLES
    pc,          \* pc[c]: where the thread c is in close
    new,         \* new[c]: the host that c has submitted and not registered yet, or None
    order,       \* the keys of hosts_dict
    fut,         \* fut[t]: the state of the task t
    queue,       \* the work queue of the executor
    shut,        \* the executor takes no more tasks
    size,        \* size[c]: of hosts_dict when its loop over it started
    next,        \* next[c]: the host at which the loop is
    snap,        \* snap[c]: the tasks that its waitall waits for
    bridges,     \* the topology namespaces of the real hosts exist
    early        \* the hosts that were registered when the first close began

vars == <<pc, new, order, fut, queue, shut, size, next, snap, bridges, early>>

Create(h) == <<"create", h, Main>>
Stop(h, c) == <<"stop", h, c>>
Tasks == {Create(h) : h \in Hosts} \cup {Stop(h, c) : h \in Hosts, c \in Closers}

PC == {"script", "listening", "wait", "foreach", "shutdown", "join", "bridges", "done", "raised"}
Closing(c) == pc[c] \in {"wait", "foreach", "shutdown", "join", "bridges"}
Go(c, stage) == pc' = [pc EXCEPT ![c] = stage]

Running == {t \in Tasks : fut[t] = "running"}
Created(h) == fut[Create(h)] = "ok"
Stopped(h) == \E c \in Closers : fut[Stop(h, c)] = "ok"

Submit(t) ==
    /\ queue' = Append(queue, t)
    /\ fut' = [fut EXCEPT ![t] = "queued"]

Init ==
    /\ pc = [c \in Closers |-> IF c = Main THEN "script" ELSE "listening"]
    /\ new = [c \in Closers |-> None]
    /\ order = <<>>
    /\ fut = [t \in Tasks |-> "none"]
    /\ queue = <<>>
    /\ shut = FALSE
    /\ size = [c \in Closers |-> 0] /\ next = [c \in Closers |-> 1]
    /\ snap = [c \in Closers |-> {}]
    /\ bridges = TRUE
    /\ early = {}

--------------------------------------------------------------------------------
(* The beginning of a close *)

Registered == {order[k] : k \in DOMAIN order}
Undefined == {h \in Hosts : fut[Create(h)] = "none"}

(* Between two commands. A pipe is read until its host is stopped.            *)
Ready(c) ==
    /\ new[c] = None
    /\ \/ c = Main /\ pc[c] = "script"
       \/ c # Main /\ pc[c] = "listening" /\ Created(c) /\ ~Stopped(c)

(* The first half of def, in the script or in the `cmd' of a pipe: submit.    *)
SubmitDef(c, h) ==
    /\ Ready(c)
    /\ h \in Undefined /\ ~shut
    /\ Submit(Create(h))
    /\ new' = [new EXCEPT ![c] = h]
    /\ UNCHANGED <<pc, order, shut, size, next, snap, bridges, early>>

(* A key of the dict; setting it again does not resize the dict. *)
WithKey(h) == IF h \in Registered THEN order ELSE Append(order, h)

(* Its second half: register_host. *)
Register(c) ==
    /\ new[c] # None
    /\ order' = WithKey(new[c])
    /\ new' = [new EXCEPT ![c] = None]
    /\ UNCHANGED <<pc, fut, queue, shut, size, next, snap, bridges, early>>

(* The submit raises RuntimeError after the executor was shut down: 2141      *)
(* catches KeyError and IOError only, and the thread of the pipe ends.        *)
PipeDies(h) ==
    /\ Ready(h)
    /\ Undefined # {} /\ shut
    /\ Go(h, "raised")
    /\ UNCHANGED <<new, order, fut, queue, shut, size, next, snap, bridges, early>>

(* close: waitall first. *)
StartClose(c) ==
    /\ Go(c, "wait")
    /\ snap' = [snap EXCEPT ![c] = {Create(h) : h \in Registered}]
    /\ size' = [size EXCEPT ![c] = Len(order)]
    /\ early' = IF \A d \in Closers : pc[d] \in {"script", "listening"} THEN Registered ELSE early
    /\ UNCHANGED <<new, order, fut, queue, shut, next, bridges>>

(* The end of the script, or a submit after the executor was shut down. *)
EndOfScript ==
    /\ Ready(Main)
    /\ StartClose(Main)

(* exec_remote *)
Fatal(h) ==
    /\ Ready(h)
    /\ StartClose(h)

(* Exceptions of waitall are ignored, such as that of a loop over hosts_dict  *)
(* when it grows.                                                             *)
WaitEnds(c) ==
    /\ pc[c] = "wait"
    /\ (\A t \in snap[c] : fut[t] = "ok") \/ Len(order) # size[c]
    /\ Go(c, "foreach")
    /\ size' = [size EXCEPT ![c] = Len(order)]
    /\ UNCHANGED <<new, order, fut, queue, shut, next, snap, bridges, early>>

--------------------------------------------------------------------------------
(* parallel_foreach_host(stop_host) *)

(* The loop waits for the next host and submits its stop. *)
SubmitStop(c) ==
    /\ pc[c] = "foreach"
    /\ Len(order) = size[c] /\ next[c] <= size[c]
    /\ Created(order[next[c]]) /\ ~shut
    /\ Submit(Stop(order[next[c]], c))
    /\ next' = [next EXCEPT ![c] = @ + 1]
    /\ UNCHANGED <<pc, new, order, shut, size, snap, bridges, early>>

(* Mutant: submit does not raise after the shutdown, it waits. *)
ForeachRaises_OnlyResize(c) ==
    /\ pc[c] = "foreach"
    /\ Len(order) # size[c]
    /\ Go(c, "raised")
    /\ UNCHANGED <<new, order, fut, queue, shut, size, next, snap, bridges, early>>

(* The dict has grown, or another thread has shut the executor down: the      *)
(* exception ends close, and in main the program.                             *)
ForeachRaises(c) ==
    /\ pc[c] = "foreach"
    /\ \/ Len(order) # size[c]
       \/ next[c] <= size[c] /\ Created(order[next[c]]) /\ shut
    /\ Go(c, "raised")
    /\ UNCHANGED <<new, order, fut, queue, shut, size, next, snap, bridges, early>>

(* Mutant: the loop leaves the last host out. *)
ForeachEnds_AllButLast(c) ==
    /\ pc[c] = "foreach"
    /\ Len(order) = size[c] /\ next[c] >= size[c]
    /\ Go(c, "shutdown")
    /\ UNCHANGED <<new, order, fut, queue, shut, size, next, snap, bridges, early>>

ForeachEnds(c) ==
    /\ pc[c] = "foreach"
    /\ Len(order) = size[c] /\ next[c] > size[c]
    /\ Go(c, "shutdown")
    /\ UNCHANGED <<new, order, fut, queue, shut, size, next, snap, bridges, early>>

--------------------------------------------------------------------------------
(* executor.shutdown(wait=True), then bridges.close_real_hosts *)

ShutdownExecutor(c) ==
    /\ pc[c] = "shutdown"
    /\ shut' = TRUE
    /\ Go(c, "join")
    /\ UNCHANGED <<new, order, fut, queue, size, next, snap, bridges, early>>

(* Mutant: shutdown does not wait for the tasks. *)
ExecutorEnds_NoWait(c) ==
    /\ pc[c] = "join"
    /\ Go(c, "bridges")
    /\ UNCHANGED <<new, order, fut, queue, shut, size, next, snap, bridges, early>>

ExecutorEnds(c) ==
    /\ pc[c] = "join"
    /\ queue = <<>> /\ Running = {}
    /\ Go(c, "bridges")
    /\ UNCHANGED <<new, order, fut, queue, shut, size, next, snap, bridges, early>>

CloseRealHosts(c) ==
    /\ pc[c] = "bridges"
    /\ bridges' = FALSE
    /\ Go(c, "done")
    /\ UNCHANGED <<new, order, fut, queue, shut, size, next, snap, early>>

--------------------------------------------------------------------------------
(* The workers *)

StartTask ==
    /\ queue # <<>>
    /\ Cardinality(Running) < NWorkers
    /\ queue' = Tail(queue)
    /\ fut' = [fut EXCEPT ![Head(queue)] = "running"]
    /\ UNCHANGED <<pc, new, order, shut, size, next, snap, bridges, early>>

Ends(t) ==
    /\ fut[t] = "running"
    /\ fut' = [fut EXCEPT ![t] = "ok"]
    /\ UNCHANGED <<pc, new, queue, shut, size, next, snap, bridges, early>>

(* The done callback of a new host, add_host, may be ahead of register_host.  *)
EndCreate(h) ==
    /\ Ends(Create(h))
    /\ order' \in {order, WithKey(h)}

EndStop(h, c) ==
    /\ Ends(Stop(h, c))
    /\ UNCHANGED order

--------------------------------------------------------------------------------
CloseStep(c) ==
    \/ WaitEnds(c) \/ SubmitStop(c) \/ ForeachRaises(c) \/ ForeachEnds(c)
    \/ ShutdownExecutor(c) \/ ExecutorEnds(c) \/ CloseRealHosts(c)
WorkerStep == StartTask \/ \E h \in Hosts : EndCreate(h) \/ \E c \in Closers : EndStop(h, c)

Next ==
    \/ EndOfScript
    \/ \E h \in Hosts : Fatal(h) \/ PipeDies(h)
    \/ \E c \in Closers : CloseStep(c) \/ Register(c) \/ \E h \in Hosts : SubmitDef(c, h)
    \/ WorkerStep

(* The script ends, a def and a close go on, workers work; messages may never *)
(* arrive.                                                                    *)
Fairness ==
    /\ WF_vars(EndOfScript)
    /\ \A c \in Closers : WF_vars(CloseStep(c)) /\ WF_vars(Register(c))
    /\ WF_vars(WorkerStep)

Spec == Init /\ [][Next]_vars
FairSpec == Spec /\ Fairness

--------------------------------------------------------------------------------
(* Properties *)

(* Every variable keeps its type. *)
TypeOK ==
    /\ pc \in [Closers -> PC]
    /\ new \in [Closers -> Hosts \cup {None}]
    /\ order \in Seq(Hosts)
    /\ fut \in [Tasks -> {"none", "queued", "running", "ok"}]
    /\ queue \in Seq(Tasks)
    /\ shut \in BOOLEAN /\ bridges \in BOOLEAN
    /\ \A c \in Closers : size[c] <= Len(order) /\ next[c] \in 1..(size[c] + 1)
    /\ snap \in [Closers -> SUBSET Tasks]
    /\ early \subseteq Hosts

(* The namespaces and bridges of the real hosts are removed only after every  *)
(* host that was registered before the first close is stopped, whichever of   *)
(* the closes were cut short by another one or by a `def'. When all are cut   *)
(* short, hosts and namespaces stay.                                          *)
EarlierHostsStopped == ~bridges => \A h \in early : Stopped(h)

(* No task of a virtual host runs, or is left to run, when the namespaces and *)
(* bridges of the real hosts are gone.                                        *)
NoTaskWithoutBridges == ~bridges => queue = <<>> /\ Running = {}

(* Every close ends, and main does: no thread waits for another for ever.     *)
ClosesEnd == <>[](pc[Main] \in {"done", "raised"} /\ \A c \in Closers : ~Closing(c))
================================================================================
