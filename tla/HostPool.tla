------------------------------- MODULE HostPool --------------------------------
(* A deployment in parallel mode: the main thread interprets the topology     *)
(* script (def, connect, waitall, build-network, end of file) and closes the  *)
(* pool; the workers of its ThreadPoolExecutor create hosts and links,        *)
(* configure ARP, routes and /etc/hosts, and stop the hosts.  What a command  *)
(* does on a real host is one step of the task that runs it, and may fail.    *)
EXTENDS Naturals, Sequences, FiniteSets

CONSTANTS
    Hosts,        \* names of virtual hosts that the script may define
    Links,        \* pairs <<h1, h2>> of hosts that it may connect
    NWorkers,     \* max_parallel_workers
    Options       \* command lines and what may go wrong: see Adm below

ASSUME HostPoolAssumption ==
    /\ IsFiniteSet(Hosts)
    /\ Links \subseteq Hosts \X Hosts
    /\ NWorkers \in Nat \ {0}
    /\ Options # {}
    /\ Options \subseteq [adm : BOOLEAN, geneve : BOOLEAN,
                         faults : SUBSET STRING, interrupts : BOOLEAN]

VARIABLES
    opts,      \* the options of this execution, which never change
    main,      \* where the main thread is
    ret,       \* the stage that follows the waitall under way
    cur,       \* the host that the def under way creates
    dict,      \* hosts_dict: no entry, a Future, or the Host itself
    order,     \* the keys of hosts_dict, in insertion order
    cb,        \* cb[h]: how far add_host is with h (the done callback)
    pooled,    \* the hosts whose attribute pool is set
    fut,       \* fut[t]: the state of the Future of task t
    queue,     \* the work queue of the executor
    pending,   \* pending_tasks
    snap,      \* what as_completed took from pending_tasks
    bridged,   \* bridged[l]: the ends of l that were added to its bridge
    built      \* network_built

vars == <<opts, main, ret, cur, dict, order, cb, pooled, fut, queue, pending, snap, bridged, built>>

Adm == opts.adm                 \* --use-adm-ns: hosts get an administrative link
Geneve == opts.geneve           \* --geneve-tunnels: bridges; otherwise macvlan
Faults == opts.faults           \* kinds of tasks whose remote commands may fail
Interrupts == opts.interrupts   \* SIGINT may arrive while the script runs
Undisturbed == Faults = {} /\ ~Interrupts

HostKinds == {"host", "adm", "arp", "routes", "etc", "stop"}
Tasks == (HostKinds \X Hosts) \cup ({"link"} \X Links)

MainPC == {"script", "addcb", "inline", "register", "wait", "pending", "hosts",
           "routes", "etc", "built", "stop", "shutdown", "exit"}
Closing == {"stop", "shutdown", "exit"}
CbPC == {"none", "attached", "reg", "pool", "adm", "pend", "done"}
FutState == {"none", "queued", "running", "ok", "failed"}

Host(h) == <<"host", h>>
Link(l) == <<"link", l>>
AdmLink(h) == <<"adm", h>>
Arp(h) == <<"arp", h>>
Routes(h) == <<"routes", h>>
HostsFile(h) == <<"etc", h>>
Stop(h) == <<"stop", h>>
Foreach(Task(_)) == [i \in 1..Len(order) |-> Task(order[i])]
TasksOf(seq) == {seq[i] : i \in 1..Len(seq)}
Distinct(seq) == \A i, j \in 1..Len(seq) : seq[i] = seq[j] => i = j

(* The callback of h runs in the worker that ended the task, or in main when  *)
(* the future was done before add_done_callback.                              *)
InCallback(h) == cb[h] \in {"reg", "pool", "adm", "pend"}
Busy == {t \in Tasks : fut[t] = "running"}
        \cup {Host(h) : h \in {x \in Hosts : InCallback(x) /\ ~ (main = "inline" /\ x = cur)}}

(* What executor.submit does to the futures and to the queue. *)
Submit(ts) ==
    /\ queue' = queue \o ts
    /\ fut' = [t \in Tasks |-> IF t \in TasksOf(ts) THEN "queued" ELSE fut[t]]

Init ==
    /\ opts \in Options
    /\ main = "script" /\ ret = "stop" /\ cur \in Hosts
    /\ dict = [h \in Hosts |-> "absent"]
    /\ order = <<>>
    /\ cb = [h \in Hosts |-> "none"]
    /\ pooled = {}
    /\ fut = [t \in Tasks |-> "none"]
    /\ queue = <<>>
    /\ pending = {} /\ snap = {}
    /\ bridged = [l \in Links |-> {}]
    /\ built = FALSE

--------------------------------------------------------------------------------
(* The main thread: def *)

(* schedule_maybe_parallel_task(Host, ...): submit, then add_done_callback,   *)
(* then register_host: three steps, between which a worker may do anything.   *)
Def(h) ==
    /\ main = "script"
    /\ fut[Host(h)] = "none"
    /\ Submit(<<Host(h)>>)
    /\ cur' = h
    /\ main' = "addcb"
    /\ UNCHANGED <<opts, ret, dict, order, cb, pooled, pending, snap, bridged, built>>

(* A future that is done runs the callback here; the exception of a failed    *)
(* one is swallowed by add_done_callback.                                     *)
AddDoneCallback ==
    /\ main = "addcb"
    /\ \/ /\ fut[Host(cur)] \in {"queued", "running"}
          /\ cb' = [cb EXCEPT ![cur] = "attached"]
          /\ main' = "register"
       \/ /\ fut[Host(cur)] = "ok"
          /\ cb' = [cb EXCEPT ![cur] = "reg"]
          /\ main' = "inline"
       \/ /\ fut[Host(cur)] = "failed"
          /\ cb' = cb
          /\ main' = "register"
    /\ UNCHANGED <<opts, ret, cur, dict, order, pooled, fut, queue, pending, snap, bridged, built>>

InlineDone ==
    /\ main = "inline"
    /\ cb[cur] = "done"
    /\ main' = "register"
    /\ UNCHANGED <<opts, ret, cur, dict, order, cb, pooled, fut, queue, pending, snap, bridged, built>>

(* Mutant: hosts are kept in a list. *)
SetEntry_Appends(h, x) ==
    /\ dict' = [dict EXCEPT ![h] = x]
    /\ order' = Append(order, h)

(* register_host: hosts_dict[name] = x, which keeps the place of an old key. *)
SetEntry(h, x) ==
    /\ dict' = [dict EXCEPT ![h] = x]
    /\ order' = IF dict[h] = "absent" THEN Append(order, h) ELSE order

RegisterHost ==
    /\ main = "register"
    /\ SetEntry(cur, "future")
    /\ main' = "script"
    /\ UNCHANGED <<opts, ret, cur, cb, pooled, fut, queue, pending, snap, bridged, built>>

--------------------------------------------------------------------------------
(* The main thread: connect, build-network, close *)

(* waitall, then the stage `next'. *)
WaitAllThen(next) == main' = "wait" /\ ret' = next

(* Any exception in the script ends it: the finally of the program closes.    *)
Raise == WaitAllThen("stop")

(* find_host waits for both futures.  The done callback of a host need not    *)
(* have run when its future wakes the main thread up.                         *)
Connect(l) ==
    /\ main = "script"
    /\ fut[Link(l)] = "none"
    /\ \A i \in {1, 2} : dict[l[i]] # "absent" /\ fut[Host(l[i])] = "ok"
    /\ Submit(<<Link(l)>>)
    /\ pending' = pending \cup {Link(l)}
    /\ UNCHANGED <<opts, main, ret, cur, dict, order, cb, pooled, snap, bridged, built>>

(* find_host re-raises what the creation of the host raised. *)
ConnectFails(l) ==
    /\ main = "script"
    /\ \A i \in {1, 2} : dict[l[i]] # "absent"
    /\ \/ fut[Host(l[1])] = "failed"
       \/ fut[Host(l[1])] = "ok" /\ fut[Host(l[2])] = "failed"
    /\ Raise
    /\ UNCHANGED <<opts, cur, dict, order, cb, pooled, fut, queue, pending, snap, bridged, built>>

(* Mutant: build-network does not wait for what is pending. *)
BuildNetwork_NoWait ==
    /\ main = "script"
    /\ ~built
    /\ main' = "routes"
    /\ UNCHANGED <<opts, ret, cur, dict, order, cb, pooled, fut, queue, pending, snap, bridged, built>>

(* The command waitall. *)
CmdWaitall ==
    /\ main = "script"
    /\ WaitAllThen("script")
    /\ UNCHANGED <<opts, cur, dict, order, cb, pooled, fut, queue, pending, snap, bridged, built>>

BuildNetwork ==
    /\ main = "script"
    /\ ~built
    /\ WaitAllThen("routes")
    /\ UNCHANGED <<opts, cur, dict, order, cb, pooled, fut, queue, pending, snap, bridged, built>>

(* Mutant: close stops the hosts without a waitall. *)
EndOfScript_NoWait ==
    /\ main = "script"
    /\ main' = "stop"
    /\ UNCHANGED <<opts, ret, cur, dict, order, cb, pooled, fut, queue, pending, snap, bridged, built>>

EndOfScript ==
    /\ main = "script"
    /\ WaitAllThen("stop")
    /\ UNCHANGED <<opts, cur, dict, order, cb, pooled, fut, queue, pending, snap, bridged, built>>

Interrupt ==
    /\ Interrupts
    /\ main \notin Closing \cup {"inline"}
    /\ ~ (main \in {"wait", "pending", "hosts"} /\ ret = "stop")
    /\ Raise
    /\ UNCHANGED <<opts, cur, dict, order, cb, pooled, fut, queue, pending, snap, bridged, built>>

(* Mutant: close does not ignore the exception and is entered again. *)
WaitFails_Raises == Raise

(* close ignores an exception of its own waitall. *)
WaitFails == IF ret = "stop" THEN main' = "stop" /\ ret' = ret ELSE Raise

(* wait_on_pending_tasks: as_completed copies the list. *)
Snapshot ==
    /\ main = "wait"
    /\ snap' = pending
    /\ main' = "pending"
    /\ UNCHANGED <<opts, ret, cur, dict, order, cb, pooled, fut, queue, pending, bridged, built>>

(* Mutant: the main thread goes on with the first future that is done. *)
PendingDone_FirstCompleted ==
    /\ main = "pending"
    /\ snap = {} \/ \E t \in snap : fut[t] = "ok"
    /\ pending' = {}
    /\ main' = "hosts"
    /\ UNCHANGED <<opts, ret, cur, dict, order, cb, pooled, fut, queue, snap, bridged, built>>

PendingDone ==
    /\ main = "pending"
    /\ \A t \in snap : fut[t] = "ok"
    /\ pending' = {}
    /\ main' = "hosts"
    /\ UNCHANGED <<opts, ret, cur, dict, order, cb, pooled, fut, queue, snap, bridged, built>>

(* as_completed yields a failed future: result() raises at once, the others   *)
(* are still under way and pending_tasks keeps its content.                   *)
PendingFails ==
    /\ main = "pending"
    /\ \E t \in snap : fut[t] = "failed"
    /\ WaitFails
    /\ UNCHANGED <<opts, cur, dict, order, cb, pooled, fut, queue, pending, snap, bridged, built>>

(* The loops over hosts_dict go on to the first host that is not created yet, *)
(* and raise when its creation failed.                                        *)
Created(h) == fut[Host(h)] = "ok"
FailsAt(k) == /\ k \in 1..Len(order)
              /\ fut[Host(order[k])] = "failed"
              /\ \A i \in 1..(k - 1) : Created(order[i])

HostsDone ==
    /\ main = "hosts"
    /\ \A i \in 1..Len(order) : Created(order[i])
    /\ main' = ret
    /\ UNCHANGED <<opts, ret, cur, dict, order, cb, pooled, fut, queue, pending, snap, bridged, built>>

HostsFail ==
    /\ main = "hosts"
    /\ \E k \in 1..Len(order) : FailsAt(k)
    /\ WaitFails
    /\ UNCHANGED <<opts, cur, dict, order, cb, pooled, fut, queue, pending, snap, bridged, built>>

(* parallel_foreach_host, after a waitall that found every host created. *)
SubmitForeach(ts) == Submit(ts) /\ pending' = pending \cup TasksOf(ts)

GenerateRoutes ==
    /\ main = "routes"
    /\ SubmitForeach((IF Geneve THEN <<>> ELSE Foreach(Arp)) \o Foreach(Routes))
    /\ WaitAllThen("etc")
    /\ UNCHANGED <<opts, cur, dict, order, cb, pooled, snap, bridged, built>>

(* Mutant: the network is announced before the hosts files are written. *)
BuildEtcHosts_NoWait ==
    /\ main = "etc"
    /\ SubmitForeach(Foreach(HostsFile))
    /\ main' = "built"
    /\ UNCHANGED <<opts, ret, cur, dict, order, cb, pooled, snap, bridged, built>>

BuildEtcHosts ==
    /\ main = "etc"
    /\ SubmitForeach(Foreach(HostsFile))
    /\ WaitAllThen("built")
    /\ UNCHANGED <<opts, cur, dict, order, cb, pooled, snap, bridged, built>>

(* The main thread writes the hosts file of the administrative host last. *)
AdmHostFails ==
    /\ main = "built"
    /\ Adm /\ "etc" \in Faults
    /\ Raise
    /\ UNCHANGED <<opts, cur, dict, order, cb, pooled, fut, queue, pending, snap, bridged, built>>

NetworkBuilt ==
    /\ main = "built"
    /\ built' = TRUE
    /\ main' = "script"
    /\ UNCHANGED <<opts, ret, cur, dict, order, cb, pooled, fut, queue, pending, snap, bridged>>

(* Mutant: the loop that stops the hosts ends one host early. *)
StopHosts_AllButLast ==
    /\ main = "stop"
    /\ \/ /\ \A i \in 1..Len(order) : Created(order[i])
          /\ SubmitForeach(SubSeq(Foreach(Stop), 1, Len(order) - 1))
          /\ main' = "shutdown"
       \/ \E k \in 1..Len(order) :
          /\ FailsAt(k)
          /\ SubmitForeach(SubSeq(Foreach(Stop), 1, k - 1))
          /\ main' = "exit"
    /\ UNCHANGED <<opts, ret, cur, dict, order, cb, pooled, snap, bridged, built>>

(* close: the loop that submits stop_host raises at a host that failed, which *)
(* leaves close; otherwise it waits for the executor.                         *)
StopHosts ==
    /\ main = "stop"
    /\ \/ /\ \A i \in 1..Len(order) : Created(order[i])
          /\ SubmitForeach(Foreach(Stop))
          /\ main' = "shutdown"
       \/ \E k \in 1..Len(order) :
          /\ FailsAt(k)
          /\ SubmitForeach(SubSeq(Foreach(Stop), 1, k - 1))
          /\ main' = "exit"
    /\ UNCHANGED <<opts, ret, cur, dict, order, cb, pooled, snap, bridged, built>>

ExecutorShutdown ==
    /\ main = "shutdown"
    /\ queue = <<>> /\ Busy = {}
    /\ main' = "exit"
    /\ UNCHANGED <<opts, ret, cur, dict, order, cb, pooled, fut, queue, pending, snap, bridged, built>>

--------------------------------------------------------------------------------
(* The workers *)

StartTask ==
    /\ queue # <<>>
    /\ Cardinality(Busy) < NWorkers
    /\ queue' = Tail(queue)
    /\ fut' = [fut EXCEPT ![Head(queue)] = "running"]
    /\ UNCHANGED <<opts, main, ret, cur, dict, order, cb, pooled, pending, snap, bridged, built>>

(* etchosts reads an attribute of every value of hosts_dict: a Future that is *)
(* still there has none.                                                      *)
HostsFileReadable == \A h \in Hosts : dict[h] # "future"

(* The end of a task sets the result of its future; for a host the worker     *)
(* goes on with the done callback.  veth skips the bridge when the host has   *)
(* no pool yet.                                                               *)
TaskOk(t) ==
    /\ fut[t] = "running"
    /\ t[1] = "etc" => HostsFileReadable
    /\ fut' = [fut EXCEPT ![t] = "ok"]
    /\ cb' = IF t[1] = "host" /\ cb[t[2]] = "attached" THEN [cb EXCEPT ![t[2]] = "reg"] ELSE cb
    /\ bridged' = IF t[1] = "link" /\ Geneve
                  THEN [bridged EXCEPT ![t[2]] = {t[2][1], t[2][2]} \cap pooled]
                  ELSE bridged
    /\ UNCHANGED <<opts, main, ret, cur, dict, order, pooled, queue, pending, snap, built>>

(* stop_host ignores exceptions, so a "stop" task never fails. *)
TaskFails(t) ==
    /\ fut[t] = "running"
    /\ t[1] # "stop"
    /\ t[1] \in Faults \/ (t[1] = "etc" /\ ~HostsFileReadable)
    /\ fut' = [fut EXCEPT ![t] = "failed"]
    /\ UNCHANGED <<opts, main, ret, cur, dict, order, cb, pooled, queue, pending, snap, bridged, built>>

(* add_host, in the thread that runs the callback. *)
CbRegister(h) ==
    /\ cb[h] = "reg"
    /\ SetEntry(h, "host")
    /\ cb' = [cb EXCEPT ![h] = "pool"]
    /\ UNCHANGED <<opts, main, ret, cur, pooled, fut, queue, pending, snap, bridged, built>>

CbPool(h) ==
    /\ cb[h] = "pool"
    /\ pooled' = pooled \cup {h}
    /\ cb' = [cb EXCEPT ![h] = IF Adm THEN "adm" ELSE "done"]
    /\ UNCHANGED <<opts, main, ret, cur, dict, order, fut, queue, pending, snap, bridged, built>>

(* submit raises once the executor, or the interpreter, is shutting down. *)
CbSubmitAdm(h) ==
    /\ cb[h] = "adm"
    /\ IF main \in {"shutdown", "exit"}
       THEN cb' = [cb EXCEPT ![h] = "done"] /\ UNCHANGED <<queue, fut>>
       ELSE cb' = [cb EXCEPT ![h] = "pend"] /\ Submit(<<AdmLink(h)>>)
    /\ UNCHANGED <<opts, main, ret, cur, dict, order, pooled, pending, snap, bridged, built>>

CbQueuePending(h) ==
    /\ cb[h] = "pend"
    /\ pending' = pending \cup {AdmLink(h)}
    /\ cb' = [cb EXCEPT ![h] = "done"]
    /\ UNCHANGED <<opts, main, ret, cur, dict, order, pooled, fut, queue, snap, bridged, built>>

--------------------------------------------------------------------------------
MainWaits == Snapshot \/ PendingDone \/ PendingFails \/ HostsDone \/ HostsFail
MainStep ==
    \/ AddDoneCallback \/ InlineDone \/ RegisterHost
    \/ MainWaits \/ GenerateRoutes \/ BuildEtcHosts \/ AdmHostFails \/ NetworkBuilt
    \/ StopHosts \/ ExecutorShutdown
    \/ EndOfScript
ScriptStep ==
    \/ \E h \in Hosts : Def(h)
    \/ \E l \in Links : Connect(l) \/ ConnectFails(l)
    \/ CmdWaitall \/ BuildNetwork
CbStep(h) == CbRegister(h) \/ CbPool(h) \/ CbSubmitAdm(h) \/ CbQueuePending(h)
TaskStep(t) == TaskOk(t) \/ TaskFails(t)

Drained == main = "exit" /\ queue = <<>> /\ Busy = {}
Terminated == Drained /\ UNCHANGED vars

Next ==
    \/ ScriptStep \/ MainStep \/ Interrupt
    \/ StartTask
    \/ \E t \in Tasks : TaskStep(t)
    \/ \E h \in Hosts : CbStep(h)
    \/ Terminated

(* The main thread never stops between two commands and comes to the end of   *)
(* the script, a worker takes the next task, a remote command ends (with a    *)
(* result or an error), a callback runs.                                      *)
Fairness ==
    /\ WF_vars(MainStep \/ ScriptStep)
    /\ SF_vars(EndOfScript)
    /\ WF_vars(StartTask)
    /\ \A t \in Tasks : WF_vars(TaskStep(t))
    /\ \A h \in Hosts : WF_vars(CbStep(h))

Spec == Init /\ [][Next]_vars
FairSpec == Spec /\ Fairness

--------------------------------------------------------------------------------
(* Properties *)

(* Every variable keeps its type, and hosts_dict has each host once. *)
TypeOK ==
    /\ opts \in Options
    /\ main \in MainPC
    /\ ret \in {"script", "routes", "etc", "built", "stop"}
    /\ cur \in Hosts
    /\ dict \in [Hosts -> {"absent", "future", "host"}]
    /\ order \in Seq(Hosts) /\ Distinct(order)
    /\ cb \in [Hosts -> CbPC]
    /\ pooled \subseteq Hosts
    /\ fut \in [Tasks -> FutState]
    /\ queue \in Seq(Tasks)
    /\ pending \subseteq Tasks /\ snap \subseteq Tasks
    /\ bridged \in [Links -> SUBSET Hosts]
    /\ built \in BOOLEAN

Finished(t) == fut[t] \in {"ok", "failed"}

(* network_status turns to BUILT only when, for every host in hosts_dict, the *)
(* tasks of its routes, its ARP table (macvlan) and its hosts file, and those *)
(* of all links of the script, ended without an error: no failure of a task   *)
(* is lost on the way.                                                        *)
BuiltComplete ==
    [][built' # built =>
        /\ \A l \in Links : fut[Link(l)] \in {"none", "ok"}
        /\ \A i \in 1..Len(order) :
            /\ fut[Routes(order[i])] = "ok"
            /\ fut[HostsFile(order[i])] = "ok"
            /\ ~Geneve => fut[Arp(order[i])] = "ok"]_vars

(* waitall drops no future of pending_tasks that is unfinished or failed,     *)
(* with one exception: the administrative link of a host, which a worker      *)
(* appends after as_completed copied the list.                                *)
OnlyAdmDropped ==
    [][\A t \in pending \ pending' : fut[t] = "ok" \/ t[1] = "adm"]_vars

(* Routes are configured on interfaces that exist: no task that configures a  *)
(* routing table runs before every host and link task is done.                *)
LinksBeforeRoutes ==
    \A h \in Hosts : fut[Routes(h)] = "running" =>
        \A t \in Tasks : t[1] \in {"host", "link"} => fut[t] \in {"none", "ok"}

(* Without failures no host is stopped while a task still creates it, a link  *)
(* that connect made for it, or its routes.  Its administrative link may      *)
(* still be under way: nothing waits for that one.                            *)
NoStopWhileCreating ==
    \A h \in Hosts : Undisturbed /\ fut[Stop(h)] = "running" =>
        /\ Finished(Host(h))
        /\ \A l \in Links : h \in {l[1], l[2]} => fut[Link(l)] \in {"none", "ok"}
        /\ fut[Routes(h)] \in {"none", "ok"}

(* When the program ends, and nothing failed, every virtual host that was     *)
(* created was stopped.                                                       *)
ClosedStopsAll ==
    Undisturbed /\ Drained => \A h \in Hosts : Created(h) => fut[Stop(h)] = "ok"

(* Both ends of a link that was set up without an error are on its bridge. *)
LinksBridged == \A l \in Links : fut[Link(l)] = "ok" => bridged[l] = {l[1], l[2]}

(* Hosts that were made and not stopped: the threads that read their pipes    *)
(* keep the process alive after the main thread and the workers are through.  *)
LeftRunning == {h \in Hosts : Created(h) /\ fut[Stop(h)] # "ok"}

(* No wait of the main thread, of close or of a worker lasts for ever,        *)
(* whichever tasks fail; and without failures no host is then left running,   *)
(* so that the process ends.  With failures close may leave some.             *)
Terminates == <>(Drained /\ (Undisturbed => LeftRunning = {}))
================================================================================
