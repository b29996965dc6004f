----------------------------- MODULE HostPoolProofs -----------------------------
(* For any number of hosts, links and workers, with any failures and SIGINT:  *)
(* BUILT hides no failure, waitall drops no link, routes come after links;    *)
(* without failures nothing is stopped too early and everything is stopped.   *)
EXTENDS HostPool, SequenceTheorems, TLAPS

(* Where main is going: the stage that follows the waitall under way counts.  *)
Waits == {"wait", "pending", "hosts"}
Towards(stage) == main = stage \/ (main \in Waits /\ ret = stage)
Scripting == main \in {"addcb", "inline", "register"} \/ Towards("script")
Ending == Towards("stop") \/ main \in {"shutdown", "exit"}
Registering(h) == h = cur /\ main \in {"addcb", "inline", "register"}

(* The queue holds the tasks that are queued, each once.                      *)
Queues ==
    /\ \A t \in Tasks : fut[t] = "queued" <=> t \in TasksOf(queue)
    /\ Distinct(queue)

(* hosts_dict has what was registered, once; its callback runs for a host     *)
(* that was created.                                                          *)
Entries ==
    /\ \A h \in Hosts : dict[h] # "absent" <=> h \in TasksOf(order)
    /\ Distinct(order)
    /\ \A h \in Hosts : dict[h] # "absent" => fut[Host(h)] # "none"
    /\ \A h \in Hosts : cb[h] # "none" => fut[Host(h)] # "none"
    /\ \A h \in Hosts : cb[h] \notin {"none", "attached"} => fut[Host(h)] = "ok"
    /\ main = "addcb" => cb[cur] = "none"
    /\ main = "inline" => fut[Host(cur)] = "ok"
    /\ Registering(cur) => fut[Host(cur)] # "none"

(* Only SIGINT in the middle of a def leaves a host out of hosts_dict.        *)
Registered ==
    ~Ending \/ ~Interrupts =>
        \A h \in Hosts : fut[Host(h)] # "none" => dict[h] # "absent" \/ Registering(h)

(* What was not submitted yet. *)
Fresh ==
    /\ Towards("routes") \/ (Scripting /\ ~built) =>
        \A h \in Hosts : fut[Routes(h)] = "none" /\ fut[Arp(h)] = "none"
    /\ Towards("routes") \/ Towards("etc") \/ (Scripting /\ ~built) =>
        \A h \in Hosts : fut[HostsFile(h)] = "none"
    /\ main \notin {"shutdown", "exit"} => \A h \in Hosts : fut[Stop(h)] = "none"
    /\ \A h \in Hosts : cb[h] \notin {"pend", "done"} => fut[AdmLink(h)] = "none"
    /\ Towards("routes") \/ Towards("etc") \/ Towards("built") => ~built

(* A task that is not done is pending, unless it is a host or an              *)
(* administrative link; and what each stage has waited for.                   *)
Kept ==
    /\ \A t \in Tasks : t[1] \notin {"host", "adm"} =>
        fut[t] \in {"none", "ok"} \/ t \in pending
    /\ main = "pending" => \A t \in pending \ snap : t[1] = "adm"
    /\ main \in {"hosts", "routes", "etc", "built"} => \A t \in pending : t[1] = "adm"
    /\ Scripting \/ Towards("routes") => \A t \in pending : t[1] \in {"link", "adm"}

HostsAndLinksDone ==
    \A t \in Tasks : t[1] \in {"host", "link"} => fut[t] \in {"none", "ok"}

(* The stages of build-network. *)
Building ==
    /\ main = "routes" \/ Towards("etc") \/ Towards("built") => HostsAndLinksDone
    /\ (\E h \in Hosts : fut[Routes(h)] \in {"queued", "running"}) => HostsAndLinksDone
    /\ Towards("etc") \/ Towards("built") =>
        \A h \in TasksOf(order) :
            fut[Routes(h)] # "none" /\ (~Geneve => fut[Arp(h)] # "none")
    /\ Towards("built") => \A h \in TasksOf(order) : fut[HostsFile(h)] # "none"

(* What close may rely on. *)
Stopping ==
    /\ \A h \in Hosts : fut[Stop(h)] # "none" => Created(h)
    /\ \A h \in Hosts : fut[Stop(h)] # "failed"
    /\ Undisturbed =>
        /\ \A t \in Tasks : fut[t] = "failed" => t[1] = "etc"
        /\ (\E h \in Hosts : fut[HostsFile(h)] \in {"queued", "running", "failed"}) =>
            \A t \in pending : t[1] \in {"etc", "adm", "stop"}
        /\ main \in {"stop", "shutdown", "exit"} =>
            \A t \in pending : t[1] \in {"etc", "adm", "stop"}
        /\ main \in {"shutdown", "exit"} =>
            \A h \in Hosts : fut[Host(h)] # "none" => fut[Stop(h)] # "none"

IInv ==
    /\ TypeOK /\ Queues /\ Entries /\ Registered /\ Fresh /\ Kept /\ Building /\ Stopping

--------------------------------------------------------------------------------
(* Tasks and sequences of tasks *)

(* The kind and the host or link of each task, which tell them apart.         *)
LEMMA Kinds ==
    /\ \A h \in Hosts :
        /\ Host(h) \in Tasks /\ Host(h)[1] = "host" /\ Host(h)[2] = h
        /\ AdmLink(h) \in Tasks /\ AdmLink(h)[1] = "adm" /\ AdmLink(h)[2] = h
        /\ Arp(h) \in Tasks /\ Arp(h)[1] = "arp" /\ Arp(h)[2] = h
        /\ Routes(h) \in Tasks /\ Routes(h)[1] = "routes" /\ Routes(h)[2] = h
        /\ HostsFile(h) \in Tasks /\ HostsFile(h)[1] = "etc" /\ HostsFile(h)[2] = h
        /\ Stop(h) \in Tasks /\ Stop(h)[1] = "stop" /\ Stop(h)[2] = h
    /\ \A l \in Links : Link(l) \in Tasks /\ Link(l)[1] = "link" /\ Link(l)[2] = l
  BY DEF Tasks, HostKinds, Host, AdmLink, Arp, Routes, HostsFile, Stop, Link

LEMMA KindOf ==
    ASSUME NEW t \in Tasks
    PROVE  /\ t[1] = "host" => t[2] \in Hosts /\ t = Host(t[2])
           /\ t[1] = "etc" => t[2] \in Hosts /\ t = HostsFile(t[2])
           /\ t[1] = "link" => t[2] \in Links /\ t = Link(t[2])
  BY DEF Tasks, HostKinds, Host, HostsFile, Link

LEMMA TasksOfAppend ==
    ASSUME NEW S, NEW s \in Seq(S), NEW x \in S
    PROVE  /\ Append(s, x) \in Seq(S)
           /\ TasksOf(Append(s, x)) = TasksOf(s) \cup {x}
           /\ Distinct(s) /\ x \notin TasksOf(s) => Distinct(Append(s, x))
<1>1. /\ Append(s, x) \in Seq(S) /\ Len(s) \in Nat /\ Len(Append(s, x)) = Len(s) + 1
      /\ \A i \in 1..Len(s) : Append(s, x)[i] = s[i]
      /\ Append(s, x)[Len(s) + 1] = x
  BY AppendProperties, LenProperties
<1>2. 1..(Len(s) + 1) = (1..Len(s)) \cup {Len(s) + 1}
  BY <1>1
<1>3. TasksOf(Append(s, x)) = TasksOf(s) \cup {x}
  BY <1>1, <1>2 DEF TasksOf
<1>4. Distinct(s) /\ x \notin TasksOf(s) => Distinct(Append(s, x))
  BY <1>1, <1>2 DEF TasksOf, Distinct
<1> QED
  BY <1>1, <1>3, <1>4

LEMMA TasksOfConcat ==
    ASSUME NEW S, NEW s \in Seq(S), NEW u \in Seq(S)
    PROVE  /\ s \o u \in Seq(S)
           /\ TasksOf(s \o u) = TasksOf(s) \cup TasksOf(u)
           /\ Distinct(s) /\ Distinct(u) /\ TasksOf(s) \cap TasksOf(u) = {} => Distinct(s \o u)
<1>1. /\ s \o u \in Seq(S) /\ Len(s) \in Nat /\ Len(u) \in Nat
      /\ Len(s \o u) = Len(s) + Len(u)
      /\ \A i \in 1..(Len(s) + Len(u)) :
            (s \o u)[i] = IF i <= Len(s) THEN s[i] ELSE u[i - Len(s)]
  BY ConcatProperties, LenProperties
<1>2. TasksOf(s \o u) \subseteq TasksOf(s) \cup TasksOf(u)
  BY <1>1 DEF TasksOf
<1>3. TasksOf(s) \subseteq TasksOf(s \o u)
  BY <1>1 DEF TasksOf
<1>4. TasksOf(u) \subseteq TasksOf(s \o u)
  <2> SUFFICES ASSUME NEW i \in 1..Len(u)
               PROVE  u[i] \in TasksOf(s \o u)
    BY DEF TasksOf
  <2>1. (s \o u)[i + Len(s)] = u[i] /\ i + Len(s) \in 1..Len(s \o u)
    BY <1>1
  <2> QED
    BY <2>1 DEF TasksOf
<1>5. ASSUME Distinct(s), Distinct(u), TasksOf(s) \cap TasksOf(u) = {}
      PROVE  Distinct(s \o u)
  <2> SUFFICES ASSUME NEW i \in 1..(Len(s) + Len(u)), NEW j \in 1..(Len(s) + Len(u)),
                      (s \o u)[i] = (s \o u)[j]
               PROVE  i = j
    BY <1>1 DEF Distinct
  <2>1. \A k \in 1..(Len(s) + Len(u)) : k > Len(s) => k - Len(s) \in 1..Len(u)
    BY <1>1
  <2>2. CASE i <= Len(s) /\ j <= Len(s)
    BY <1>1, <1>5, <2>2 DEF Distinct
  <2>3. CASE i > Len(s) /\ j > Len(s)
    <3>1. u[i - Len(s)] = u[j - Len(s)]
      BY <1>1, <2>3
    <3>2. i - Len(s) = j - Len(s)
      BY <1>5, <2>1, <2>3, <3>1 DEF Distinct
    <3> QED
      BY <1>1, <3>2
  <2>4. CASE i <= Len(s) /\ j > Len(s)
    <3>1. s[i] \in TasksOf(s) /\ u[j - Len(s)] \in TasksOf(u) /\ s[i] = u[j - Len(s)]
      BY <1>1, <2>1, <2>4 DEF TasksOf
    <3> QED
      BY <1>5, <3>1
  <2>5. CASE i > Len(s) /\ j <= Len(s)
    <3>1. s[j] \in TasksOf(s) /\ u[i - Len(s)] \in TasksOf(u) /\ s[j] = u[i - Len(s)]
      BY <1>1, <2>1, <2>5 DEF TasksOf
    <3> QED
      BY <1>5, <3>1
  <2> QED
    BY <1>1, <2>2, <2>3, <2>4, <2>5
<1> QED
  BY <1>1, <1>2, <1>3, <1>4, <1>5

LEMMA TasksOfTail ==
    ASSUME NEW S, NEW s \in Seq(S), s # <<>>, Distinct(s)
    PROVE  /\ Tail(s) \in Seq(S) /\ Head(s) \in S /\ Head(s) \in TasksOf(s)
           /\ TasksOf(Tail(s)) = TasksOf(s) \ {Head(s)}
           /\ Distinct(Tail(s))
<1>1. /\ Head(s) \in S /\ Tail(s) \in Seq(S) /\ Len(s) \in Nat \ {0}
      /\ Len(Tail(s)) = Len(s) - 1 /\ Head(s) = s[1]
      /\ \A i \in 1..Len(Tail(s)) : Tail(s)[i] = s[i + 1]
  BY HeadTailProperties, EmptySeq, LenProperties
<1>2. 1 \in 1..Len(s) /\ \A i \in 1..(Len(s) - 1) : i + 1 \in 1..Len(s) /\ i + 1 # 1
  BY <1>1
<1>3. Distinct(Tail(s))
  BY <1>1, <1>2 DEF Distinct
<1>4. TasksOf(Tail(s)) \subseteq TasksOf(s) \ {Head(s)}
  BY <1>1, <1>2 DEF TasksOf, Distinct
<1>5. TasksOf(s) \ {Head(s)} \subseteq TasksOf(Tail(s))
  <2> SUFFICES ASSUME NEW i \in 1..Len(s), i # 1
               PROVE  s[i] \in TasksOf(Tail(s))
    BY <1>1 DEF TasksOf
  <2>1. i - 1 \in 1..Len(Tail(s)) /\ Tail(s)[i - 1] = s[i]
    BY <1>1
  <2> QED
    BY <2>1 DEF TasksOf
<1> QED
  BY <1>1, <1>2, <1>3, <1>4, <1>5 DEF TasksOf
--------------------------------------------------------------------------------
(* Every step keeps the invariant *)

LEMMA InitIInv == Init => IInv
<1> SUFFICES ASSUME Init PROVE IInv
  OBVIOUS
<1>1. TasksOf(<<>>) = {}
  BY DEF TasksOf
<1>2. TypeOK
  <2>1. order \in Seq(Hosts) /\ queue \in Seq(Tasks)
    BY EmptySeq DEF Init
  <2>2. fut \in [Tasks -> FutState] /\ bridged \in [Links -> SUBSET Hosts]
    BY DEF Init, FutState
  <2>3. Distinct(<<>>)
    BY DEF Distinct
  <2> QED
    BY <2>1, <2>2, <2>3 DEF Init, TypeOK, MainPC, CbPC
<1>3. Queues /\ Entries
  BY <1>1, Kinds DEF Init, Queues, Entries, Distinct, Registering
<1>4. Registered /\ Fresh /\ Kept /\ Building /\ Stopping
  BY <1>1, Kinds DEF Init, Registered, Registering, Fresh, Kept, Building, Stopping, Created,
     Scripting, Towards, Waits
<1> QED
  BY <1>2, <1>3, <1>4 DEF IInv

(* The main thread only moves on, or forgets what it has waited for.          *)
Move ==
    \/ InlineDone \/ CmdWaitall \/ BuildNetwork \/ AdmHostFails \/ EndOfScript \/ Interrupt
    \/ Snapshot \/ PendingDone \/ PendingFails \/ HostsDone \/ HostsFail
    \/ NetworkBuilt \/ ExecutorShutdown
    \/ \E l \in Links : ConnectFails(l)

LEMMA MoveIInv ==
    ASSUME IInv, Move
    PROVE  IInv'
<1> USE DEF Move, InlineDone, CmdWaitall, BuildNetwork, AdmHostFails, EndOfScript, Interrupt,
        Snapshot, PendingDone, PendingFails, HostsDone, HostsFail, NetworkBuilt, ExecutorShutdown, ConnectFails,
        WaitAllThen, Raise, WaitFails, Closing
<1>1. UNCHANGED <<opts, dict, order, cb, pooled, fut, queue, cur>>
  OBVIOUS
<1>2. TypeOK'
  BY DEF IInv, TypeOK, MainPC
<1>3. Queues' /\ Entries'
  BY DEF IInv, TypeOK, Queues, Entries, Registering
<1>4. Registered'
  BY DEF IInv, TypeOK, Registered, Ending, Towards, Waits, Registering, Interrupts
<1>5. Fresh'
  BY DEF IInv, TypeOK, Fresh, Towards, Waits, Scripting
<1>6. Kept'
  BY DEF IInv, TypeOK, Kept, Towards, Waits, Scripting
<1>7. Building'
  <2>1. CASE HostsDone
    <3>1. \A t \in Tasks : t[1] \notin {"host", "adm"} => fut[t] \in {"none", "ok"}
      BY <2>1 DEF IInv, Kept
    <3>2. ret = "routes" => \A h \in Hosts : fut[Host(h)] \in {"none", "ok"}
      BY <2>1 DEF IInv, Registered, Ending, Towards, Waits, Registering, Entries, Created, TasksOf
    <3>3. ret = "routes" => HostsAndLinksDone
      BY <3>1, <3>2, KindOf DEF HostsAndLinksDone
    <3> QED
      BY <2>1, <3>3 DEF IInv, TypeOK, Building, Towards, Waits, HostsAndLinksDone, Geneve
  <2>2. CASE ~HostsDone
    BY <1>1, <2>2 DEF IInv, TypeOK, Building, Towards, Waits, HostsAndLinksDone, Geneve
  <2> QED
    BY <2>1, <2>2
<1>8. Stopping'
  <2>1. \A k \in 1..Len(order) : order[k] \in Hosts
    BY DEF IInv, TypeOK
  <2>2. Undisturbed => ~HostsFail
    BY <2>1, Kinds DEF IInv, Stopping, FailsAt
  <2>3. Undisturbed /\ PendingFails => \A t \in pending : t[1] \in {"etc", "adm", "stop"}
    BY KindOf DEF IInv, TypeOK, Stopping
  <2> QED
    BY <2>2, <2>3 DEF IInv, TypeOK, Stopping, Kept, Undisturbed, Faults, Interrupts, Created
<1> QED
  BY <1>2, <1>3, <1>4, <1>5, <1>6, <1>7, <1>8 DEF IInv

(* The main steps of a def after its submit. *)
LEMMA AddDoneCallbackIInv ==
    ASSUME IInv, AddDoneCallback
    PROVE  IInv'
<1> USE DEF AddDoneCallback
<1>1. TypeOK'
  BY DEF IInv, TypeOK, MainPC, CbPC
<1>2. cb[cur] = "none" /\ main = "addcb" /\ main' \in {"register", "inline"} /\ cur \in Hosts
  BY DEF IInv, TypeOK, Entries
<1>3. Queues' /\ Stopping'
  BY DEF IInv, Queues, Stopping, Undisturbed, Faults, Interrupts, Created
<1>4. Entries'
  BY <1>2 DEF IInv, TypeOK, Entries, Registering
<1>5. Registered'
  BY <1>2 DEF IInv, Registered, Ending, Towards, Waits, Registering, Interrupts
<1>6. \A h \in Hosts : cb'[h] \notin {"pend", "done"} => fut[AdmLink(h)] = "none"
  BY <1>2 DEF IInv, TypeOK, Fresh
<1>7. Fresh'
  BY <1>2, <1>6 DEF IInv, Fresh, Towards, Waits, Scripting
<1>8. Kept' /\ Building'
  BY <1>2 DEF IInv, Kept, Building, Towards, Waits, Scripting, HostsAndLinksDone, Geneve
<1> QED
  BY <1>1, <1>3, <1>4, <1>5, <1>7, <1>8 DEF IInv

(* hosts_dict[h] = x for a host that was submitted: main, or the callback.    *)
LEMMA SetEntryEntries ==
    ASSUME IInv, NEW h \in Hosts, NEW x \in {"future", "host"}, SetEntry(h, x)
    PROVE  /\ dict' \in [Hosts -> {"absent", "future", "host"}]
           /\ order' \in Seq(Hosts)
           /\ \A g \in Hosts : dict'[g] # "absent" <=> dict[g] # "absent" \/ g = h
           /\ \A g \in Hosts : dict'[g] # "absent" <=> g \in TasksOf(order')
           /\ Distinct(order')
           /\ dict[h] # "absent" => order' = order
<1>1. /\ dict' \in [Hosts -> {"absent", "future", "host"}]
      /\ \A g \in Hosts : dict'[g] # "absent" <=> dict[g] # "absent" \/ g = h
      /\ dict[h] # "absent" => order' = order
  BY DEF SetEntry, IInv, TypeOK
<1>2. order \in Seq(Hosts)
  BY DEF IInv, TypeOK
<1>3. CASE dict[h] = "absent"
  <2>1. h \notin TasksOf(order) /\ order' = Append(order, h)
    BY <1>3 DEF IInv, Entries, SetEntry
  <2>2. order' \in Seq(Hosts) /\ TasksOf(order') = TasksOf(order) \cup {h} /\ Distinct(order')
    BY <1>2, <2>1, TasksOfAppend DEF IInv, Entries
  <2> QED
    BY <1>1, <2>2 DEF IInv, Entries
<1>4. CASE dict[h] # "absent"
  BY <1>1, <1>2, <1>4 DEF IInv, Entries
<1> QED
  BY <1>1, <1>3, <1>4

LEMMA RegisterHostIInv ==
    ASSUME IInv, RegisterHost
    PROVE  IInv'
<1>1. /\ cur \in Hosts /\ SetEntry(cur, "future") /\ main = "register" /\ main' = "script"
      /\ UNCHANGED <<opts, ret, cur, cb, pooled, fut, queue, pending, snap, bridged, built>>
      /\ fut[Host(cur)] # "none"
  BY DEF RegisterHost, IInv, TypeOK, Entries, Registering
<1>2. TypeOK'
  BY <1>1, SetEntryEntries DEF IInv, TypeOK, MainPC
<1>3. Queues' /\ Stopping'
  BY <1>1 DEF IInv, Queues, Stopping, Undisturbed, Faults, Interrupts, Created
<1>4. Entries'
  BY <1>1, SetEntryEntries DEF IInv, Entries, Registering
<1>5. Registered'
  BY <1>1, SetEntryEntries DEF IInv, Registered, Ending, Towards, Waits, Registering, Interrupts
<1>6. Fresh' /\ Kept' /\ Building'
  BY <1>1 DEF IInv, Fresh, Kept, Building, Towards, Waits, Scripting, HostsAndLinksDone, Geneve
<1> QED
  BY <1>2, <1>3, <1>4, <1>5, <1>6 DEF IInv

--------------------------------------------------------------------------------
(* Steps that submit tasks *)

LEMMA SubmitQueues ==
    ASSUME IInv, NEW ts \in Seq(Tasks), Distinct(ts), Submit(ts),
           \A t \in TasksOf(ts) : fut[t] = "none"
    PROVE  /\ fut' \in [Tasks -> FutState] /\ queue' \in Seq(Tasks)
           /\ \A t \in Tasks : fut'[t] = IF t \in TasksOf(ts) THEN "queued" ELSE fut[t]
           /\ Queues'
<1>1. /\ fut' \in [Tasks -> FutState]
      /\ \A t \in Tasks : fut'[t] = IF t \in TasksOf(ts) THEN "queued" ELSE fut[t]
  BY DEF Submit, IInv, TypeOK, FutState
<1>2. queue \in Seq(Tasks) /\ queue' = queue \o ts
  BY DEF IInv, TypeOK, Submit
<1>3. TasksOf(ts) \subseteq Tasks
  BY LenProperties DEF TasksOf
<1>4. TasksOf(queue) \cap TasksOf(ts) = {}
  BY <1>3 DEF IInv, Queues
<1>5. queue' \in Seq(Tasks) /\ TasksOf(queue') = TasksOf(queue) \cup TasksOf(ts) /\ Distinct(queue')
  BY <1>2, <1>4, TasksOfConcat DEF IInv, Queues
<1> QED
  BY <1>1, <1>5 DEF IInv, Queues

LEMMA OneTask ==
    ASSUME NEW t \in Tasks
    PROVE  <<t>> \in Seq(Tasks) /\ Distinct(<<t>>) /\ TasksOf(<<t>>) = {t}
<1>1. <<t>> \in Seq(Tasks) /\ Len(<<t>>) = 1 /\ <<t>>[1] = t
  OBVIOUS
<1> QED
  BY <1>1 DEF Distinct, TasksOf

LEMMA DefIInv ==
    ASSUME IInv, NEW h \in Hosts, Def(h)
    PROVE  IInv'
<1>1. /\ Host(h) \in Tasks /\ main = "script" /\ main' = "addcb" /\ cur' = h
      /\ fut[Host(h)] = "none" /\ cb[h] = "none" /\ dict[h] = "absent"
      /\ UNCHANGED <<opts, ret, dict, order, cb, pooled, pending, snap, bridged, built>>
  BY Kinds DEF Def, IInv, Entries
<1>2. /\ fut' \in [Tasks -> FutState] /\ queue' \in Seq(Tasks) /\ Queues'
      /\ \A t \in Tasks : fut'[t] = IF t = Host(h) THEN "queued" ELSE fut[t]
  BY <1>1, OneTask, SubmitQueues DEF Def
<1>3. \A g \in Hosts :
        /\ fut'[Host(g)] = IF g = h THEN "queued" ELSE fut[Host(g)]
        /\ fut'[Routes(g)] = fut[Routes(g)] /\ fut'[Arp(g)] = fut[Arp(g)]
        /\ fut'[HostsFile(g)] = fut[HostsFile(g)] /\ fut'[Stop(g)] = fut[Stop(g)]
        /\ fut'[AdmLink(g)] = fut[AdmLink(g)]
  BY <1>2, Kinds
<1>4. TypeOK'
  BY <1>1, <1>2 DEF IInv, TypeOK, MainPC
<1>5. Entries'
  BY <1>1, <1>3 DEF IInv, Entries, Registering
<1>6. Registered'
  BY <1>1, <1>3 DEF IInv, Registered, Ending, Towards, Waits, Registering, Interrupts
<1>7. Fresh'
  BY <1>1, <1>3 DEF IInv, Fresh, Towards, Waits, Scripting
<1>8. Kept'
  BY <1>1, <1>2, Kinds DEF IInv, Kept, Towards, Waits, Scripting
<1>9. Building'
  BY <1>1, <1>2, Kinds DEF IInv, TypeOK, Building, Kept, Towards, Waits, Scripting
<1>10. Stopping'
  BY <1>1, <1>2, <1>3 DEF IInv, Stopping, Undisturbed, Faults, Interrupts, Created
<1> QED
  BY <1>2, <1>4, <1>5, <1>6, <1>7, <1>8, <1>9, <1>10 DEF IInv

LEMMA ConnectIInv ==
    ASSUME IInv, NEW l \in Links, Connect(l)
    PROVE  IInv'
<1>1. /\ Link(l) \in Tasks /\ main = "script" /\ fut[Link(l)] = "none"
      /\ pending' = pending \cup {Link(l)}
      /\ UNCHANGED <<opts, main, ret, cur, dict, order, cb, pooled, snap, bridged, built>>
  BY Kinds DEF Connect
<1>2. /\ fut' \in [Tasks -> FutState] /\ queue' \in Seq(Tasks) /\ Queues'
      /\ \A t \in Tasks : fut'[t] = IF t = Link(l) THEN "queued" ELSE fut[t]
  BY <1>1, OneTask, SubmitQueues DEF Connect
<1>3. \A g \in Hosts :
        /\ fut'[Host(g)] = fut[Host(g)] /\ fut'[AdmLink(g)] = fut[AdmLink(g)]
        /\ fut'[Routes(g)] = fut[Routes(g)] /\ fut'[Arp(g)] = fut[Arp(g)]
        /\ fut'[HostsFile(g)] = fut[HostsFile(g)] /\ fut'[Stop(g)] = fut[Stop(g)]
  BY <1>2, Kinds
<1>4. TypeOK'
  BY <1>1, <1>2 DEF IInv, TypeOK
<1>5. Entries'
  BY <1>1, <1>3 DEF IInv, TypeOK, Entries, Registering
<1>6. Registered'
  BY <1>1, <1>3 DEF IInv, Registered, Ending, Towards, Waits, Registering, Interrupts
<1>7. Fresh'
  BY <1>1, <1>3 DEF IInv, Fresh, Towards, Waits, Scripting
<1>8. Kept'
  BY <1>1, <1>2, Kinds DEF IInv, Kept, Towards, Waits, Scripting
<1>9. Building'
  BY <1>1, <1>2, Kinds DEF IInv, TypeOK, Building, Kept, Towards, Waits, Scripting
<1>10. Stopping'
  <2>1. \A g \in Hosts : fut[HostsFile(g)] \in {"none", "ok"}
    BY <1>1, Kinds DEF IInv, Kept, Scripting, Towards
  <2> QED
    BY <1>1, <1>2, <1>3, <2>1 DEF IInv, Stopping, Undisturbed, Faults, Interrupts, Created
<1> QED
  BY <1>2, <1>4, <1>5, <1>6, <1>7, <1>8, <1>9, <1>10 DEF IInv

(* parallel_foreach_host gives one task to each entry of hosts_dict. *)
LEMMA ForeachTasks ==
    ASSUME NEW k \in HostKinds, NEW s \in Seq(Hosts), Distinct(s)
    PROVE  LET ts == [i \in 1..Len(s) |-> <<k, s[i]>>]
           IN  /\ ts \in Seq(Tasks) /\ Len(ts) = Len(s) /\ Distinct(ts)
               /\ TasksOf(ts) = {<<k, h>> : h \in TasksOf(s)}
<1> DEFINE ts == [i \in 1..Len(s) |-> <<k, s[i]>>]
<1>1. Len(s) \in Nat /\ \A i \in 1..Len(s) : s[i] \in Hosts
  OBVIOUS
<1>2. ts \in Seq(Tasks) /\ Len(ts) = Len(s)
  <2>1. ts \in [1..Len(s) -> Tasks]
    BY <1>1 DEF Tasks
  <2> HIDE DEF ts
  <2> QED
    BY <1>1, <2>1, SeqDef
<1>3. Distinct(ts)
  BY <1>2 DEF Distinct
<1>4. TasksOf(ts) = {<<k, h>> : h \in TasksOf(s)}
  BY <1>2 DEF TasksOf
<1> QED
  BY <1>2, <1>3, <1>4

(* Until the stops, what a stage submits is new, and pending afterwards.      *)
LEMMA StageIInv ==
    ASSUME IInv, NEW ts \in Seq(Tasks), Distinct(ts), SubmitForeach(ts),
           \A t \in TasksOf(ts) : t[1] \notin {"host", "adm", "link", "stop"} /\ fut[t] = "none",
           NEW stage \in {"etc", "built"}, WaitAllThen(stage),
           main \in {"routes", "etc"},
           main = "routes" => stage = "etc" /\ \A t \in TasksOf(ts) : t[1] # "etc",
           main = "etc" => stage = "built" /\ \A t \in TasksOf(ts) : t[1] = "etc",
           \A h \in TasksOf(order) :
             IF stage = "etc" THEN Routes(h) \in TasksOf(ts) /\ (~Geneve => Arp(h) \in TasksOf(ts))
             ELSE HostsFile(h) \in TasksOf(ts),
           UNCHANGED <<opts, cur, dict, order, cb, pooled, snap, bridged, built>>
    PROVE  IInv'
<1>1. /\ fut' \in [Tasks -> FutState] /\ queue' \in Seq(Tasks) /\ Queues'
      /\ \A t \in Tasks : fut'[t] = IF t \in TasksOf(ts) THEN "queued" ELSE fut[t]
  BY SubmitQueues DEF SubmitForeach
<1>2. pending' = pending \cup TasksOf(ts) /\ TasksOf(ts) \subseteq Tasks
  BY LenProperties DEF SubmitForeach, TasksOf
<1>3. \A g \in Hosts :
        /\ fut'[Host(g)] = fut[Host(g)] /\ fut'[AdmLink(g)] = fut[AdmLink(g)]
        /\ fut'[Stop(g)] = fut[Stop(g)]
  BY <1>1, Kinds
<1>4. TypeOK'
  BY <1>1, <1>2 DEF IInv, TypeOK, WaitAllThen, MainPC
<1>5. Entries' /\ Registered'
  BY <1>1, <1>3 DEF IInv, TypeOK, WaitAllThen, Entries, Registered, Registering, Ending, Towards,
     Waits, Interrupts
<1>6. Fresh'
  <2>1. main = "routes" => \A g \in Hosts : fut'[HostsFile(g)] = fut[HostsFile(g)]
    BY <1>1, Kinds
  <2> QED
    BY <1>3, <2>1 DEF IInv, WaitAllThen, Fresh, Towards, Waits, Scripting
<1>7. Kept'
  BY <1>1, <1>2 DEF IInv, WaitAllThen, Kept, Towards, Waits, Scripting
<1>8. Building'
  <2>1. HostsAndLinksDone'
    BY <1>1 DEF IInv, Building, HostsAndLinksDone, Towards
  <2>2. \A h \in TasksOf(order) : h \in Hosts
    BY DEF IInv, TypeOK, TasksOf
  <2>3. stage = "etc" => \A h \in TasksOf(order) :
          fut'[Routes(h)] # "none" /\ (~Geneve => fut'[Arp(h)] # "none")
    BY <1>1, <2>2, Kinds
  <2>4. stage = "built" => \A h \in TasksOf(order) :
          /\ fut'[HostsFile(h)] # "none"
          /\ fut'[Routes(h)] # "none" /\ (~Geneve => fut'[Arp(h)] # "none")
    BY <1>1, <2>2, Kinds DEF IInv, Building, Towards
  <2> QED
    BY <2>1, <2>3, <2>4 DEF WaitAllThen, Building, Towards, Waits, Geneve
<1>9. Stopping'
  <2>1. \A t \in pending' : t[1] = "adm" \/ (main = "etc" /\ t[1] = "etc") \/ main = "routes"
    BY <1>2 DEF IInv, Kept
  <2>2. main = "routes" => \A g \in Hosts : fut'[HostsFile(g)] = "none"
    BY <1>1, Kinds DEF IInv, Fresh, Towards
  <2>3. \A t \in Tasks : fut'[t] = "failed" => fut[t] = "failed"
    BY <1>1
  <2> QED
    BY <1>3, <2>1, <2>2, <2>3 DEF IInv, WaitAllThen, Stopping, Undisturbed, Faults, Interrupts, Created
<1> QED
  BY <1>1, <1>4, <1>5, <1>6, <1>7, <1>8, <1>9 DEF IInv

LEMMA GenerateRoutesIInv ==
    ASSUME IInv, GenerateRoutes
    PROVE  IInv'
<1> DEFINE arps == IF Geneve THEN <<>> ELSE Foreach(Arp)
           routes == Foreach(Routes)
           ts == arps \o routes
<1>1. order \in Seq(Hosts) /\ Distinct(order) /\ \A h \in TasksOf(order) : h \in Hosts
  BY DEF IInv, TypeOK, Entries, TasksOf
<1>2. /\ Foreach(Routes) \in Seq(Tasks) /\ Distinct(Foreach(Routes))
      /\ TasksOf(Foreach(Routes)) = {Routes(h) : h \in TasksOf(order)}
  BY <1>1, ForeachTasks, "routes" \in HostKinds DEF Foreach, Routes, HostKinds
<1>3. /\ Foreach(Arp) \in Seq(Tasks) /\ Distinct(Foreach(Arp))
      /\ TasksOf(Foreach(Arp)) = {Arp(h) : h \in TasksOf(order)}
  BY <1>1, ForeachTasks, "arp" \in HostKinds DEF Foreach, Arp, HostKinds
<1>4. /\ arps \in Seq(Tasks) /\ Distinct(arps)
      /\ TasksOf(arps) = IF Geneve THEN {} ELSE {Arp(h) : h \in TasksOf(order)}
  <2>1. <<>> \in Seq(Tasks) /\ Distinct(<<>>) /\ TasksOf(<<>>) = {}
    BY EmptySeq DEF Distinct, TasksOf
  <2> QED
    BY <1>3, <2>1
<1> HIDE DEF arps, routes
<1>5. /\ \A t \in TasksOf(arps) : t[1] = "arp"
      /\ \A t \in TasksOf(routes) : t[1] = "routes"
  BY <1>1, <1>2, <1>4, Kinds DEF routes
<1>6. ts \in Seq(Tasks) /\ Distinct(ts) /\ TasksOf(ts) = TasksOf(arps) \cup TasksOf(routes)
  <2>1. TasksOf(arps) \cap TasksOf(routes) = {}
    BY <1>5
  <2>2. routes \in Seq(Tasks) /\ Distinct(routes)
    BY <1>2 DEF routes
  <2> QED
    BY <1>4, <2>1, <2>2, TasksOfConcat
<1>7. SubmitForeach(ts) /\ WaitAllThen("etc") /\ main = "routes"
      /\ UNCHANGED <<opts, cur, dict, order, cb, pooled, snap, bridged, built>>
  BY DEF GenerateRoutes, arps, routes
<1> HIDE DEF ts
<1>8. \A t \in TasksOf(ts) : t[1] \in {"arp", "routes"} /\ fut[t] = "none"
  BY <1>1, <1>2, <1>4, <1>6, <1>7, Kinds DEF routes, IInv, Fresh, Towards
<1>9. \A h \in TasksOf(order) : Routes(h) \in TasksOf(ts) /\ (~Geneve => Arp(h) \in TasksOf(ts))
  BY <1>2, <1>4, <1>6 DEF routes
<1> QED
  BY <1>6, <1>7, <1>8, <1>9, StageIInv

LEMMA BuildEtcHostsIInv ==
    ASSUME IInv, BuildEtcHosts
    PROVE  IInv'
<1>1. order \in Seq(Hosts) /\ Distinct(order) /\ \A h \in TasksOf(order) : h \in Hosts
  BY DEF IInv, TypeOK, Entries, TasksOf
<1>2. /\ Foreach(HostsFile) \in Seq(Tasks) /\ Distinct(Foreach(HostsFile))
      /\ TasksOf(Foreach(HostsFile)) = {HostsFile(h) : h \in TasksOf(order)}
  BY <1>1, ForeachTasks, "etc" \in HostKinds DEF Foreach, HostsFile, HostKinds
<1>3. \A t \in TasksOf(Foreach(HostsFile)) : t[1] = "etc" /\ fut[t] = "none"
  BY <1>1, <1>2, Kinds DEF BuildEtcHosts, IInv, Fresh, Towards
<1> QED
  BY <1>2, <1>3, StageIInv DEF BuildEtcHosts

(* The loop of close over the first n hosts, all of them created.             *)
LEMMA StopsIInv ==
    ASSUME IInv, main = "stop", NEW n \in 0..Len(order),
           NEW ts, ts = [i \in 1..n |-> Stop(order[i])], SubmitForeach(ts),
           \A i \in 1..n : Created(order[i]),
           main' \in {"shutdown", "exit"}, Undisturbed => n = Len(order),
           UNCHANGED <<opts, ret, cur, dict, order, cb, pooled, snap, bridged, built>>
    PROVE  IInv'
<1> DEFINE first == SubSeq(order, 1, n)
<1>1. order \in Seq(Hosts) /\ Distinct(order) /\ Len(order) \in Nat
      /\ \A i \in 1..Len(order) : order[i] \in Hosts
  BY DEF IInv, TypeOK, Entries
<1>2. /\ first \in Seq(Hosts) /\ Len(first) = n /\ Distinct(first)
      /\ \A i \in 1..n : first[i] = order[i]
  <2>1. /\ first \in Seq(Hosts) /\ Len(first) = n
        /\ \A i \in 1..n : first[i] = order[i]
    BY <1>1
  <2> HIDE DEF first
  <2>2. \A i \in 1..n : i \in 1..Len(order)
    BY <1>1
  <2> QED
    BY <1>1, <2>1, <2>2 DEF Distinct
<1>3. ts = [i \in 1..Len(first) |-> <<"stop", first[i]>>]
  BY <1>1, <1>2 DEF Stop
<1>4. /\ ts \in Seq(Tasks) /\ Distinct(ts)
      /\ TasksOf(ts) = {Stop(h) : h \in TasksOf(first)}
  BY <1>2, <1>3, ForeachTasks, "stop" \in HostKinds DEF Stop, HostKinds
<1>5. \A h \in TasksOf(first) : h \in Hosts /\ Created(h)
  BY <1>1, <1>2 DEF TasksOf
<1>6. /\ \A t \in TasksOf(ts) : t[1] = "stop" /\ fut[t] = "none"
      /\ \A h \in Hosts : Stop(h) \in TasksOf(ts) => Created(h)
  <2>1. \A h \in Hosts : fut[Stop(h)] = "none"
    BY DEF IInv, Fresh
  <2> QED
    BY <1>4, <1>5, <2>1, Kinds
<1> HIDE DEF first
<1>7. /\ fut' \in [Tasks -> FutState] /\ queue' \in Seq(Tasks) /\ Queues'
      /\ \A t \in Tasks : fut'[t] = IF t \in TasksOf(ts) THEN "queued" ELSE fut[t]
      /\ pending' = pending \cup TasksOf(ts) /\ TasksOf(ts) \subseteq Tasks
  BY <1>4, <1>6, SubmitQueues, LenProperties DEF SubmitForeach, TasksOf
<1>8. \A g \in Hosts :
        /\ fut'[Host(g)] = fut[Host(g)] /\ fut'[AdmLink(g)] = fut[AdmLink(g)]
        /\ fut'[Routes(g)] = fut[Routes(g)] /\ fut'[HostsFile(g)] = fut[HostsFile(g)]
        /\ fut'[Stop(g)] = IF Stop(g) \in TasksOf(ts) THEN "queued" ELSE "none"
  <2>1. \A h \in Hosts : fut[Stop(h)] = "none"
    BY DEF IInv, Fresh
  <2> SUFFICES ASSUME NEW g \in Hosts
               PROVE  /\ fut'[Host(g)] = fut[Host(g)] /\ fut'[AdmLink(g)] = fut[AdmLink(g)]
                      /\ fut'[Routes(g)] = fut[Routes(g)] /\ fut'[HostsFile(g)] = fut[HostsFile(g)]
                      /\ fut'[Stop(g)] = IF Stop(g) \in TasksOf(ts) THEN "queued" ELSE "none"
    OBVIOUS
  <2>2. /\ Host(g) \in Tasks \ TasksOf(ts) /\ AdmLink(g) \in Tasks \ TasksOf(ts)
        /\ Routes(g) \in Tasks \ TasksOf(ts) /\ HostsFile(g) \in Tasks \ TasksOf(ts)
        /\ Stop(g) \in Tasks
    BY <1>6, Kinds
  <2> QED
    BY <1>7, <2>1, <2>2
<1>9. TypeOK'
  BY <1>7 DEF IInv, TypeOK, MainPC
<1>10. Entries' /\ Registered'
  <2>1. Entries'
    <3>1. \A h \in Hosts : fut'[Host(h)] = fut[Host(h)]
      BY <1>8
    <3> QED
      BY <3>1 DEF IInv, TypeOK, Entries, Registering
  <2>2. Registered'
    <3>1. \A h \in Hosts : fut'[Host(h)] = fut[Host(h)]
      BY <1>8
    <3> QED
      BY <3>1 DEF IInv, Registered, Registering, Ending, Towards, Interrupts
  <2> QED
    BY <2>1, <2>2
<1>11. Fresh' /\ Building'
  <2>1. HostsAndLinksDone => HostsAndLinksDone'
    BY <1>6, <1>7 DEF HostsAndLinksDone
  <2> QED
    BY <1>8, <2>1 DEF IInv, Fresh, Building, Towards, Waits, Scripting
<1>12. Kept'
  BY <1>6, <1>7 DEF IInv, Kept, Towards, Waits, Scripting
<1>13. Stopping'
  <2>1. \A h \in Hosts : fut'[Stop(h)] # "none" => Created(h)'
    BY <1>6, <1>8, Kinds DEF Created
  <2>2. Undisturbed => \A h \in Hosts : fut'[Host(h)] # "none" => fut'[Stop(h)] # "none"
    <3> SUFFICES ASSUME Undisturbed, NEW h \in Hosts, fut[Host(h)] # "none"
                 PROVE  Stop(h) \in TasksOf(ts)
      BY <1>8
    <3>1. h \in TasksOf(order)
      BY DEF Undisturbed, IInv, Registered, Registering, Entries
    <3>2. TasksOf(first) = TasksOf(order)
      BY <1>2 DEF TasksOf
    <3> QED
      BY <1>4, <3>1, <3>2
  <2>3. \A t \in Tasks : fut'[t] = "failed" => fut[t] = "failed"
    BY <1>7
  <2>4. \A t \in pending' : t \in pending \/ t[1] = "stop"
    BY <1>6, <1>7
  <2>5. Undisturbed' <=> Undisturbed
    BY DEF Undisturbed, Faults, Interrupts
  <2> QED
    BY <1>8, <2>1, <2>2, <2>3, <2>4, <2>5 DEF IInv, Stopping
<1> QED
  BY <1>7, <1>9, <1>10, <1>11, <1>12, <1>13 DEF IInv

LEMMA StopHostsIInv ==
    ASSUME IInv, StopHosts
    PROVE  IInv'
<1>1. /\ Len(order) \in Nat /\ \A i \in 1..Len(order) : order[i] \in Hosts
      /\ main = "stop"
      /\ UNCHANGED <<opts, ret, cur, dict, order, cb, pooled, snap, bridged, built>>
  BY DEF IInv, TypeOK, StopHosts
<1>2. CASE /\ \A i \in 1..Len(order) : Created(order[i])
           /\ SubmitForeach(Foreach(Stop))
           /\ main' = "shutdown"
  <2>1. Foreach(Stop) = [i \in 1..Len(order) |-> Stop(order[i])]
    BY DEF Foreach
  <2>2. Len(order) \in 0..Len(order)
    BY <1>1
  <2> QED
    BY <1>1, <1>2, <2>1, <2>2, StopsIInv
<1>3. ASSUME NEW k \in 1..Len(order), FailsAt(k),
             SubmitForeach(SubSeq(Foreach(Stop), 1, k - 1)), main' = "exit"
      PROVE  IInv'
  <2>1. ~Undisturbed
    BY <1>1, <1>3, Kinds DEF FailsAt, IInv, Stopping
  <2>2. k - 1 \in 0..Len(order) /\ \A i \in 1..(k - 1) : Created(order[i])
    BY <1>1, <1>3 DEF FailsAt
  <2>3. SubSeq(Foreach(Stop), 1, k - 1) = [i \in 1..(k - 1) |-> Stop(order[i])]
    <3> DEFINE all == [i \in 1..Len(order) |-> Stop(order[i])]
               some == [i \in 1..(k - 1) |-> Stop(order[i])]
    <3>1. all \in Seq(Tasks) /\ Len(all) = Len(order)
      BY ForeachTasks, "stop" \in HostKinds DEF IInv, TypeOK, Entries, Stop, HostKinds
    <3>2. some \in Seq(Tasks) /\ Len(some) = k - 1
      <4>1. some \in [1..(k - 1) -> Tasks]
        BY <1>1, Kinds
      <4> HIDE DEF some
      <4> QED
        BY <1>1, <4>1, SeqDef
    <3>3. \A i \in 1..(k - 1) : some[i] = all[i]
      BY <1>1
    <3> HIDE DEF all, some
    <3>4. SubSeq(all, 1, k - 1) = some
      BY <1>1, <3>1, <3>2, <3>3
    <3> QED
      BY <3>4 DEF all, some, Foreach
  <2> QED
    BY <1>1, <1>3, <2>1, <2>2, <2>3, StopsIInv
<1> QED
  BY <1>1, <1>2, <1>3 DEF StopHosts

LEMMA StartTaskIInv ==
    ASSUME IInv, StartTask
    PROVE  IInv'
<1> DEFINE t0 == Head(queue)
<1>1. /\ queue \in Seq(Tasks) /\ queue # <<>> /\ Distinct(queue) /\ queue' = Tail(queue)
      /\ fut \in [Tasks -> FutState] /\ fut' = [fut EXCEPT ![t0] = "running"]
      /\ UNCHANGED <<opts, main, ret, cur, dict, order, cb, pooled, pending, snap, bridged, built>>
  BY DEF StartTask, IInv, TypeOK, Queues
<1>2. /\ queue' \in Seq(Tasks) /\ t0 \in Tasks /\ t0 \in TasksOf(queue)
      /\ TasksOf(queue') = TasksOf(queue) \ {t0} /\ Distinct(queue')
  BY <1>1, TasksOfTail
<1> HIDE DEF t0
<1>3. /\ fut' \in [Tasks -> FutState] /\ fut[t0] = "queued"
      /\ \A t \in Tasks : fut'[t] = IF t = t0 THEN "running" ELSE fut[t]
  BY <1>1, <1>2 DEF FutState, IInv, Queues
<1>4. \A t \in Tasks : fut'[t] = fut[t] \/ (fut[t] = "queued" /\ fut'[t] = "running")
  BY <1>3
<1>5. \A g \in Hosts :
        /\ fut'[Host(g)] = fut[Host(g)] \/ (fut[Host(g)] = "queued" /\ fut'[Host(g)] = "running")
        /\ fut'[AdmLink(g)] = "none" <=> fut[AdmLink(g)] = "none"
        /\ fut'[Arp(g)] = "none" <=> fut[Arp(g)] = "none"
        /\ fut'[Routes(g)] = "none" <=> fut[Routes(g)] = "none"
        /\ fut'[HostsFile(g)] = "none" <=> fut[HostsFile(g)] = "none"
        /\ fut'[Stop(g)] = "none" <=> fut[Stop(g)] = "none"
  BY <1>4, Kinds
<1>6. TypeOK'
  BY <1>1, <1>2, <1>3 DEF IInv, TypeOK
<1>7. Queues'
  BY <1>2, <1>3 DEF IInv, Queues
<1>8. Entries'
  BY <1>1, <1>5 DEF IInv, TypeOK, Entries, Registering
<1>9. Registered'
  BY <1>1, <1>5 DEF IInv, Registered, Ending, Towards, Waits, Registering, Interrupts
<1>10. Fresh'
  BY <1>1, <1>5 DEF IInv, Fresh, Towards, Waits, Scripting
<1>11. Kept'
  BY <1>1, <1>4 DEF IInv, Kept, Towards, Waits, Scripting
<1>12. Building'
  <2>1. HostsAndLinksDone => HostsAndLinksDone'
    BY <1>4 DEF HostsAndLinksDone
  <2>2. (\E h \in Hosts : fut'[Routes(h)] \in {"queued", "running"})
          => \E h \in Hosts : fut[Routes(h)] \in {"queued", "running"}
    BY <1>4, Kinds
  <2>3. \A h \in TasksOf(order) : h \in Hosts
    BY DEF IInv, TypeOK, TasksOf
  <2> QED
    BY <1>1, <1>5, <2>1, <2>2, <2>3 DEF IInv, Building, Towards, Waits, Geneve
<1>13. Stopping'
  <2>1. (\E h \in Hosts : fut'[HostsFile(h)] \in {"queued", "running", "failed"})
          => \E h \in Hosts : fut[HostsFile(h)] \in {"queued", "running", "failed"}
    BY <1>4, Kinds
  <2>2. \A h \in Hosts : (fut'[Stop(h)] = "failed" => fut[Stop(h)] = "failed")
                         /\ (Created(h) => Created(h)')
    BY <1>4, Kinds DEF Created
  <2>3. Undisturbed' <=> Undisturbed
    BY <1>1 DEF Undisturbed, Faults, Interrupts
  <2>4. \A t \in Tasks : fut'[t] = "failed" => fut[t] = "failed"
    BY <1>4
  <2> QED
    BY <1>1, <1>5, <2>1, <2>2, <2>3, <2>4 DEF IInv, Stopping
<1> QED
  BY <1>6, <1>7, <1>8, <1>9, <1>10, <1>11, <1>12, <1>13 DEF IInv

(* A task that runs ends, with any result that the step gives it.             *)
LEMMA TaskEnds ==
    ASSUME IInv, NEW t0 \in Tasks, fut[t0] = "running",
           NEW result \in {"ok", "failed"}, fut' = [fut EXCEPT ![t0] = result],
           result = "failed" => t0[1] # "stop" /\ (Undisturbed => t0[1] = "etc"),
           cb' \in [Hosts -> CbPC],
           \A h \in Hosts : cb'[h] = cb[h] \/ (t0 = Host(h) /\ result = "ok"
                                               /\ cb[h] = "attached" /\ cb'[h] = "reg"),
           bridged' \in [Links -> SUBSET Hosts],
           UNCHANGED <<opts, main, ret, cur, dict, order, pooled, queue, pending, snap, built>>
    PROVE  IInv'
<1>1. /\ fut' \in [Tasks -> FutState]
      /\ \A t \in Tasks : fut'[t] = IF t = t0 THEN result ELSE fut[t]
  BY DEF IInv, TypeOK, FutState
<1>2. \A t \in Tasks : fut'[t] = fut[t] \/ (fut[t] = "running" /\ fut'[t] \in {"ok", "failed"})
  BY <1>1
<1>3. \A g \in Hosts :
        /\ fut'[Host(g)] = fut[Host(g)]
           \/ (fut[Host(g)] = "running" /\ fut'[Host(g)] \in {"ok", "failed"})
        /\ fut'[AdmLink(g)] = "none" <=> fut[AdmLink(g)] = "none"
        /\ fut'[Arp(g)] = "none" <=> fut[Arp(g)] = "none"
        /\ fut'[Routes(g)] = "none" <=> fut[Routes(g)] = "none"
        /\ fut'[HostsFile(g)] = "none" <=> fut[HostsFile(g)] = "none"
        /\ fut'[Stop(g)] = "none" <=> fut[Stop(g)] = "none"
  BY <1>2, Kinds
<1>4. TypeOK'
  BY <1>1 DEF IInv, TypeOK
<1>5. Queues'
  BY <1>1 DEF IInv, Queues
<1>6. Entries'
  <2>1. \A h \in Hosts : cb'[h] \notin {"none", "attached"} => fut'[Host(h)] = "ok"
    BY <1>1, <1>3, Kinds DEF IInv, Entries
  <2> QED
    BY <1>3, <2>1 DEF IInv, TypeOK, Entries, Registering
<1>7. Registered'
  BY <1>3 DEF IInv, Registered, Ending, Towards, Waits, Registering, Interrupts
<1>8. Fresh'
  BY <1>3 DEF IInv, Fresh, Towards, Waits, Scripting
<1>9. Kept'
  BY <1>2 DEF IInv, Kept, Towards, Waits, Scripting
<1>10. Building'
  <2>1. HostsAndLinksDone => HostsAndLinksDone'
    BY <1>2 DEF HostsAndLinksDone
  <2>2. (\E h \in Hosts : fut'[Routes(h)] \in {"queued", "running"})
          => \E h \in Hosts : fut[Routes(h)] \in {"queued", "running"}
    BY <1>2, Kinds
  <2>3. \A h \in TasksOf(order) : h \in Hosts
    BY DEF IInv, TypeOK, TasksOf
  <2> QED
    BY <1>3, <2>1, <2>2, <2>3 DEF IInv, Building, Towards, Waits, Geneve
<1>11. Stopping'
  <2>1. (\E h \in Hosts : fut'[HostsFile(h)] \in {"queued", "running", "failed"})
          => \E h \in Hosts : fut[HostsFile(h)] \in {"queued", "running", "failed"}
    BY <1>2, Kinds
  <2>2. \A h \in Hosts : fut'[Stop(h)] # "failed" /\ (Created(h) => Created(h)')
    BY <1>1, <1>2, Kinds DEF Created, IInv, Stopping
  <2>3. Undisturbed' <=> Undisturbed
    BY DEF Undisturbed, Faults, Interrupts
  <2>4. Undisturbed => \A t \in Tasks : fut'[t] = "failed" => t[1] = "etc"
    BY <1>1 DEF IInv, Stopping
  <2> QED
    BY <1>3, <2>1, <2>2, <2>3, <2>4 DEF IInv, Stopping
<1> QED
  BY <1>4, <1>5, <1>6, <1>7, <1>8, <1>9, <1>10, <1>11 DEF IInv

LEMMA TaskStepIInv ==
    ASSUME IInv, NEW t \in Tasks, TaskStep(t)
    PROVE  IInv'
<1>1. CASE TaskOk(t)
  <2>1. /\ cb' \in [Hosts -> CbPC]
        /\ \A h \in Hosts : cb'[h] = cb[h] \/ (t = Host(h) /\ cb[h] = "attached" /\ cb'[h] = "reg")
    BY <1>1, KindOf DEF TaskOk, IInv, TypeOK, CbPC
  <2>2. bridged' \in [Links -> SUBSET Hosts]
    BY <1>1 DEF TaskOk, IInv, TypeOK
  <2> QED
    BY <1>1, <2>1, <2>2, TaskEnds DEF TaskOk
<1>2. CASE TaskFails(t)
  <2>1. t[1] # "stop" /\ (Undisturbed => t[1] = "etc")
    BY <1>2 DEF TaskFails, Undisturbed
  <2>2. cb' = cb /\ cb' \in [Hosts -> CbPC] /\ bridged' \in [Links -> SUBSET Hosts]
    BY <1>2 DEF TaskFails, IInv, TypeOK
  <2> QED
    BY <1>2, <2>1, <2>2, TaskEnds DEF TaskFails
<1> QED
  BY <1>1, <1>2 DEF TaskStep

(* The steps of add_host. *)
LEMMA CbRegisterIInv ==
    ASSUME IInv, NEW h \in Hosts, CbRegister(h)
    PROVE  IInv'
<1>1. /\ SetEntry(h, "host") /\ cb[h] = "reg" /\ fut[Host(h)] = "ok"
      /\ cb' = [cb EXCEPT ![h] = "pool"] /\ cb' \in [Hosts -> CbPC]
      /\ UNCHANGED <<opts, main, ret, cur, pooled, fut, queue, pending, snap, bridged, built>>
  BY DEF CbRegister, IInv, TypeOK, Entries, CbPC
<1>2. \A g \in Hosts : cb'[g] = IF g = h THEN "pool" ELSE cb[g]
  BY <1>1 DEF IInv, TypeOK
<1>3. /\ dict' \in [Hosts -> {"absent", "future", "host"}] /\ order' \in Seq(Hosts)
      /\ \A g \in Hosts : dict'[g] # "absent" <=> dict[g] # "absent" \/ g = h
      /\ \A g \in Hosts : dict'[g] # "absent" <=> g \in TasksOf(order')
      /\ Distinct(order')
      /\ dict[h] # "absent" => order' = order
  BY <1>1, SetEntryEntries
<1>4. Towards("etc") \/ Towards("built") => order' = order
  BY <1>1, <1>3 DEF IInv, Registered, Registering, Ending, Towards, Waits
<1>5. TypeOK'
  BY <1>1, <1>3 DEF IInv, TypeOK
<1>6. Queues' /\ Kept'
  BY <1>1 DEF IInv, Queues, Kept, Towards, Waits, Scripting
<1>7. Entries'
  BY <1>1, <1>2, <1>3 DEF IInv, TypeOK, Entries, Registering
<1>8. Registered'
  BY <1>1, <1>3 DEF IInv, Registered, Ending, Towards, Waits, Registering, Interrupts
<1>9. Fresh'
  BY <1>1, <1>2 DEF IInv, Fresh, Towards, Waits, Scripting
<1>10. Building'
  BY <1>1, <1>4 DEF IInv, Building, Towards, Waits, HostsAndLinksDone, Geneve
<1>11. Stopping'
  BY <1>1 DEF IInv, Stopping, Undisturbed, Faults, Interrupts, Created
<1> QED
  BY <1>5, <1>6, <1>7, <1>8, <1>9, <1>10, <1>11 DEF IInv

LEMMA CbPoolIInv ==
    ASSUME IInv, NEW h \in Hosts, CbPool(h)
    PROVE  IInv'
<1>1. /\ cb[h] = "pool" /\ fut[Host(h)] = "ok" /\ fut[AdmLink(h)] = "none"
      /\ cb' \in [Hosts -> CbPC] /\ pooled' = pooled \cup {h}
      /\ \A g \in Hosts : IF g = h THEN cb'[g] \in {"adm", "done"} ELSE cb'[g] = cb[g]
      /\ UNCHANGED <<opts, main, ret, cur, dict, order, fut, queue, pending, snap, bridged, built>>
  BY DEF CbPool, IInv, TypeOK, Entries, CbPC, Fresh
<1>2. TypeOK'
  BY <1>1 DEF IInv, TypeOK
<1>3. Entries' /\ Fresh'
  <2>1. Entries'
    BY <1>1 DEF IInv, TypeOK, Entries, Registering
  <2>2. Fresh'
    BY <1>1 DEF IInv, Fresh, Towards, Waits, Scripting
  <2> QED
    BY <2>1, <2>2
<1>4. Queues' /\ Registered' /\ Kept' /\ Building' /\ Stopping'
  BY <1>1 DEF IInv, Queues, Registered, Kept, Building, Stopping, Ending, Towards, Waits, Scripting,
     Registering, Interrupts, HostsAndLinksDone, Geneve, Undisturbed, Faults, Created
<1> QED
  BY <1>2, <1>3, <1>4 DEF IInv

(* A queued administrative link is no task of any stage. *)
LEMMA CbSubmitAdmIInv ==
    ASSUME IInv, NEW h \in Hosts, CbSubmitAdm(h)
    PROVE  IInv'
<1>1. /\ cb[h] = "adm" /\ fut[Host(h)] = "ok" /\ fut[AdmLink(h)] = "none"
      /\ cb' \in [Hosts -> CbPC]
      /\ \A g \in Hosts : IF g = h THEN cb'[g] \in {"pend", "done"} ELSE cb'[g] = cb[g]
      /\ UNCHANGED <<opts, main, ret, cur, dict, order, pooled, pending, snap, bridged, built>>
  BY DEF CbSubmitAdm, IInv, TypeOK, Entries, CbPC, Fresh
<1>2. /\ fut' \in [Tasks -> FutState] /\ queue' \in Seq(Tasks) /\ Queues'
      /\ \A t \in Tasks : fut'[t] = fut[t] \/ (t[1] = "adm" /\ t = AdmLink(h) /\ fut'[t] = "queued")
  <2>1. CASE main \in {"shutdown", "exit"}
    BY <2>1 DEF CbSubmitAdm, IInv, TypeOK, Queues
  <2>2. CASE main \notin {"shutdown", "exit"}
    <3>1. AdmLink(h) \in Tasks /\ AdmLink(h)[1] = "adm" /\ Submit(<<AdmLink(h)>>)
      BY <1>1, <2>2, Kinds DEF CbSubmitAdm
    <3>2. /\ <<AdmLink(h)>> \in Seq(Tasks) /\ Distinct(<<AdmLink(h)>>)
          /\ TasksOf(<<AdmLink(h)>>) = {AdmLink(h)}
      BY <3>1, OneTask
    <3>3. \A t \in TasksOf(<<AdmLink(h)>>) : fut[t] = "none"
      BY <1>1, <3>2
    <3> QED
      BY <3>1, <3>2, <3>3, SubmitQueues
  <2> QED
    BY <2>1, <2>2
<1>3. \A g \in Hosts :
        /\ fut'[Host(g)] = fut[Host(g)] /\ fut'[Routes(g)] = fut[Routes(g)]
        /\ fut'[Arp(g)] = fut[Arp(g)] /\ fut'[HostsFile(g)] = fut[HostsFile(g)]
        /\ fut'[Stop(g)] = fut[Stop(g)]
        /\ g # h => fut'[AdmLink(g)] = fut[AdmLink(g)]
  BY <1>2, Kinds
<1>4. \A t \in Tasks : t[1] # "adm" => fut'[t] = fut[t]
  BY <1>2
<1>5. TypeOK'
  BY <1>1, <1>2 DEF IInv, TypeOK
<1>6. Entries'
  BY <1>1, <1>3 DEF IInv, TypeOK, Entries, Registering
<1>7. Registered'
  BY <1>1, <1>3 DEF IInv, Registered, Ending, Towards, Waits, Registering, Interrupts
<1>8. Fresh'
  BY <1>1, <1>3 DEF IInv, Fresh, Towards, Waits, Scripting
<1>9. Kept'
  BY <1>1, <1>4 DEF IInv, Kept, Towards, Waits, Scripting
<1>10. Building'
  <2>1. HostsAndLinksDone' <=> HostsAndLinksDone
    BY <1>4 DEF HostsAndLinksDone
  <2>2. \A g \in TasksOf(order) : g \in Hosts
    BY DEF IInv, TypeOK, TasksOf
  <2> QED
    BY <1>1, <1>3, <2>1, <2>2 DEF IInv, Building, Towards, Waits, Geneve
<1>11. Stopping'
  <2>1. \A t \in Tasks : fut'[t] = "failed" => fut[t] = "failed"
    BY <1>2
  <2> QED
    BY <1>1, <1>3, <2>1 DEF IInv, Stopping, Undisturbed, Faults, Interrupts, Created
<1> QED
  BY <1>2, <1>5, <1>6, <1>7, <1>8, <1>9, <1>10, <1>11 DEF IInv

LEMMA CbQueuePendingIInv ==
    ASSUME IInv, NEW h \in Hosts, CbQueuePending(h)
    PROVE  IInv'
<1>1. /\ AdmLink(h) \in Tasks /\ AdmLink(h)[1] = "adm" /\ cb[h] = "pend" /\ fut[Host(h)] = "ok"
      /\ pending' = pending \cup {AdmLink(h)} /\ cb' \in [Hosts -> CbPC]
      /\ \A g \in Hosts : cb'[g] = IF g = h THEN "done" ELSE cb[g]
      /\ UNCHANGED <<opts, main, ret, cur, dict, order, pooled, fut, queue, snap, bridged, built>>
  BY Kinds DEF CbQueuePending, IInv, TypeOK, Entries, CbPC
<1>2. TypeOK'
  BY <1>1 DEF IInv, TypeOK
<1>3. Entries' /\ Fresh'
  <2>1. Entries'
    BY <1>1 DEF IInv, TypeOK, Entries, Registering
  <2>2. Fresh'
    BY <1>1 DEF IInv, Fresh, Towards, Waits, Scripting
  <2> QED
    BY <2>1, <2>2
<1>4. Kept'
  BY <1>1 DEF IInv, Kept, Towards, Waits, Scripting
<1>5. Stopping'
  BY <1>1 DEF IInv, Stopping, Undisturbed, Faults, Interrupts, Created
<1>6. Queues' /\ Registered' /\ Building'
  BY <1>1 DEF IInv, Queues, Registered, Building, Ending, Towards, Waits, Registering, Interrupts,
     HostsAndLinksDone, Geneve
<1> QED
  BY <1>2, <1>3, <1>4, <1>5, <1>6 DEF IInv

LEMMA NextIInv ==
    ASSUME IInv, [Next]_vars
    PROVE  IInv'
<1>1. ASSUME NEW h \in Hosts, CbStep(h)
      PROVE  IInv'
  BY <1>1, CbRegisterIInv, CbPoolIInv, CbSubmitAdmIInv, CbQueuePendingIInv DEF CbStep
<1>2. CASE ScriptStep
  BY <1>2, DefIInv, ConnectIInv, MoveIInv DEF ScriptStep, Move
<1>3. CASE MainStep
  BY <1>3, AddDoneCallbackIInv, RegisterHostIInv, MoveIInv, GenerateRoutesIInv, BuildEtcHostsIInv,
     StopHostsIInv DEF MainStep, MainWaits, Move
<1>4. CASE UNCHANGED vars
  BY <1>4 DEF vars, IInv, TypeOK, Queues, Entries, Registered, Fresh, Kept, Building, Stopping,
     Registering, Ending, Towards, Waits, Scripting, HostsAndLinksDone, Undisturbed, Faults,
     Interrupts, Created, Geneve
<1> QED
  BY <1>1, <1>2, <1>3, <1>4, MoveIInv, StartTaskIInv, TaskStepIInv DEF Next, Terminated, Move

--------------------------------------------------------------------------------
(* Theorems *)

(* Each part of the invariant holds in every state of every execution.        *)
THEOREM Inductive == Spec => []IInv
<1>1. IInv /\ [Next]_vars => IInv'
  BY NextIInv
<1> QED
  BY <1>1, InitIInv, PTL DEF Spec

(* Every variable of the deployment keeps its type.                           *)
THEOREM TypeCorrect == Spec => []TypeOK
<1>1. IInv => TypeOK
  BY DEF IInv
<1> QED
  BY <1>1, Inductive, PTL

(* generate_routes configures no routing table while a host or a link of the  *)
(* script is still being created, whatever failed or was interrupted.         *)
THEOREM RoutesAfterLinks == Spec => []LinksBeforeRoutes
<1>1. IInv => LinksBeforeRoutes
  BY DEF IInv, Building, HostsAndLinksDone, LinksBeforeRoutes
<1> QED
  BY <1>1, Inductive, PTL

(* close stops no host while a worker creates it, a link of connect or its    *)
(* routes, when nothing fails.  It does not wait for administrative links.    *)
THEOREM StopsAfterCreation == Spec => []NoStopWhileCreating
<1>1. ASSUME IInv
      PROVE  NoStopWhileCreating
  <2> SUFFICES ASSUME NEW h \in Hosts, Undisturbed, fut[Stop(h)] = "running"
               PROVE  /\ Finished(Host(h))
                      /\ \A l \in Links : fut[Link(l)] \in {"none", "ok"}
                      /\ fut[Routes(h)] \in {"none", "ok"}
    BY DEF NoStopWhileCreating
  <2>1. main \in {"shutdown", "exit"} /\ Created(h)
    BY <1>1 DEF IInv, Fresh, Stopping
  <2>2. \A t \in pending : t[1] \in {"etc", "adm", "stop"}
    BY <1>1, <2>1 DEF IInv, Stopping
  <2>3. \A t \in Tasks : t[1] \in {"link", "routes"} => fut[t] \in {"none", "ok"}
    BY <1>1, <2>2 DEF IInv, Kept
  <2> QED
    BY <2>1, <2>3, Kinds DEF Created, Finished
<1> QED
  BY <1>1, Inductive, PTL

(* A program that ends leaves no virtual host running, when nothing fails.    *)
THEOREM AllStopped == Spec => []ClosedStopsAll
<1>1. ASSUME IInv
      PROVE  ClosedStopsAll
  <2> SUFFICES ASSUME Undisturbed, Drained, NEW h \in Hosts, Created(h)
               PROVE  fut[Stop(h)] = "ok"
    BY DEF ClosedStopsAll
  <2>1. Stop(h) \in Tasks /\ fut[Stop(h)] \in FutState
    BY <1>1, Kinds DEF IInv, TypeOK
  <2>2. fut[Stop(h)] # "none" /\ fut[Stop(h)] # "failed"
    BY <1>1 DEF IInv, Stopping, Drained, Created
  <2>3. TasksOf(queue) = {}
    BY DEF Drained, TasksOf
  <2>4. fut[Stop(h)] # "queued" /\ fut[Stop(h)] # "running"
    BY <1>1, <2>1, <2>3 DEF IInv, Queues, Drained, Busy
  <2> QED
    BY <2>1, <2>2, <2>4 DEF FutState
<1> QED
  BY <1>1, Inductive, PTL

(* build_network announces BUILT only when the tasks of the routes, the ARP   *)
(* table and the hosts file of every host, and of every link, ended without   *)
(* an error.                                                                  *)
THEOREM BuiltHidesNothing == Spec => BuiltComplete
<1> DEFINE Complete ==
      /\ \A l \in Links : fut[Link(l)] \in {"none", "ok"}
      /\ \A i \in 1..Len(order) :
          /\ fut[Routes(order[i])] = "ok"
          /\ fut[HostsFile(order[i])] = "ok"
          /\ ~Geneve => fut[Arp(order[i])] = "ok"
<1>1. ASSUME IInv, NetworkBuilt
      PROVE  Complete
  <2>1. \A t \in Tasks : t[1] \notin {"host", "adm"} => fut[t] \in {"none", "ok"}
    BY <1>1 DEF NetworkBuilt, IInv, Kept
  <2>2. \A i \in 1..Len(order) : order[i] \in Hosts /\ order[i] \in TasksOf(order)
    BY <1>1 DEF IInv, TypeOK, TasksOf
  <2>3. \A h \in TasksOf(order) : /\ fut[Routes(h)] # "none" /\ fut[HostsFile(h)] # "none"
                                  /\ ~Geneve => fut[Arp(h)] # "none"
    BY <1>1 DEF NetworkBuilt, IInv, Building, Towards
  <2> QED
    BY <2>1, <2>2, <2>3, Kinds
<1>2. ASSUME [Next]_vars, built' # built
      PROVE  NetworkBuilt
  BY <1>2 DEF Next, vars, ScriptStep, Def, Connect, ConnectFails, CmdWaitall, BuildNetwork, AdmHostFails, MainStep,
     AddDoneCallback, InlineDone, RegisterHost, MainWaits, Snapshot, PendingDone, PendingFails,
     HostsDone, HostsFail, GenerateRoutes, BuildEtcHosts, StopHosts, ExecutorShutdown, EndOfScript,
     Interrupt, StartTask, TaskStep, TaskOk, TaskFails, CbStep, CbRegister, CbPool, CbSubmitAdm,
     CbQueuePending, Terminated
<1>3. IInv /\ [Next]_vars => [built' # built => Complete]_vars
  BY <1>1, <1>2
<1> QED
  BY <1>3, Inductive, PTL DEF Spec, BuiltComplete

(* wait_on_pending_tasks empties pending_tasks of nothing that is unfinished  *)
(* or failed, except an administrative link that came after its snapshot.     *)
THEOREM NoneDropped == Spec => OnlyAdmDropped
<1> DEFINE Dropped == \A t \in pending \ pending' : fut[t] = "ok" \/ t[1] = "adm"
<1>1. ASSUME IInv, PendingDone
      PROVE  Dropped
  BY <1>1 DEF PendingDone, IInv, Kept
<1>2. ASSUME [Next]_vars, ~PendingDone
      PROVE  pending \subseteq pending'
  BY <1>2 DEF Next, vars, ScriptStep, Def, Connect, ConnectFails, CmdWaitall, BuildNetwork, AdmHostFails, MainStep,
     AddDoneCallback, InlineDone, RegisterHost, MainWaits, Snapshot, PendingFails, NetworkBuilt,
     HostsDone, HostsFail, GenerateRoutes, BuildEtcHosts, StopHosts, ExecutorShutdown, EndOfScript,
     Interrupt, StartTask, TaskStep, TaskOk, TaskFails, CbStep, CbRegister, CbPool, CbSubmitAdm,
     CbQueuePending, Terminated, SubmitForeach
<1>3. IInv /\ [Next]_vars => [Dropped]_vars
  BY <1>1, <1>2
<1> QED
  BY <1>3, Inductive, PTL DEF Spec, OnlyAdmDropped
================================================================================
