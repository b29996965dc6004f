-------------------------------- MODULE SSHPool --------------------------------
(* The SSH connections of one real host: SSHConnectionManager (a semaphore, a *)
(* lock and a deque of clients), the SSHConnectionWrapper that a thread keeps *)
(* in thread-local storage, and the timer and pipe threads that share the     *)
(* wrapper of the thread that created them.                                   *)
(*                                                                            *)
(* A thread allocates at most one wrapper of a real host in its life          *)
(* (RealHost.get_connection), so the wrapper has the name of the thread that  *)
(* allocated it.  A wrapper gives its slot back in __del__, which CPython     *)
(* runs in the thread that drops the last reference to it.                    *)
EXTENDS Naturals, Sequences, FiniteSets

CONSTANTS
    Owners,         \* threads that allocate: main, pool workers, foreach threads
    Timers,         \* Timer threads created by exec_(at=...) and setup_pipe
    Pipes,          \* those of setup_pipe: they run until the program ends
    Transient,      \* the owners that end by themselves (foreach threads)
    PoolSize,       \* max_parallel_workers + 1
    MaxReconnects,  \* bound: clients opened after the initial ones
    NoClient, Nobody

ASSUME SSHPoolAssumption ==
    /\ IsFiniteSet(Owners)
    /\ Transient \subseteq Owners
    /\ Pipes \subseteq Timers
    /\ PoolSize \in Nat \ {0}
    /\ MaxReconnects \in Nat
    /\ NoClient \notin Nat
    /\ Nobody \notin Owners

VARIABLES
    sem,     \* value of the semaphore
    lock,    \* the thread that holds allocated_conns' lock, or Nobody
    idle,    \* allocated_conns: the clients in the pool, last one first out
    opened,  \* how many clients were ever opened; they are numbered 1..opened
    pc,      \* pc[o]: where the owner thread o is
    wrap,    \* wrap[o]: the life of the wrapper that o allocates
    conn,    \* conn[o]: SSHConnectionWrapper.conn of that wrapper
    del,     \* del[o]: the wrapper whose __del__ the thread o runs, or Nobody
    back,    \* back[o]: where o goes on when that __del__ returns
    tpc,     \* tpc[s]: where the timer thread s is
    share    \* share[s]: the wrapper captured by the closure of s, or Nobody

vars == <<sem, lock, idle, opened, pc, wrap, conn, del, back, tpc, share>>

Client == 1..(PoolSize + MaxReconnects)

(* A thread that never asked for a connection is at "start"; it waits for the *)
(* semaphore at "sem", then for the lock, pops and unlocks; "using" is normal *)
(* work with a wrapper in thread-local storage; the r-states are release().   *)
OwnerPC == {"start", "sem", "lock", "pop", "unlock", "using",
            "rlock", "rappend", "runlock", "rsem", "ended"}
Releasing == {"rlock", "rappend", "runlock", "rsem"}
WrapState == {"none", "taking", "live", "dying", "freed", "gone"}
TimerPC == {"none", "armed", "running", "ended", "joined"}

(* Mutant: the closure of a timer does not keep the wrapper alive. *)
SharedBy_Nobody(w) == {}

(* What keeps the wrapper w alive: the thread-local variable of the thread    *)
(* that allocated it, and the closure of every timer that captured it, which  *)
(* the Timer object in BaseHost.threads (or in the PipeHandler) holds until   *)
(* BaseHost.wait drops the list.                                              *)
SharedBy(w) == {s \in Timers : share[s] = w /\ tpc[s] \in {"armed", "running", "ended"}}
OwnerRef(w) == pc[w] # "ended" /\ ~ (pc[w] \in Releasing /\ back[w] = "ended")

(* The constructor has opened PoolSize clients before any thread runs. *)
Init ==
    /\ sem = PoolSize
    /\ lock = Nobody
    /\ idle = [i \in 1..PoolSize |-> i]
    /\ opened = PoolSize
    /\ pc = [o \in Owners |-> "start"]
    /\ wrap = [o \in Owners |-> "none"]
    /\ conn = [o \in Owners |-> NoClient]
    /\ del = [o \in Owners |-> Nobody]
    /\ back = [o \in Owners |-> "start"]
    /\ tpc = [s \in Timers |-> "none"]
    /\ share = [s \in Timers |-> Nobody]

--------------------------------------------------------------------------------
(* Taking a connection *)

(* RealHost.get_connection finds nothing in thread-local storage. *)
GetConnection(o) ==
    /\ pc[o] = "start"
    /\ pc' = [pc EXCEPT ![o] = "sem"]
    /\ UNCHANGED <<sem, lock, idle, opened, wrap, conn, del, back, tpc, share>>

(* Mutant: an acquire that times out and whose result nobody looks at. *)
AcquireSem_Ignored(o) ==
    /\ pc[o] = "sem"
    /\ sem' = IF sem > 0 THEN sem - 1 ELSE 0
    /\ wrap' = [wrap EXCEPT ![o] = "taking"]
    /\ pc' = [pc EXCEPT ![o] = "lock"]
    /\ UNCHANGED <<lock, idle, opened, conn, del, back, tpc, share>>

AcquireSem(o) ==
    /\ pc[o] = "sem"
    /\ sem > 0
    /\ sem' = sem - 1
    /\ wrap' = [wrap EXCEPT ![o] = "taking"]
    /\ pc' = [pc EXCEPT ![o] = "lock"]
    /\ UNCHANGED <<lock, idle, opened, conn, del, back, tpc, share>>

LockForTake(o) ==
    /\ pc[o] = "lock"
    /\ lock = Nobody
    /\ lock' = o
    /\ pc' = [pc EXCEPT ![o] = "pop"]
    /\ UNCHANGED <<sem, idle, opened, wrap, conn, del, back, tpc, share>>

(* Mutant: the client is read and stays in the deque. *)
Pop_Peeks(o) ==
    /\ pc[o] = "pop"
    /\ idle # <<>>
    /\ conn' = [conn EXCEPT ![o] = idle[Len(idle)]]
    /\ wrap' = [wrap EXCEPT ![o] = "live"]
    /\ pc' = [pc EXCEPT ![o] = "unlock"]
    /\ UNCHANGED <<sem, lock, idle, opened, del, back, tpc, share>>

(* deque.pop raises IndexError on an empty deque: PopFindsClient says that    *)
(* this guard is never what stops a thread.                                   *)
Pop(o) ==
    /\ pc[o] = "pop"
    /\ idle # <<>>
    /\ conn' = [conn EXCEPT ![o] = idle[Len(idle)]]
    /\ idle' = SubSeq(idle, 1, Len(idle) - 1)
    /\ wrap' = [wrap EXCEPT ![o] = "live"]
    /\ pc' = [pc EXCEPT ![o] = "unlock"]
    /\ UNCHANGED <<sem, lock, opened, del, back, tpc, share>>

(* Mutant: take() returns without the unlock. *)
UnlockAfterTake_Forgotten(o) ==
    /\ pc[o] = "unlock"
    /\ pc' = [pc EXCEPT ![o] = "using"]
    /\ UNCHANGED <<sem, lock, idle, opened, wrap, conn, del, back, tpc, share>>

(* The wrapper is built around the client and stored in thread-local storage. *)
UnlockAfterTake(o) ==
    /\ pc[o] = "unlock"
    /\ lock' = Nobody
    /\ pc' = [pc EXCEPT ![o] = "using"]
    /\ UNCHANGED <<sem, idle, opened, wrap, conn, del, back, tpc, share>>

(* SSHConnectionWrapper.get_channel: the transport is dead, the wrapper gets  *)
(* a new client in place.  Any thread that works with the wrapper may do it;  *)
(* when two do it at once the last assignment stays and the other client is   *)
(* dropped, which is two of these steps.                                      *)
InUse(w) ==
    \/ pc[w] = "using"
    \/ \E s \in Timers : share[s] = w /\ tpc[s] = "running"

Reconnect(w) ==
    /\ wrap[w] = "live"
    /\ InUse(w)
    /\ opened < PoolSize + MaxReconnects
    /\ opened' = opened + 1
    /\ conn' = [conn EXCEPT ![w] = opened + 1]
    /\ UNCHANGED <<sem, lock, idle, pc, wrap, del, back, tpc, share>>

--------------------------------------------------------------------------------
(* Timers and pipes *)

(* exec_(at=...) or setup_pipe: the closure of s captures the wrapper w. *)
Capture(s, w) ==
    /\ tpc[s] = "none"
    /\ tpc' = [tpc EXCEPT ![s] = "armed"]
    /\ share' = [share EXCEPT ![s] = w]
    /\ UNCHANGED <<sem, lock, idle, opened, pc, wrap, conn, del, back>>

(* What a foreach thread runs (ARP, routes, /etc/hosts, close) has no timer. *)
StartTimer(o, s) ==
    /\ pc[o] = "using"
    /\ o \notin Transient
    /\ Capture(s, o)

(* A command that arrives through a pipe may have an at= of its own: the pipe *)
(* thread hands on the wrapper it shares.                                     *)
StartTimerFromPipe(r, s) ==
    /\ r \in Pipes
    /\ s \notin Pipes
    /\ tpc[r] = "running"
    /\ Capture(s, share[r])

(* The timer fires: set_connection(conn), then the command runs on it. *)
FireTimer(s) ==
    /\ tpc[s] = "armed"
    /\ tpc' = [tpc EXCEPT ![s] = "running"]
    /\ UNCHANGED <<sem, lock, idle, opened, pc, wrap, conn, del, back, share>>

EndTimer(s) ==
    /\ tpc[s] = "running"
    /\ tpc' = [tpc EXCEPT ![s] = "ended"]
    /\ UNCHANGED <<sem, lock, idle, opened, pc, wrap, conn, del, back, share>>

--------------------------------------------------------------------------------
(* Dropping references and giving the slot back *)

(* Mutant: the wrapper is built without its release_action. *)
Drop_NoRelease(o, w, next, stays) ==
    /\ pc' = [pc EXCEPT ![o] = next]
    /\ UNCHANGED <<wrap, del, back>>

(* The thread o drops its last interest in the wrapper w and continues at     *)
(* next; stays is true when somebody else still refers to w.  With the last   *)
(* reference gone, __del__ runs at once, in this thread.                      *)
Drop(o, w, next, stays) ==
    IF stays \/ wrap[w] # "live"
    THEN /\ pc' = [pc EXCEPT ![o] = next]
         /\ UNCHANGED <<wrap, del, back>>
    ELSE /\ pc' = [pc EXCEPT ![o] = "rlock"]
         /\ wrap' = [wrap EXCEPT ![w] = "dying"]
         /\ del' = [del EXCEPT ![o] = w]
         /\ back' = [back EXCEPT ![o] = next]

(* BaseHost.wait: join the timer thread, then forget the Timer object.  The   *)
(* thread of a pipe is in no BaseHost.threads, so nobody joins it.            *)
JoinTimer(o, s) ==
    /\ pc[o] \in {"start", "using"}
    /\ s \notin Pipes
    /\ tpc[s] = "ended"
    /\ tpc' = [tpc EXCEPT ![s] = "joined"]
    /\ Drop(o, share[s], pc[o], OwnerRef(share[s]) \/ SharedBy(share[s]) # {s})
    /\ UNCHANGED <<sem, lock, idle, opened, conn, share>>

(* The thread ends and its thread-local storage goes away.  Main and the pool *)
(* workers only end when the whole program does; the threads that             *)
(* parallel_foreach_host starts without an executor end after their function. *)
EndThread(o) ==
    /\ pc[o] = "using"
    /\ Drop(o, o, "ended", SharedBy(o) # {})
    /\ UNCHANGED <<sem, lock, idle, opened, conn, tpc, share>>

LockForRelease(o) ==
    /\ pc[o] = "rlock"
    /\ lock = Nobody
    /\ lock' = o
    /\ pc' = [pc EXCEPT ![o] = "rappend"]
    /\ UNCHANGED <<sem, idle, opened, wrap, conn, del, back, tpc, share>>

(* Mutant: the semaphore is also released inside the critical section. *)
AppendClient_ReleasesSem(o) ==
    /\ pc[o] = "rappend"
    /\ idle' = Append(idle, conn[del[o]])
    /\ sem' = sem + 1
    /\ conn' = [conn EXCEPT ![del[o]] = NoClient]
    /\ wrap' = [wrap EXCEPT ![del[o]] = "freed"]
    /\ pc' = [pc EXCEPT ![o] = "runlock"]
    /\ UNCHANGED <<lock, opened, del, back, tpc, share>>

AppendClient(o) ==
    /\ pc[o] = "rappend"
    /\ idle' = Append(idle, conn[del[o]])
    /\ conn' = [conn EXCEPT ![del[o]] = NoClient]
    /\ wrap' = [wrap EXCEPT ![del[o]] = "freed"]
    /\ pc' = [pc EXCEPT ![o] = "runlock"]
    /\ UNCHANGED <<sem, lock, opened, del, back, tpc, share>>

UnlockAfterRelease(o) ==
    /\ pc[o] = "runlock"
    /\ lock' = Nobody
    /\ pc' = [pc EXCEPT ![o] = "rsem"]
    /\ UNCHANGED <<sem, idle, opened, wrap, conn, del, back, tpc, share>>

ReleaseSem(o) ==
    /\ pc[o] = "rsem"
    /\ sem' = sem + 1
    /\ wrap' = [wrap EXCEPT ![del[o]] = "gone"]
    /\ pc' = [pc EXCEPT ![o] = back[o]]
    /\ del' = [del EXCEPT ![o] = Nobody]
    /\ UNCHANGED <<lock, idle, opened, conn, back, tpc, share>>

--------------------------------------------------------------------------------
TakeStep(o) == AcquireSem(o) \/ LockForTake(o) \/ Pop(o) \/ UnlockAfterTake(o)
ReleaseStep(o) == LockForRelease(o) \/ AppendClient(o) \/ UnlockAfterRelease(o) \/ ReleaseSem(o)
TimerStep(s) == FireTimer(s) \/ EndTimer(s)

Next ==
    \/ \E o \in Owners : \/ GetConnection(o)
                         \/ TakeStep(o)
                         \/ Reconnect(o)
                         \/ EndThread(o)
                         \/ ReleaseStep(o)
    \/ \E o \in Owners, s \in Timers : StartTimer(o, s) \/ JoinTimer(o, s)
    \/ \E s \in Timers : TimerStep(s) \/ (\E r \in Pipes : StartTimerFromPipe(r, s))

(* Nobody has to ask for a connection or to start a timer.  What the code     *)
(* runs once started goes on: a thread inside take() or release(), a timer    *)
(* that fires and whose command ends, a foreach thread, and the join of a     *)
(* timer that ended (waitall joins them).                                     *)
Fairness ==
    /\ \A o \in Owners : WF_vars(TakeStep(o)) /\ WF_vars(ReleaseStep(o))
    /\ \A o \in Transient : WF_vars(EndThread(o))
    /\ \A s \in Timers \ Pipes : WF_vars(TimerStep(s)) /\ WF_vars(\E o \in Owners : JoinTimer(o, s))

Spec == Init /\ [][Next]_vars
FairSpec == Spec /\ Fairness

--------------------------------------------------------------------------------
(* Properties *)

(* Every variable keeps its type; the pool never holds more clients than      *)
(* slots and the semaphore stays between 0 and PoolSize.                      *)
TypeOK ==
    /\ sem \in 0..PoolSize
    /\ lock \in Owners \cup {Nobody}
    /\ idle \in Seq(Client)
    /\ opened \in PoolSize..(PoolSize + MaxReconnects)
    /\ pc \in [Owners -> OwnerPC]
    /\ wrap \in [Owners -> WrapState]
    /\ conn \in [Owners -> Client \cup {NoClient}]
    /\ del \in [Owners -> Owners \cup {Nobody}]
    /\ back \in [Owners -> {"start", "using", "ended"}]
    /\ tpc \in [Timers -> TimerPC]
    /\ share \in [Timers -> Owners \cup {Nobody}]

(* take() pops after it got the semaphore and holds the lock: the deque then  *)
(* has a client, whatever releases are half done (release appends before it   *)
(* releases the semaphore, never after).                                      *)
PopFindsClient == \A o \in Owners : pc[o] = "pop" => idle # <<>>

(* No SSH client is in the pool and in use, or in use through two wrappers,   *)
(* also after a reconnection replaced the client of a wrapper.                *)
ClientsExclusive ==
    /\ \A i, j \in 1..Len(idle) : idle[i] = idle[j] => i = j
    /\ \A i \in 1..Len(idle), o \in Owners : idle[i] # conn[o]
    /\ \A o, p \in Owners : conn[o] = conn[p] /\ conn[o] # NoClient => o = p

(* A timer or pipe thread that runs a command still holds its creator's       *)
(* connection, although the creator may have ended long before: the slot is   *)
(* not given back while a closure that captured the wrapper can still run.    *)
SharedWrapperLive == \A s \in Timers : tpc[s] = "running" => wrap[share[s]] = "live"

(* With one slot for main and one for every worker (pool_size =               *)
(* max_parallel_workers + 1) a thread of the program never waits for a slot,  *)
(* however many timers run: a timer thread never takes one of its own.        *)
NoWaitForSlot == \A o \in Owners : pc[o] = "sem" => sem > 0

(* A thread that asked for a connection gets one. *)
EveryRequestServed == \A o \in Owners : pc[o] = "sem" ~> pc[o] = "using"

(* A foreach thread that needs the real host gets a slot and gives it back:   *)
(* what lets the join at the end of parallel_foreach_host return when there   *)
(* are more virtual hosts than slots.                                         *)
SlotsReturn == \A o \in Transient : pc[o] = "sem" ~> wrap[o] = "gone"

(* The pool implements the leases of ConnectionSlots, a wrapper's client      *)
(* being the lease of the thread that allocated it.                           *)
SlotLeases == INSTANCE ConnectionSlots WITH
    Users <- Owners, Slots <- PoolSize, Clients <- Client, lease <- conn
ImplementsSlots == SlotLeases!Spec
================================================================================
