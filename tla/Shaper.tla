--------------------------------- MODULE Shaper --------------------------------
(* Traffic shaping of one link: its two Interface objects, each with a lock   *)
(* that starts locked, the task that creates the link and configures the      *)
(* qdiscs, and the threads that execute set-delay and set-bandwidth, at once  *)
(* or with at=, which leaves the tc command to a timer thread.                *)
EXTENDS Naturals, FiniteSets

CONSTANTS
    Callers,      \* threads that execute set-delay and set-bandwidth
    Values,       \* what they may set a parameter to
    Initial,      \* what init_shaper configures
    MaxCalls,     \* bound: calls in a behaviour
    Options,      \* who calls, with at= or not, and what may go wrong
    Free, LinkTask, NotSet

ASSUME ShaperAssumption ==
    /\ IsFiniteSet(Callers)
    /\ MaxCalls \in Nat
    /\ Options \subseteq [callers : SUBSET Callers, calls : 0..MaxCalls,
                         at : BOOLEAN, errors : BOOLEAN]
    /\ Free \notin Callers \cup {LinkTask} /\ LinkTask \notin Callers
    /\ NotSet \notin Values \cup {Initial}

VARIABLES
    opts,     \* the options of this execution, which never change
    link,     \* how far create_p2p_link is
    held,     \* held[e]: who locked the interface of end e
    kernel,   \* kernel[e][p]: the qdisc parameter p of end e
    topo,     \* topo[p]: what the graph of the topology records for the link
    pc,       \* pc[c]: where the caller c is in set_delay or set_bandwidth
    arg,      \* arg[c]: the parameter, the value and at= of its call
    calls,    \* number of calls so far
    armed     \* timers that have not fired

vars == <<opts, link, held, kernel, topo, pc, arg, calls, armed>>

Ends == {1, 2}
Params == {"delay", "rate"}
Setting == Values \cup {Initial, NotSet}
Args == [param : Params, value : Values, at : BOOLEAN]
Timer == [end : Ends, param : Params, value : Values, call : 1..MaxCalls]
CallerPC == {"idle", "lock1", "tc1", "lock2", "tc2", "record"}
LockPC(e) == IF e = 1 THEN "lock1" ELSE "lock2"
TcPC(e) == IF e = 1 THEN "tc1" ELSE "tc2"
(* Mutant: the second direction is never shaped. *)
NextPC_OneWay(e) == "record"
NextPC(e) == IF e = 1 THEN "lock2" ELSE "record"

Configured(e) == \A p \in Params : kernel[e][p] # NotSet

(* Mutant: the interfaces start unlocked. *)
Init_Unlocked ==
    /\ opts \in Options
    /\ link = "creating"
    /\ held = [e \in Ends |-> Free]
    /\ kernel = [e \in Ends |-> [p \in Params |-> NotSet]]
    /\ topo = [p \in Params |-> NotSet]
    /\ pc = [c \in Callers |-> "idle"]
    /\ arg = [c \in Callers |-> NotSet]
    /\ calls = 0
    /\ armed = {}

(* register_veth has built both interfaces, which start locked. *)
Init ==
    /\ opts \in Options
    /\ link = "creating"
    /\ held = [e \in Ends |-> LinkTask]
    /\ kernel = [e \in Ends |-> [p \in Params |-> NotSet]]
    /\ topo = [p \in Params |-> NotSet]
    /\ pc = [c \in Callers |-> "idle"]
    /\ arg = [c \in Callers |-> NotSet]
    /\ calls = 0
    /\ armed = {}

--------------------------------------------------------------------------------
(* Mutant: init_shaper forgets to unlock. *)
InitShaper_KeepsLock(e) ==
    /\ link = IF e = 1 THEN "creating" ELSE "half"
    /\ link' = IF e = 1 THEN "half" ELSE "up"
    /\ kernel' = [kernel EXCEPT ![e] = [p \in Params |-> Initial]]
    /\ UNCHANGED <<opts, held, topo, pc, arg, calls, armed>>

(* The link task: init_shaper adds both qdiscs and unlocks, first at h1. *)
InitShaper(e) ==
    /\ link = IF e = 1 THEN "creating" ELSE "half"
    /\ link' = IF e = 1 THEN "half" ELSE "up"
    /\ kernel' = [kernel EXCEPT ![e] = [p \in Params |-> Initial]]
    /\ held' = [held EXCEPT ![e] = Free]
    /\ UNCHANGED <<opts, topo, pc, arg, calls, armed>>

(* Mutant: a task that fails unlocks its interfaces, also the one that a call *)
(* has locked since.                                                          *)
LinkFails_Unlocks ==
    /\ opts.errors
    /\ link \in {"creating", "half"}
    /\ link' = "failed"
    /\ held' = [e \in Ends |-> Free]
    /\ UNCHANGED <<opts, kernel, topo, pc, arg, calls, armed>>

(* veth or tc raises: the task ends and what is locked stays locked. *)
LinkFails ==
    /\ opts.errors
    /\ link \in {"creating", "half"}
    /\ link' = "failed"
    /\ UNCHANGED <<opts, held, kernel, topo, pc, arg, calls, armed>>

(* set-delay or set-bandwidth; nothing checks that the link is up. *)
Call(c) ==
    /\ pc[c] = "idle"
    /\ c \in opts.callers /\ calls < opts.calls
    /\ \E a \in Args : (a.at => opts.at) /\ arg' = [arg EXCEPT ![c] = a]
    /\ calls' = calls + 1
    /\ pc' = [pc EXCEPT ![c] = "lock1"]
    /\ UNCHANGED <<opts, link, held, kernel, topo, armed>>

Lock(c, e) ==
    /\ pc[c] = LockPC(e)
    /\ held[e] = Free
    /\ held' = [held EXCEPT ![e] = c]
    /\ pc' = [pc EXCEPT ![c] = TcPC(e)]
    /\ UNCHANGED <<opts, link, kernel, topo, arg, calls, armed>>

(* exec_ runs tc, or starts a timer that will; then the interface is unlocked *)
(* in both cases, and the caller goes on with the other end.                  *)
Shape(c, e) ==
    /\ pc[c] = TcPC(e)
    /\ IF arg[c].at
       THEN /\ armed' = armed \cup {[end |-> e, param |-> arg[c].param,
                                     value |-> arg[c].value, call |-> calls]}
            /\ kernel' = kernel
       ELSE /\ kernel' = [kernel EXCEPT ![e][arg[c].param] = arg[c].value]
            /\ armed' = armed
    /\ held' = [held EXCEPT ![e] = Free]
    /\ pc' = [pc EXCEPT ![c] = NextPC(e)]
    /\ UNCHANGED <<opts, link, topo, arg, calls>>

(* tc exits with an error: exec_ raises IOError, the unlock is skipped and    *)
(* the caller gets a RuntimeError.                                            *)
ShapeFails(c, e) ==
    /\ opts.errors
    /\ pc[c] = TcPC(e)
    /\ ~arg[c].at
    /\ pc' = [pc EXCEPT ![c] = "idle"]
    /\ UNCHANGED <<opts, link, held, kernel, topo, arg, calls, armed>>

Record(c) ==
    /\ pc[c] = "record"
    /\ topo' = [topo EXCEPT ![arg[c].param] = arg[c].value]
    /\ pc' = [pc EXCEPT ![c] = "idle"]
    /\ UNCHANGED <<opts, link, held, kernel, arg, calls, armed>>

(* A timer runs its tc command; nobody sees an error of it. *)
Fire(t) ==
    /\ t \in armed
    /\ armed' = armed \ {t}
    /\ \/ kernel' = [kernel EXCEPT ![t.end][t.param] = t.value]
       \/ opts.errors /\ kernel' = kernel
    /\ UNCHANGED <<opts, link, held, topo, pc, arg, calls>>

--------------------------------------------------------------------------------
LinkStep == (\E e \in Ends : InitShaper(e)) \/ LinkFails
CallerStep(c) == (\E e \in Ends : Lock(c, e) \/ Shape(c, e) \/ ShapeFails(c, e)) \/ Record(c)

Next ==
    \/ LinkStep
    \/ \E c \in Callers : Call(c) \/ CallerStep(c)
    \/ \E t \in armed : Fire(t)

(* The link task ends, a caller inside a call goes on, timers fire. *)
Fairness ==
    /\ WF_vars(LinkStep)
    /\ \A c \in Callers : WF_vars(CallerStep(c))
    /\ WF_vars(\E t \in armed : Fire(t))

Spec == Init /\ [][Next]_vars
FairSpec == Spec /\ Fairness

--------------------------------------------------------------------------------
(* Properties *)

(* Every variable keeps its type. *)
TypeOK ==
    /\ opts \in Options
    /\ link \in {"creating", "half", "up", "failed"}
    /\ held \in [Ends -> Callers \cup {Free, LinkTask}]
    /\ kernel \in [Ends -> [Params -> Setting]]
    /\ topo \in [Params -> Values \cup {NotSet}]
    /\ pc \in [Callers -> CallerPC]
    /\ arg \in [Callers -> Args \cup {NotSet}]
    /\ calls \in 0..MaxCalls
    /\ armed \subseteq Timer

(* What the initial lock is for: no thread, and no timer, changes the qdisc   *)
(* of an interface that the link task has not configured yet.                 *)
ShapedAfterConfigured ==
    /\ \A c \in Callers, e \in Ends : pc[c] = TcPC(e) => Configured(e)
    /\ \A t \in armed : Configured(t.end)

(* The lock of an interface is the thread's that shapes it until it unlocks:  *)
(* no other call gets in between, and neither init_shaper, which unlocks what *)
(* it never locked itself, nor the end of a failed task takes it away.        *)
ShapersExclusive == \A c \in Callers, e \in Ends : pc[c] = TcPC(e) => held[e] = c

(* One thread that shapes at once, and nothing that fails. *)
OneByOne == Cardinality(opts.callers) = 1 /\ ~opts.at /\ ~opts.errors

(* With nothing under way, both ends of a link are shaped alike, and the      *)
(* graph, from which the routes are computed, records what they have, if one  *)
(* thread shapes them.                                                        *)
Quiet == link = "up" /\ armed = {} /\ \A c \in Callers : pc[c] = "idle"
EndsAgree ==
    OneByOne /\ Quiet =>
        /\ kernel[1] = kernel[2]
        /\ \A p \in Params : topo[p] \in {kernel[1][p], NotSet}

(* set-delay and set-bandwidth return, also when the link is still created,   *)
(* if nothing fails, whoever calls them.                                      *)
CallsReturn == \A c \in Callers : pc[c] # "idle" /\ ~opts.errors ~> pc[c] = "idle"
================================================================================
