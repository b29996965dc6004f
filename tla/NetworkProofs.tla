------------------------------ MODULE NetworkProofs ------------------------------
(* The network of the virtual hosts.                                          *)
(*                                                                            *)
(* Shaper, for any number of threads, calls and values, with at= or not and   *)
(* whatever fails: nobody shapes an interface before the link task has        *)
(* configured it or while another does, and one thread that shapes without    *)
(* at= leaves both ends alike.                                                *)
(*                                                                            *)
(* Routing, for any hosts, links and delays: packets arrive along paths of    *)
(* the least weight, the compressed tables send them the same way, and the    *)
(* trees too when the kernel takes them all, as it does with a graph without  *)
(* circles; the weights must not be nothing.                                  *)
EXTENDS Shaper, Routing,
        FiniteSetTheorems, SequenceTheorems, WellFoundedInduction, TLAPS

--------------------------------------------------------------------------------
(* Shaper *)

(* A call under way has been counted and knows what it sets. *)
CallKnown == \A c \in Callers : pc[c] # "idle" => calls # 0 /\ arg[c] \in Args

(* The first lock is the link task's; it is given up only when the interface  *)
(* is configured, and never comes back.                                       *)
Unlocked(e) == held[e] # LinkTask
LockFirst ==
    /\ \A e \in Ends : Unlocked(e) => Configured(e)
    /\ \A c \in Callers, e \in Ends : pc[c] = TcPC(e) => Unlocked(e)
    /\ \A t \in armed : Unlocked(t.end)

IInv == TypeOK /\ CallKnown /\ LockFirst

LEMMA EndPCs ==
    /\ LockPC(1) = "lock1" /\ LockPC(2) = "lock2"
    /\ TcPC(1) = "tc1" /\ TcPC(2) = "tc2"
    /\ NextPC(1) = "lock2" /\ NextPC(2) = "record"
  BY DEF LockPC, TcPC, NextPC

LEMMA InitIInv == Init => IInv
<1> SUFFICES ASSUME Init PROVE IInv
  OBVIOUS
<1>1. TypeOK
  BY ShaperAssumption DEF Init, TypeOK, Setting, CallerPC, Timer
<1>2. CallKnown
  BY DEF Init, CallKnown
<1>3. LockFirst
  BY EndPCs DEF Init, LockFirst, Unlocked, Ends
<1> QED
  BY <1>1, <1>2, <1>3 DEF IInv

(* A parameter is set to a value, so that what is configured stays so.        *)
LEMMA SetConfigures ==
    ASSUME TypeOK, NEW e \in Ends, NEW p \in Params, NEW v \in Values,
           kernel' = [kernel EXCEPT ![e][p] = v], NEW f \in Ends, Configured(f)
    PROVE  Configured(f)'
<1>1. v # NotSet
  BY ShaperAssumption
<1>2. \A g \in Ends, q \in Params :
        kernel'[g][q] = IF g = e /\ q = p THEN v ELSE kernel[g][q]
  BY DEF TypeOK
<1> QED
  BY <1>1, <1>2 DEF Configured

(* Setting parameters never makes an interface less configured.               *)
LEMMA LockFirstKept ==
    ASSUME IInv,
           \A e \in Ends : Unlocked(e) => Unlocked(e)',
           \A e \in Ends : Unlocked(e)' => Configured(e)',
           \A c \in Callers, e \in Ends : (pc[c] = TcPC(e))' => pc[c] = TcPC(e) \/ Unlocked(e)',
           \A t \in armed' : t \in armed \/ Unlocked(t.end)',
           armed \subseteq Timer
    PROVE  LockFirst'
  BY DEF IInv, LockFirst, Timer

LEMMA LinkIInv ==
    ASSUME IInv, LinkStep
    PROVE  IInv'
<1>1. ASSUME NEW e \in Ends, InitShaper(e) PROVE IInv'
  <2>1. TypeOK'
    BY <1>1 DEF InitShaper, IInv, TypeOK, Setting
  <2>2. CallKnown'
    BY <1>1 DEF InitShaper, IInv, CallKnown
  <2>3. Unlocked(e)' /\ Configured(e)'
    BY <1>1, ShaperAssumption DEF InitShaper, IInv, TypeOK, Unlocked, Configured
  <2>4. \A f \in Ends \ {e} : (Unlocked(f)' <=> Unlocked(f)) /\ (Configured(f)' <=> Configured(f))
    BY <1>1 DEF InitShaper, IInv, TypeOK, Unlocked, Configured
  <2>5. LockFirst'
    BY <1>1, <2>3, <2>4, LockFirstKept DEF InitShaper, IInv, TypeOK, LockFirst
  <2> QED
    BY <2>1, <2>2, <2>5 DEF IInv
<1>2. CASE LinkFails
  BY <1>2 DEF LinkFails, IInv, TypeOK, CallKnown, LockFirst, Unlocked, Configured
<1> QED
  BY <1>1, <1>2 DEF LinkStep

LEMMA CallIInv ==
    ASSUME IInv, NEW c \in Callers, Call(c)
    PROVE  IInv'
<1>1. TypeOK'
  <2>1. calls' \in 0..MaxCalls
    BY ShaperAssumption DEF Call, IInv, TypeOK
  <2> QED
    BY <2>1 DEF Call, IInv, TypeOK, CallerPC
<1>2. CallKnown'
  <2>1. calls' # 0
    BY DEF Call, IInv, TypeOK
  <2>2. \A d \in Callers : pc'[d] # "idle" => arg'[d] \in Args
    BY DEF Call, IInv, TypeOK, CallKnown
  <2> QED
    BY <2>1, <2>2 DEF CallKnown
<1>3. \A d \in Callers, e \in Ends : (pc[d] = TcPC(e))' => pc[d] = TcPC(e)
  BY EndPCs DEF Call, IInv, TypeOK, Ends
<1>4. LockFirst'
  BY <1>3 DEF Call, IInv, LockFirst, Unlocked, Configured
<1> QED
  BY <1>1, <1>2, <1>4 DEF IInv

LEMMA LockIInv ==
    ASSUME IInv, NEW c \in Callers, NEW e \in Ends, Lock(c, e)
    PROVE  IInv'
<1>1. TypeOK'
  BY EndPCs DEF Lock, IInv, TypeOK, CallerPC, Ends
<1>2. CallKnown'
  BY EndPCs DEF Lock, IInv, TypeOK, CallKnown, Ends
<1>3. \A f \in Ends : Unlocked(f)' <=> Unlocked(f)
  BY ShaperAssumption DEF Lock, IInv, TypeOK, Unlocked
<1>4. Unlocked(e)
  BY ShaperAssumption DEF Lock, Unlocked
<1>5. \A d \in Callers, f \in Ends : (pc[d] = TcPC(f))' => pc[d] = TcPC(f) \/ f = e
  BY EndPCs DEF Lock, IInv, TypeOK, Ends
<1>6. \A f \in Ends : Configured(f)' <=> Configured(f)
  BY DEF Lock, Configured
<1>7. LockFirst'
  BY <1>3, <1>4, <1>5, <1>6, LockFirstKept DEF Lock, IInv, TypeOK, LockFirst
<1> QED
  BY <1>1, <1>2, <1>7 DEF IInv

LEMMA ShapeIInv ==
    ASSUME IInv, NEW c \in Callers, NEW e \in Ends, Shape(c, e)
    PROVE  IInv'
<1>1. arg[c] \in Args /\ Unlocked(e) /\ Configured(e) /\ calls \in 1..MaxCalls
  <2>1. pc[c] # "idle"
    BY EndPCs DEF Shape, Ends
  <2>2. arg[c] \in Args /\ calls # 0
    BY <2>1 DEF IInv, CallKnown
  <2>3. Unlocked(e) /\ Configured(e)
    BY DEF Shape, IInv, LockFirst
  <2> QED
    BY <2>2, <2>3, ShaperAssumption DEF IInv, TypeOK
<1>2. /\ held' \in [Ends -> Callers \cup {Free, LinkTask}]
      /\ \A f \in Ends : Unlocked(f)' <=> Unlocked(f)
  BY <1>1, ShaperAssumption DEF Shape, IInv, TypeOK, Unlocked
<1>3. /\ pc' \in [Callers -> CallerPC]
      /\ \A d \in Callers : pc'[d] # "idle" => pc[d] # "idle"
      /\ \A d \in Callers, f \in Ends : (pc[d] = TcPC(f))' => pc[d] = TcPC(f)
  BY EndPCs DEF Shape, IInv, TypeOK, CallerPC, Ends
<1>4. CallKnown'
  BY <1>3 DEF Shape, IInv, CallKnown
<1>5. CASE arg[c].at
  <2> DEFINE new == [end |-> e, param |-> arg[c].param,
                     value |-> arg[c].value, call |-> calls]
  <2>1. new \in Timer /\ armed' = armed \cup {new} /\ kernel' = kernel
    BY <1>1, <1>5 DEF Shape, Timer, Args
  <2>2. TypeOK'
    BY <1>2, <1>3, <2>1 DEF Shape, IInv, TypeOK
  <2>3. LockFirst'
    <3>1. \A f \in Ends : Configured(f)' <=> Configured(f)
      BY <2>1 DEF Configured
    <3>2. \A t \in armed' : Unlocked(t.end)'
      <4>1. \A t \in armed : Unlocked(t.end) /\ t.end \in Ends
        BY DEF IInv, TypeOK, Timer, LockFirst
      <4> QED
        BY <1>1, <1>2, <2>1, <4>1
    <3> QED
      BY <1>2, <1>3, <3>1, <3>2 DEF IInv, LockFirst
  <2> QED
    BY <1>4, <2>2, <2>3 DEF IInv
<1>6. CASE ~arg[c].at
  <2>1. armed' = armed /\ kernel' = [kernel EXCEPT ![e][arg[c].param] = arg[c].value]
    BY <1>6 DEF Shape
  <2>2. TypeOK' /\ \A f \in Ends : Configured(f) => Configured(f)'
    <3>1. arg[c].param \in Params /\ arg[c].value \in Values
      BY <1>1 DEF Args
    <3>2. kernel' \in [Ends -> [Params -> Setting]]
      BY <2>1, <3>1 DEF IInv, TypeOK, Setting
    <3>3. \A f \in Ends : Configured(f) => Configured(f)'
      BY <2>1, <3>1, SetConfigures DEF IInv
    <3> QED
      BY <1>2, <1>3, <2>1, <3>2, <3>3 DEF Shape, IInv, TypeOK
  <2>3. LockFirst'
    <3>1. \A t \in armed : Unlocked(t.end)'
      BY <1>2 DEF IInv, TypeOK, Timer, LockFirst
    <3> QED
      BY <1>2, <1>3, <2>1, <2>2, <3>1 DEF IInv, LockFirst
  <2> QED
    BY <1>4, <2>2, <2>3 DEF IInv
<1> QED
  BY <1>5, <1>6

LEMMA FailIInv ==
    ASSUME IInv, NEW c \in Callers, NEW e \in Ends, ShapeFails(c, e)
    PROVE  IInv'
<1>1. TypeOK'
  BY DEF ShapeFails, IInv, TypeOK, CallerPC
<1>2. CallKnown'
  BY DEF ShapeFails, IInv, TypeOK, CallKnown
<1>3. \A d \in Callers, f \in Ends : (pc[d] = TcPC(f))' => pc[d] = TcPC(f)
  BY EndPCs DEF ShapeFails, IInv, TypeOK, Ends
<1>4. LockFirst'
  BY <1>3 DEF ShapeFails, IInv, LockFirst, Unlocked, Configured
<1> QED
  BY <1>1, <1>2, <1>4 DEF IInv

LEMMA RecordIInv ==
    ASSUME IInv, NEW c \in Callers, Record(c)
    PROVE  IInv'
<1>1. arg[c] \in Args
  BY DEF Record, IInv, CallKnown
<1>2. topo' \in [Params -> Values \cup {NotSet}]
  BY <1>1 DEF Record, IInv, TypeOK, Args
<1>3. TypeOK'
  BY <1>2 DEF Record, IInv, TypeOK, CallerPC
<1>4. CallKnown'
  BY DEF Record, IInv, TypeOK, CallKnown
<1>5. \A d \in Callers, f \in Ends : (pc[d] = TcPC(f))' => pc[d] = TcPC(f)
  BY EndPCs DEF Record, IInv, TypeOK, Ends
<1>6. LockFirst'
  BY <1>5 DEF Record, IInv, LockFirst, Unlocked, Configured
<1> QED
  BY <1>3, <1>4, <1>6 DEF IInv

LEMMA FireIInv ==
    ASSUME IInv, NEW t \in armed, Fire(t)
    PROVE  IInv'
<1>1. t.end \in Ends /\ t.param \in Params /\ t.value \in Values
  BY DEF IInv, TypeOK, Timer
<1>2. kernel' \in [Ends -> [Params -> Setting]]
  BY <1>1 DEF Fire, IInv, TypeOK, Setting
<1>3. TypeOK'
  BY <1>2 DEF Fire, IInv, TypeOK
<1>4. CallKnown'
  BY DEF Fire, IInv, CallKnown
<1>5. \A f \in Ends : Configured(f) => Configured(f)'
  <2>1. CASE kernel' = kernel
    BY <2>1 DEF Configured
  <2>2. CASE kernel' = [kernel EXCEPT ![t.end][t.param] = t.value]
    BY <1>1, <2>2, SetConfigures DEF IInv
  <2> QED
    BY <2>1, <2>2 DEF Fire
<1>6. LockFirst'
  BY <1>5 DEF Fire, IInv, LockFirst, Unlocked
<1> QED
  BY <1>3, <1>4, <1>6 DEF IInv

LEMMA NextIInv == IInv /\ [Next]_vars => IInv'
<1> SUFFICES ASSUME IInv, [Next]_vars PROVE IInv'
  OBVIOUS
<1>1. CASE LinkStep
  BY <1>1, LinkIInv
<1>2. ASSUME NEW c \in Callers, Call(c) \/ CallerStep(c) PROVE IInv'
  BY <1>2, CallIInv, LockIInv, ShapeIInv, FailIInv, RecordIInv DEF CallerStep
<1>3. ASSUME NEW t \in armed, Fire(t) PROVE IInv'
  BY <1>3, FireIInv
<1>4. CASE UNCHANGED vars
  BY <1>4 DEF vars, IInv, TypeOK, CallKnown, LockFirst, Unlocked, Configured
<1> QED
  BY <1>1, <1>2, <1>3, <1>4 DEF Next

--------------------------------------------------------------------------------
(* One thread, without at= and errors *)

(* The locks that the link task still holds. *)
LinkLocks ==
    /\ link = "creating" => ~Unlocked(1) /\ ~Unlocked(2)
    /\ link = "half" => ~Unlocked(2)

(* The call of c has shaped the first end with p, and not yet the second.     *)
Between(c, p) == pc[c] \in {"lock2", "tc2"} /\ p = arg[c].param

(* What the call under way still has to do tells how the ends, and the graph  *)
(* of the topology, differ.                                                   *)
Alike(c) ==
    /\ pc[c] # "idle" => ~arg[c].at
    /\ link = "creating" => pc[c] \in {"idle", "lock1"}
    /\ link = "half" =>
        /\ pc[c] \in {"idle", "lock1", "tc1", "lock2"}
        /\ \A p \in Params : kernel[1][p] = IF Between(c, p) THEN arg[c].value ELSE Initial
    /\ link \in {"creating", "half"} => \A p \in Params : topo[p] = NotSet
    /\ link = "up" => \A p \in Params :
        /\ kernel[1][p] = IF Between(c, p) THEN arg[c].value ELSE kernel[2][p]
        /\ IF pc[c] = "record" /\ p = arg[c].param
           THEN kernel[2][p] = arg[c].value
           ELSE topo[p] \in {kernel[2][p], NotSet}

Agreement ==
    /\ LinkLocks
    /\ \A c \in Callers : pc[c] # "idle" => c \in opts.callers
    /\ OneByOne =>
        /\ armed = {} /\ link # "failed"
        /\ \A c \in opts.callers : Alike(c)

LEMMA OneCaller ==
    ASSUME TypeOK, OneByOne
    PROVE  \E c \in Callers : opts.callers = {c}
<1>1. opts.callers \subseteq Callers /\ IsFiniteSet(Callers)
  BY ShaperAssumption DEF TypeOK
<1>2. IsFiniteSet(opts.callers)
  BY <1>1, FS_Subset
<1> QED
  BY <1>1, <1>2, FS_Singleton DEF OneByOne

LEMMA InitAgreement == Init => Agreement
<1> SUFFICES ASSUME Init PROVE Agreement
  OBVIOUS
<1>1. opts.callers \subseteq Callers
  BY ShaperAssumption DEF Init
<1> QED
  BY <1>1 DEF Init, Agreement, LinkLocks, Unlocked, Ends, OneByOne, Alike, Between

LEMMA LinkLocksKept ==
    ASSUME IInv, LinkLocks, [Next]_vars
    PROVE  LinkLocks'
<1>1. ASSUME NEW c \in Callers, NEW e \in Ends, Lock(c, e) \/ Shape(c, e)
      PROVE  Unlocked(e) /\ link' = link /\ \A f \in Ends \ {e} : held'[f] = held[f]
  BY <1>1, ShaperAssumption DEF Lock, Shape, IInv, TypeOK, LockFirst, Unlocked
<1>2. ASSUME NEW e \in Ends, InitShaper(e)
      PROVE  LinkLocks'
  BY <1>2 DEF InitShaper, IInv, TypeOK, LinkLocks, Unlocked, Ends
<1>3. ASSUME held' = held, link' \in {link, "failed"}
      PROVE  LinkLocks'
  BY <1>3 DEF LinkLocks, Unlocked
<1>4. ASSUME NEW c \in Callers, NEW e \in Ends, Lock(c, e) \/ Shape(c, e)
      PROVE  LinkLocks'
  BY <1>1, <1>4 DEF LinkLocks, Unlocked, Ends
<1> QED
  BY <1>2, <1>3, <1>4 DEF Next, LinkStep, LinkFails, Call, CallerStep, ShapeFails, Record, Fire, vars

(* Unlocking is for those that hold the lock: the link task while the link is *)
(* not up, a call while it shapes.                                            *)
LEMMA ExclusiveKept ==
    ASSUME IInv, LinkLocks, ShapersExclusive, [Next]_vars
    PROVE  ShapersExclusive'
<1> SUFFICES ASSUME NEW d \in Callers, NEW f \in Ends, (pc[d] = TcPC(f))'
             PROVE  held'[f] = d
  BY DEF ShapersExclusive
<1>0. held \in [Ends -> Callers \cup {Free, LinkTask}] /\ pc \in [Callers -> CallerPC]
  BY DEF IInv, TypeOK
<1>1. ASSUME NEW e \in Ends, InitShaper(e) PROVE held'[f] = d
  <2>1. pc[d] = TcPC(f) /\ held[f] = d
    BY <1>1 DEF InitShaper, ShapersExclusive, TcPC
  <2>2. held[e] = LinkTask
    BY <1>1 DEF InitShaper, LinkLocks, Unlocked, Ends
  <2>3. f # e
    BY <2>1, <2>2, ShaperAssumption
  <2> QED
    BY <1>0, <1>1, <2>1, <2>3 DEF InitShaper
<1>2. ASSUME NEW c \in Callers, NEW e \in Ends, Lock(c, e) PROVE held'[f] = d
  <2>1. held[e] = Free /\ held' = [held EXCEPT ![e] = c] /\ pc' = [pc EXCEPT ![c] = TcPC(e)]
    BY <1>2 DEF Lock
  <2>2. CASE d = c
    <3>1. f = e
      BY <1>0, <2>1, <2>2, EndPCs DEF Ends
    <3> QED
      BY <1>0, <2>1, <2>2, <3>1
  <2>3. CASE d # c
    <3>1. pc[d] = TcPC(f)
      BY <1>0, <2>1, <2>3 DEF TcPC
    <3>2. held[f] = d /\ f # e
      BY <2>1, <3>1, ShaperAssumption DEF ShapersExclusive
    <3> QED
      BY <1>0, <2>1, <3>2
  <2> QED
    BY <2>2, <2>3
<1>3. ASSUME NEW c \in Callers, NEW e \in Ends, Shape(c, e) PROVE held'[f] = d
  <2>1. pc[c] = TcPC(e) /\ held[e] = c
    BY <1>3 DEF Shape, ShapersExclusive
  <2>2. d # c
    BY <1>0, <1>3, EndPCs DEF Shape, Ends
  <2>3. pc[d] = TcPC(f)
    BY <1>0, <1>3, <2>2 DEF Shape, TcPC
  <2>4. held[f] = d /\ f # e
    BY <2>1, <2>2, <2>3 DEF ShapersExclusive
  <2> QED
    BY <1>0, <1>3, <2>4 DEF Shape
<1>4. ASSUME UNCHANGED held, pc'[d] \in {pc[d], "idle", "lock1"} PROVE held'[f] = d
  BY <1>4, EndPCs DEF ShapersExclusive, Ends, TcPC
<1>5. ASSUME NEW c \in Callers, NEW e \in Ends, Call(c) \/ ShapeFails(c, e) \/ Record(c)
      PROVE  held'[f] = d
  BY <1>0, <1>4, <1>5 DEF Call, ShapeFails, Record
<1>6. ASSUME UNCHANGED <<held, pc>> PROVE held'[f] = d
  BY <1>4, <1>6
<1>7. ASSUME NEW c \in Callers, Record(c) \/ Call(c) PROVE held'[f] = d
  BY <1>5, <1>7 DEF Ends
<1> QED
  BY <1>1, <1>2, <1>3, <1>5, <1>6, <1>7 DEF Next, LinkStep, LinkFails, CallerStep, Fire, vars

LEMMA CallersKept ==
    ASSUME IInv, Agreement, [Next]_vars
    PROVE  /\ opts' = opts
           /\ \A c \in Callers : pc'[c] # "idle" => c \in opts'.callers
<1>1. opts' = opts
  BY DEF Next, LinkStep, InitShaper, LinkFails, Call, CallerStep, Lock, Shape, ShapeFails, Record,
     Fire, vars
<1>2. \A c \in Callers : pc'[c] # "idle" => pc[c] # "idle" \/ c \in opts.callers
  BY EndPCs DEF Next, LinkStep, InitShaper, LinkFails, Call, CallerStep, Lock, Shape, ShapeFails,
     Record, Fire, vars, IInv, TypeOK, Ends
<1> QED
  BY <1>1, <1>2 DEF Agreement

(* A step of the only caller, or of the link task. *)
LEMMA OneCallerStep ==
    ASSUME IInv, Agreement, OneByOne, NEW c \in Callers, opts.callers = {c}, [Next]_vars
    PROVE  /\ armed' = {} /\ link' # "failed"
           /\ Alike(c)'
<1>1. /\ armed = {} /\ link # "failed" /\ Alike(c) /\ LinkLocks
      /\ ~opts.at /\ ~opts.errors
      /\ \A d \in Callers : d # c => pc[d] = "idle"
  BY DEF Agreement, OneByOne
<1>2. CASE InitShaper(1)
  BY <1>1, <1>2 DEF InitShaper, Alike, Between, IInv, TypeOK, Ends
<1>3. CASE InitShaper(2)
  BY <1>1, <1>3 DEF InitShaper, Alike, Between, IInv, TypeOK, Ends
<1>4. CASE Call(c)
  BY <1>1, <1>4 DEF Call, Alike, Between, IInv, TypeOK
<1>5. CASE Lock(c, 1)
  <2>1. /\ pc[c] = "lock1" /\ pc'[c] = "tc1" /\ Unlocked(1)
        /\ UNCHANGED <<opts, link, kernel, topo, arg, calls, armed>>
    BY <1>5, EndPCs, ShaperAssumption DEF Lock, IInv, TypeOK, Unlocked
  <2>2. link # "creating"
    BY <1>1, <2>1 DEF LinkLocks
  <2> QED
    BY <1>1, <2>1, <2>2 DEF Alike, Between
<1>6. CASE Lock(c, 2)
  BY <1>1, <1>6, EndPCs, ShaperAssumption DEF Lock, Alike, Between, IInv, TypeOK, LinkLocks, Unlocked
<1>7. CASE Shape(c, 1)
  BY <1>1, <1>7, EndPCs DEF Shape, Alike, Between, IInv, TypeOK, Args, CallKnown, Ends
<1>8. CASE Shape(c, 2)
  BY <1>1, <1>8, EndPCs DEF Shape, Alike, Between, IInv, TypeOK, Args, CallKnown, Ends
<1>9. CASE Record(c)
  BY <1>1, <1>9 DEF Record, Alike, Between, IInv, TypeOK, Args, CallKnown
<1>10. CASE UNCHANGED vars
  BY <1>1, <1>10 DEF vars, Alike, Between
<1>11. \A e \in Ends : e = 1 \/ e = 2
  BY DEF Ends
<1>12. \A d \in Callers : CallerStep(d) => d = c
  BY <1>1, EndPCs, <1>11 DEF CallerStep, Lock, Shape, ShapeFails, Record, Ends
<1> QED
  BY <1>1, <1>2, <1>3, <1>4, <1>5, <1>6, <1>7, <1>8, <1>9, <1>10, <1>11, <1>12
     DEF Next, LinkStep, LinkFails, CallerStep, ShapeFails, Call

LEMMA NextAgreement ==
    ASSUME IInv, Agreement, [Next]_vars
    PROVE  Agreement'
<1>1. opts' = opts /\ \A c \in Callers : pc'[c] # "idle" => c \in opts'.callers
  BY CallersKept
<1>2. ASSUME OneByOne'
      PROVE  armed' = {} /\ link' # "failed" /\ \A c \in opts'.callers : Alike(c)'
  <2>1. OneByOne /\ TypeOK
    BY <1>1, <1>2 DEF OneByOne, IInv
  <2>2. PICK c \in Callers : opts.callers = {c}
    BY <2>1, OneCaller
  <2> QED
    BY <1>1, <2>1, <2>2, OneCallerStep
<1> QED
  BY <1>1, <1>2, LinkLocksKept DEF Agreement

--------------------------------------------------------------------------------
(* Theorems *)

(* The inductive invariant: types, what calls know, and the lock of           *)
(* Interface.__init__, which stays with the link task until init_shaper.      *)
THEOREM Inductive == Spec => []IInv
  BY InitIInv, NextIInv, PTL DEF Spec

(* Every variable keeps its type, whoever calls shape_delay and               *)
(* shape_bandwidth and whatever fails.                                        *)
THEOREM TypeCorrect == Spec => []TypeOK
<1>1. IInv => TypeOK
  BY DEF IInv
<1> QED
  BY <1>1, Inductive, PTL

(* No thread and no timer changes the qdisc of an interface before            *)
(* init_shaper has configured it: what the initial lock promises.             *)
THEOREM ConfiguredFirst == Spec => []ShapedAfterConfigured
<1>1. IInv => ShapedAfterConfigured
  BY DEF IInv, TypeOK, Timer, LockFirst, ShapedAfterConfigured
<1> QED
  BY <1>1, Inductive, PTL

(* A thread that executes set-delay and set-bandwidth without at= leaves both *)
(* ends of the link, and the graph of the topology, with the same values,     *)
(* when nothing fails, also when it started before the link was up.           *)
THEOREM EndsShapedAlike == Spec => []EndsAgree
<1>1. IInv /\ Agreement => EndsAgree
  <2> SUFFICES ASSUME IInv, Agreement, OneByOne, Quiet
               PROVE  kernel[1] = kernel[2] /\ \A p \in Params : topo[p] \in {kernel[1][p], NotSet}
    BY DEF EndsAgree
  <2>1. PICK c \in Callers : opts.callers = {c}
    BY OneCaller DEF IInv
  <2>2. Alike(c) /\ pc[c] = "idle" /\ link = "up"
    BY <2>1 DEF Agreement, Quiet
  <2>3. \A p \in Params : kernel[1][p] = kernel[2][p] /\ topo[p] \in {kernel[2][p], NotSet}
    BY <2>2 DEF Alike, Between
  <2>4. kernel[1] \in [Params -> Setting] /\ kernel[2] \in [Params -> Setting]
    BY DEF IInv, TypeOK, Ends
  <2> QED
    BY <2>3, <2>4
<1>2. IInv /\ Agreement /\ [Next]_vars => Agreement'
  BY NextAgreement
<1> QED
  BY <1>1, <1>2, InitAgreement, Inductive, PTL DEF Spec

(* Who shapes an interface holds its lock until it unlocks it: neither a call *)
(* nor the link task unlocks what another has locked since.                   *)
THEOREM ShapeAlone == Spec => []ShapersExclusive
<1>1. Init => LinkLocks /\ ShapersExclusive
  BY EndPCs DEF Init, LinkLocks, Unlocked, ShapersExclusive, Ends
<1>2. IInv /\ LinkLocks /\ ShapersExclusive /\ [Next]_vars => (LinkLocks /\ ShapersExclusive)'
  BY LinkLocksKept, ExclusiveKept
<1> QED
  BY <1>1, <1>2, Inductive, PTL DEF Spec

--------------------------------------------------------------------------------
(* Routing *)

(* Every set of numbers has a least one. *)
LEMMA Least ==
    ASSUME NEW S \in SUBSET Nat, S # {}
    PROVE  \E x \in S : \A y \in S : x <= y
<1>1. PICK x \in S : \A y \in S : ~ (<<y, x>> \in OpToRel(<, Nat))
  BY NatLessThanWellFounded, WFMin
<1>2. \A y \in S : ~ (y < x)
  BY <1>1 DEF OpToRel
<1> QED
  BY <1>2

(* It is the one that Min chooses. *)
LEMMA MinLeast ==
    ASSUME NEW S \in SUBSET Nat, S # {}
    PROVE  Min(S) \in S /\ \A y \in S : Min(S) <= y
<1>1. \E x \in S : \A y \in S : x <= y
  BY Least
<1> QED
  BY <1>1 DEF Min

(* A finite set of numbers has a greatest one: a smallest set without one     *)
(* would have a smaller one without one.                                      *)
LEMMA Greatest ==
    ASSUME NEW S \in SUBSET Nat, S # {}, IsFiniteSet(S)
    PROVE  \E x \in S : \A y \in S : x >= y
<1> DEFINE Bad(T) == T # {} /\ ~ \E x \in T : \A y \in T : x >= y
           Sizes0 == {Cardinality(T) : T \in {T \in SUBSET S : Bad(T)}}
<1>1. \A T \in SUBSET S : IsFiniteSet(T) /\ Cardinality(T) \in Nat
  BY FS_Subset, FS_CardinalityType
<1> SUFFICES ASSUME Sizes0 # {} PROVE FALSE
  <2>1. S \in SUBSET S
    OBVIOUS
  <2> QED
    BY <2>1
<1>2. Sizes0 \in SUBSET Nat
  BY <1>1
<1>3. PICK n \in Sizes0 : \A k \in Sizes0 : n <= k
  BY <1>2, Least
<1>4. PICK T \in SUBSET S : Bad(T) /\ Cardinality(T) = n
  BY <1>3
<1>5. PICK t \in T : TRUE
  BY <1>4
<1>6. Cardinality(T \ {t}) = n - 1 /\ n \in Nat
  BY <1>1, <1>4, <1>5, FS_RemoveElement
<1>7. ~ Bad(T \ {t})
  <2>1. ASSUME Bad(T \ {t}) PROVE FALSE
    <3>1. n - 1 \in Sizes0
      BY <1>6, <2>1
    <3>2. n <= n - 1
      BY <1>3, <3>1
    <3> QED
      BY <1>6, <3>2
  <2> QED
    BY <2>1
<1>8. CASE T \ {t} = {}
  <2>1. \A y \in T : t >= y
    BY <1>5, <1>8
  <2> QED
    BY <1>4, <1>5, <2>1
<1>9. CASE T \ {t} # {}
  <2>1. PICK m \in T \ {t} : \A y \in T \ {t} : m >= y
    BY <1>7, <1>9
  <2>2. m \in Nat /\ t \in Nat
    BY <1>5, <2>1
  <2>3. CASE m >= t
    <3>1. \A y \in T : m >= y
      BY <2>1, <2>3
    <3> QED
      BY <1>4, <2>1, <3>1
  <2>4. CASE t > m
    <3>1. \A y \in T : y \in Nat
      OBVIOUS
    <3>2. \A y \in T : t >= y
      BY <2>1, <2>2, <2>4, <3>1
    <3> QED
      BY <1>4, <1>5, <3>2
  <2> QED
    BY <2>2, <2>3, <2>4
<1> QED
  BY <1>8, <1>9

(* D is defined by recursion on its argument: from x, one more F each time. *)
Iterates(D, n, S, x, F) ==
    /\ D \in [0..n -> S]
    /\ \A k \in 0..n : D[k] = IF k = 0 THEN x ELSE F[D[k - 1]]

(* Such a function exists. *)
LEMMA Recursion ==
    ASSUME NEW S, NEW x \in S, NEW F \in [S -> S], NEW n \in Nat
    PROVE  \E D : Iterates(D, n, S, x, F)
<1> DEFINE Has(m) == \E D \in [0..m -> S] : \A k \in 0..m : D[k] = IF k = 0 THEN x ELSE F[D[k - 1]]
           Bad == {m \in Nat : ~ Has(m)}
<1> USE DEF Iterates
<1> SUFFICES ASSUME Bad # {} PROVE FALSE
  OBVIOUS
<1>1. PICK m \in Bad : \A k \in Bad : m <= k
  BY Least
<1>2. CASE m = 0
  <2> DEFINE D == [k \in 0..m |-> x]
  <2>1. D \in [0..m -> S]
    OBVIOUS
  <2>2. \A k \in 0..m : k = 0
    BY <1>2
  <2>3. \A k \in 0..m : D[k] = IF k = 0 THEN x ELSE F[D[k - 1]]
    BY <2>2
  <2> QED
    BY <1>1, <2>1, <2>3
<1>3. CASE m # 0
  <2>0. m \in Nat
    BY <1>1
  <2>1. m - 1 \in Nat /\ m - 1 \notin Bad
    <3>1. m - 1 \in Nat /\ ~ (m <= m - 1)
      BY <1>3, <2>0
    <3> HIDE DEF Bad
    <3> QED
      BY <1>1, <3>1
  <2>2. PICK D \in [0..(m - 1) -> S] :
            \A k \in 0..(m - 1) : D[k] = IF k = 0 THEN x ELSE F[D[k - 1]]
    BY <2>1
  <2> DEFINE E == [k \in 0..m |-> IF k = m THEN F[D[m - 1]] ELSE D[k]]
  <2>3. \A k \in 0..m : k = m \/ k \in 0..(m - 1)
    BY <2>1
  <2>4. D[m - 1] \in S
    BY <2>1, <2>2
  <2>5. E \in [0..m -> S]
    BY <2>2, <2>3, <2>4
  <2>6. \A k \in 0..m : E[k] = IF k = 0 THEN x ELSE F[E[k - 1]]
    <3> SUFFICES ASSUME NEW k \in 0..m PROVE E[k] = IF k = 0 THEN x ELSE F[E[k - 1]]
      OBVIOUS
    <3>1. CASE k = m
      <4>1. k # 0 /\ k - 1 \in 0..m /\ k - 1 # m /\ E[k] = F[D[k - 1]] /\ E[k - 1] = D[k - 1]
        BY <1>3, <2>1, <3>1
      <4> QED
        BY <4>1
    <3>2. CASE k # m
      <4>1. k \in 0..(m - 1) /\ E[k] = D[k]
        BY <2>3, <3>2
      <4>2. D[k] = IF k = 0 THEN x ELSE F[D[k - 1]]
        BY <2>2, <4>1
      <4>3. k # 0 => k - 1 \in 0..m /\ k - 1 # m
        BY <2>1, <4>1
      <4>4. k # 0 => E[k - 1] = D[k - 1]
        BY <4>3
      <4> QED
        BY <4>1, <4>2, <4>4
    <3> QED
      BY <3>1, <3>2
  <2> QED
    BY <1>1, <2>5, <2>6
<1> QED
  BY <1>2, <1>3

(* The links join two hosts each, and are the edges of the graph. *)
Linked ==
    /\ links \in Seq(Hosts \X Hosts) /\ Len(links) <= MaxLinks
    /\ \A i \in LinkIds : links[i][1] # links[i][2]
    /\ Edges = {EndHosts(i) : i \in LinkIds}
    /\ \A e \in Edges : delay[e] \in Weights

(* Hosts between which no link leads out of a set of hosts that holds one.    *)
Closed(S, ids) == \A i \in ids : links[i][1] \in S <=> links[i][2] \in S
Part(x, ids) == {y \in Hosts : \A S \in SUBSET Hosts : Closed(S, ids) /\ x \in S => y \in S}

(* There are links all the way to the hosts at a finite distance. *)
Connects(s, dist) == \A d \in Hosts : dist[d] < Infinity => d \in Part(s, LinkIds)

(* The hosts next to s from which the rest of the way to d is what is left of *)
(* the distance.                                                              *)
Closer(s, d, dist) ==
    {g \in Hosts : {s, g} \in Edges /\ Weight(s, g) + dist[g][d] = dist[s][d]}

(* The tasks of build-network have found a first hop to every other host.     *)
Found ==
    /\ all_pairs \in [Hosts -> [Hosts -> 0..Infinity]]
    /\ DOMAIN via \in {{}, Hosts}
    /\ Built => \A s \in Hosts : all_pairs[s][s] = 0 /\ Connects(s, all_pairs[s])
    /\ Built => \A s \in Hosts :
          /\ DOMAIN via[s] = Reached(s, all_pairs)
          /\ \A d \in Reached(s, all_pairs) : via[s][d] \in Closer(s, d, all_pairs)

RoutesInv == Linked /\ Found

(* A path has a length. *)
LEMMA InfinityPositive == Infinity \in Nat /\ Infinity > 0
<1> DEFINE S == Weights
<1>1. S \in SUBSET Nat /\ S # {} /\ IsFiniteSet(S)
  BY RoutingAssumption DEF Weights, Parsed, NoDelay
<1>2. \E x \in S : \A y \in S : x >= y
  BY <1>1, Greatest
<1>3. Max(S) \in S
  BY <1>2 DEF Max
<1>4. Max(S) \in Nat /\ Cardinality(Hosts) \in Nat
  BY <1>1, <1>3, RoutingAssumption, FS_CardinalityType
<1>5. PICK m \in Nat, n \in Nat : m = Max(S) /\ n = Cardinality(Hosts)
  BY <1>4
<1>6. n * m \in Nat
  BY <1>5
<1> QED
  BY <1>5, <1>6 DEF Infinity

(* A link joins two hosts, which the graph joins too. *)
LEMMA LinkBasics ==
    ASSUME Linked, NEW i \in LinkIds
    PROVE  /\ i \in Nat \ {0}
           /\ links[i][1] \in Hosts /\ links[i][2] \in Hosts /\ links[i][1] # links[i][2]
           /\ EndHosts(i) = {links[i][1], links[i][2]}
           /\ EndHosts(i) \in Edges
<1>1. i \in DOMAIN links /\ i \in Nat \ {0}
  BY LenProperties DEF Linked, LinkIds
<1>2. links[i] \in Hosts \X Hosts
  BY <1>1, ElementOfSeq DEF Linked, LinkIds
<1> QED
  BY <1>1, <1>2 DEF Linked, EndHosts

(* An edge weighs the same both ways, and something if all edges do. *)
LEMMA WeightPositive ==
    ASSUME Linked, NEW h, NEW g, {h, g} \in Edges
    PROVE  /\ Weight(h, g) \in Nat /\ (Weighed => Weight(h, g) > 0) /\ Weight(g, h) = Weight(h, g)
           /\ h \in Hosts /\ g \in Hosts /\ h # g
<1>1. {h, g} = {g, h}
  OBVIOUS
<1>2. PICK i \in LinkIds : {h, g} = EndHosts(i)
  BY DEF Linked
<1>3. h \in Hosts /\ g \in Hosts /\ h # g
  BY <1>2, LinkBasics
<1>4. delay[{h, g}] \in Nat
  <2>1. \A w \in Weights : w \in Nat
    BY RoutingAssumption DEF Weights, Parsed, NoDelay
  <2> QED
    BY <2>1 DEF Linked
<1>5. Weighed => delay[{h, g}] > 0
  BY <1>4 DEF Weighed
<1> QED
  BY <1>1, <1>3, <1>4, <1>5 DEF Weight

(* A host at one end of a link is connected with the hosts at the other. *)
LEMMA EdgePart ==
    ASSUME Linked, NEW s, NEW g \in Part(s, LinkIds), NEW h, {g, h} \in Edges
    PROVE  h \in Part(s, LinkIds)
<1>1. PICK i \in LinkIds : {g, h} = {links[i][1], links[i][2]}
  BY LinkBasics DEF Linked
<1>2. h \in Hosts /\ g # h
  BY WeightPositive
<1>3. ASSUME NEW S \in SUBSET Hosts, Closed(S, LinkIds), s \in S PROVE h \in S
  <2>1. g \in S
    BY <1>3 DEF Part
  <2>2. links[i][1] \in S <=> links[i][2] \in S
    BY <1>3 DEF Closed
  <2>3. (g = links[i][1] /\ h = links[i][2]) \/ (g = links[i][2] /\ h = links[i][1])
    BY <1>1, <1>2
  <2> QED
    BY <2>1, <2>2, <2>3
<1> QED
  BY <1>2, <1>3 DEF Part

(* One more edge neither makes a path longer nor moves its start. *)
LEMMA ShortenedType ==
    ASSUME Linked, NEW s \in Hosts, NEW dist \in [Hosts -> 0..Infinity],
           dist[s] = 0, Connects(s, dist)
    PROVE  /\ Shortened(dist, Hosts) \in [Hosts -> 0..Infinity] /\ Shortened(dist, Hosts)[s] = 0
           /\ Connects(s, Shortened(dist, Hosts))
<1> DEFINE C(h) == {dist[h]} \cup {dist[g] + Weight(g, h) : g \in {x \in Hosts : {x, h} \in Edges}}
<1>0. Infinity \in Nat
  BY InfinityPositive
<1>1. ASSUME NEW h \in Hosts
      PROVE  /\ Min(C(h)) \in 0..Infinity /\ (h = s => Min(C(h)) = 0)
             /\ Min(C(h)) < Infinity => h \in Part(s, LinkIds)
  <2>1. dist[h] \in 0..Infinity /\ \A g \in Hosts : dist[g] \in Nat
    BY <1>0
  <2>2. \A g \in {x \in Hosts : {x, h} \in Edges} :
            Weight(g, h) \in Nat /\ dist[g] + Weight(g, h) \in Nat
    BY <2>1, WeightPositive
  <2>3. C(h) \in SUBSET Nat /\ C(h) # {} /\ dist[h] \in C(h)
    BY <2>1, <2>2
  <2>4. Min(C(h)) \in C(h) /\ Min(C(h)) \in Nat /\ Min(C(h)) <= dist[h]
    BY <2>3, MinLeast
  <2>5. ASSUME Min(C(h)) < Infinity PROVE h \in Part(s, LinkIds)
    <3>1. CASE Min(C(h)) = dist[h]
      BY <2>5, <3>1 DEF Connects
    <3>2. CASE \E g \in {x \in Hosts : {x, h} \in Edges} : Min(C(h)) = dist[g] + Weight(g, h)
      <4>1. PICK g \in {x \in Hosts : {x, h} \in Edges} : Min(C(h)) = dist[g] + Weight(g, h)
        BY <3>2
      <4>2. dist[g] < Infinity
        <5> HIDE DEF C
        <5> QED
          BY <1>0, <2>1, <2>2, <2>5, <4>1
      <4>3. g \in Part(s, LinkIds)
        BY <4>2 DEF Connects
      <4> QED
        BY <4>3, EdgePart
    <3> QED
      BY <2>4, <3>1, <3>2
  <2> QED
    BY <1>0, <2>1, <2>4, <2>5
<1>2. Shortened(dist, Hosts) = [h \in Hosts |-> Min(C(h))]
  BY DEF Shortened
<1> HIDE DEF C
<1>3. Connects(s, Shortened(dist, Hosts))
  BY <1>1, <1>2 DEF Connects
<1> QED
  BY <1>1, <1>2, <1>3

(* The path from a host to itself has no length. *)
LEMMA DistFromType ==
    ASSUME Linked, NEW s \in Hosts
    PROVE  DistFrom(s, Hosts) \in [Hosts -> 0..Infinity] /\ DistFrom(s, Hosts)[s] = 0 /\ Connects(s, DistFrom(s, Hosts))
<1> DEFINE S == {f \in [Hosts -> 0..Infinity] : f[s] = 0 /\ Connects(s, f)}
           x == [h \in Hosts |-> IF h = s THEN 0 ELSE Infinity]
           F == [f \in S |-> Shortened(f, Hosts)]
           last == Cardinality(Hosts) - 1
<1>1. last \in Nat
  <2>1. Cardinality(Hosts) \in Nat /\ Cardinality(Hosts) # 0
    BY RoutingAssumption, FS_CardinalityType, FS_EmptySet
  <2> QED
    BY <2>1
<1>2. x \in S
  <2>1. x \in [Hosts -> 0..Infinity] /\ x[s] = 0
    BY InfinityPositive
  <2>2. s \in Part(s, LinkIds)
    BY DEF Part
  <2>3. Connects(s, x)
    BY <2>2, InfinityPositive DEF Connects
  <2> QED
    BY <2>1, <2>3
<1>3. F \in [S -> S]
  BY ShortenedType
<1> HIDE DEF last
<1>4. PICK D : Iterates(D, last, S, x, F)
  <2> HIDE DEF S, x, F
  <2> QED
    BY <1>1, <1>2, <1>3, Recursion
<1>5. D = [k \in 0..last |-> IF k = 0 THEN x ELSE Shortened(D[k - 1], Hosts)]
  <2> HIDE DEF x, S
  <2>1. \A k \in 0..last : k # 0 => D[k - 1] \in S
    BY <1>1, <1>4 DEF Iterates
  <2>2. \A k \in 0..last : k # 0 => F[D[k - 1]] = Shortened(D[k - 1], Hosts)
    BY <2>1
  <2> HIDE DEF F
  <2> QED
    BY <1>4, <2>2 DEF Iterates
<1> DEFINE R[k \in 0..last] == IF k = 0 THEN x ELSE Shortened(R[k - 1], Hosts)
<1>6. R = [k \in 0..last |-> IF k = 0 THEN x ELSE Shortened(R[k - 1], Hosts)]
  BY <1>5
<1>7. \A k \in 0..last : R[k] \in S
  <2> DEFINE Bad == {k \in 0..last : R[k] \notin S}
  <2>0. \A k \in 0..last : R[k] = IF k = 0 THEN x ELSE Shortened(R[k - 1], Hosts)
    <3> HIDE DEF R, x
    <3> QED
      BY <1>6
  <2>1. \A f \in S : Shortened(f, Hosts) \in S
    BY ShortenedType
  <2> HIDE DEF R, x, S
  <2> SUFFICES ASSUME Bad # {} PROVE FALSE
    OBVIOUS
  <2>2. PICK k \in Bad : \A j \in Bad : k <= j
    <3>1. Bad \in SUBSET Nat
      BY <1>1
    <3> QED
      BY <3>1, Least
  <2>3. k # 0
    BY <1>2, <2>0, <2>2
  <2>4. k - 1 \in 0..last /\ ~ (k <= k - 1)
    BY <1>1, <2>2, <2>3
  <2>5. R[k - 1] \in S
    BY <2>2, <2>4
  <2> QED
    BY <2>0, <2>1, <2>2, <2>3, <2>5
<1>8. DistFrom(s, Hosts) = R[last]
  BY DEF DistFrom, last
<1>9. R[last] \in S
  <2> HIDE DEF R, S
  <2> QED
    BY <1>1, <1>7
<1> HIDE DEF R
<1> QED
  BY <1>8, <1>9

(* What it means to be one of Products. *)
LEMMA ProductsTakes ==
    ASSUME NEW S, NEW choices, DOMAIN choices = S, NEW f \in Products(choices)
    PROVE  DOMAIN f = S /\ \A x \in S : f[x] \in choices[x]
  BY DEF Products

(* Every host knows how far the others are. *)
LEMMA DistType ==
    ASSUME Linked
    PROVE  /\ Dist \in [Hosts -> [Hosts -> 0..Infinity]]
           /\ \A s \in Hosts : Dist[s][s] = 0 /\ Connects(s, Dist[s])
  BY DistFromType DEF Dist

(* The empty script. *)
LEMMA InitRoutesInv == RoutesInit => RoutesInv
<1> SUFFICES ASSUME RoutesInit PROVE RoutesInv
  OBVIOUS
<1>1. links = <<>> /\ Len(links) = 0 /\ DOMAIN delay = {} /\ DOMAIN via = {} /\ all_pairs = Dist
  BY DEF RoutesInit
<1>2. LinkIds = {}
  BY <1>1 DEF LinkIds
<1>3. Linked
  BY <1>1, <1>2, RoutingAssumption DEF Linked, Edges
<1>4. Found
  BY <1>1, <1>3, DistType DEF Found, Built
<1> QED
  BY <1>3, <1>4 DEF RoutesInv

(* The weights that connect and set-delay give. *)
LEMMA WeightsHave == NoDelay \in Weights /\ \A d \in Delays : Parsed(d) \in Weights
  BY DEF Weights

(* connect adds a link, and an edge if the two hosts had none. *)
LEMMA ConnectInv ==
    ASSUME RoutesInv, NEW h \in Hosts, NEW g \in Hosts, NewLink(h, g),
           NEW w \in Weights, Delay({h, g}, w) \/ ({h, g} \in Edges /\ delay' = delay)
    PROVE  RoutesInv'
<1>0. PICK n \in Nat : n = Len(links)
  BY LenProperties DEF RoutesInv, Linked
<1>1. /\ ~Built /\ h # g /\ n < MaxLinks /\ links' = Append(links, <<h, g>>)
      /\ all_pairs' = all_pairs /\ via' = via
      /\ (Delay({h, g}, w) \/ ({h, g} \in Edges /\ delay' = delay))
  BY <1>0 DEF NewLink
<1>2. /\ links' \in Seq(Hosts \X Hosts) /\ Len(links') = n + 1
      /\ \A i \in 1..n : links'[i] = links[i]
      /\ links'[n + 1] = <<h, g>>
  BY <1>0, <1>1, AppendProperties DEF RoutesInv, Linked
<1>3. LinkIds = 1..n /\ LinkIds' = 1..(n + 1) /\ \A i \in 1..(n + 1) : i \in 1..n \/ i = n + 1
  BY <1>0, <1>2 DEF LinkIds
<1>4. /\ \A i \in 1..n : i \in 1..(n + 1) /\ EndHosts(i)' = EndHosts(i)
      /\ EndHosts(n + 1)' = {h, g} /\ n + 1 \in 1..(n + 1)
  BY <1>2 DEF EndHosts
<1>5. Edges' = Edges \cup {{h, g}}
  BY <1>1 DEF Edges, Delay
<1>6. Linked'
  <2>1. Len(links') <= MaxLinks
    BY <1>1, <1>2, RoutingAssumption
  <2>2. \A i \in LinkIds' : links'[i][1] # links'[i][2]
    BY <1>1, <1>2, <1>3 DEF RoutesInv, Linked
  <2>3. Edges' = {EndHosts(i)' : i \in LinkIds'}
    <3>1. \A i \in LinkIds' : EndHosts(i)' \in Edges'
      BY <1>3, <1>4, <1>5 DEF RoutesInv, Linked
    <3>2. \A e \in Edges' : \E i \in LinkIds' : e = EndHosts(i)'
      <4> SUFFICES ASSUME NEW e \in Edges' PROVE \E i \in LinkIds' : e = EndHosts(i)'
        OBVIOUS
      <4>1. CASE e \in Edges
        <5>1. PICK i \in 1..n : e = EndHosts(i)
          BY <1>3, <4>1 DEF RoutesInv, Linked
        <5> QED
          BY <1>3, <1>4, <5>1
      <4>2. CASE e = {h, g}
        BY <1>3, <1>4, <4>2
      <4> QED
        BY <1>5, <4>1, <4>2
    <3> QED
      BY <3>1, <3>2
  <2>4. \A e \in Edges' : delay'[e] \in Weights
    BY <1>1, <1>5 DEF RoutesInv, Linked, Delay, Edges
  <2> QED
    BY <1>2, <2>1, <2>2, <2>3, <2>4 DEF Linked
<1>7. Found'
  BY <1>1 DEF RoutesInv, Found, Built
<1> QED
  BY <1>6, <1>7 DEF RoutesInv

(* set-delay changes no link. *)
LEMMA SetDelayInv ==
    ASSUME RoutesInv, NEW h \in Hosts, NEW g \in Hosts, NEW d \in Delays, SetDelay(h, g, d)
    PROVE  RoutesInv'
<1>1. /\ ~Built /\ {h, g} \in Edges /\ UNCHANGED <<links, all_pairs, via>>
      /\ delay' = [x \in Edges \cup {{h, g}} |-> IF x = {h, g} THEN Parsed(d) ELSE delay[x]]
  BY DEF SetDelay, Delay
<1>2. Edges' = Edges
  BY <1>1 DEF Edges
<1>3. LinkIds' = LinkIds /\ \A i : EndHosts(i)' = EndHosts(i)
  BY <1>1 DEF LinkIds, EndHosts
<1>4. \A e \in Edges' : delay'[e] \in Weights
  BY <1>1, <1>2, WeightsHave DEF RoutesInv, Linked
<1>5. Linked'
  BY <1>1, <1>2, <1>3, <1>4 DEF RoutesInv, Linked
<1>6. Found'
  BY <1>1 DEF RoutesInv, Found, Built
<1> QED
  BY <1>5, <1>6 DEF RoutesInv

(* generate_routes finds first hops on shortest paths. *)
LEMMA GenerateRoutesInv == ASSUME RoutesInv, GenerateRoutes PROVE RoutesInv'
<1>1. ~Built /\ all_pairs' = Dist /\ UNCHANGED <<links, delay>>
  BY DEF GenerateRoutes
<1>2. PICK routes : routes = [h \in Hosts |-> RoutesFrom(h, all_pairs')] /\ via' \in Products(routes)
  BY DEF GenerateRoutes
<1>3. DOMAIN via' = Hosts /\ \A s \in Hosts : via'[s] \in RoutesFrom(s, all_pairs')
  BY <1>2, ProductsTakes
<1>4. Linked'
  BY <1>1 DEF RoutesInv, Linked, LinkIds, EndHosts, Edges
<1>5. /\ Dist \in [Hosts -> [Hosts -> 0..Infinity]]
      /\ \A s \in Hosts : Dist[s][s] = 0 /\ Connects(s, Dist[s])
  BY DistType DEF RoutesInv
<1>6. ASSUME NEW s \in Hosts
      PROVE  /\ DOMAIN via'[s] = Reached(s, all_pairs')
             /\ \A d \in Reached(s, all_pairs') : via'[s][d] \in Closer(s, d, all_pairs')
  <2> DEFINE c == [d \in Reached(s, all_pairs') |-> FirstHops(s, d, all_pairs')]
  <2>1. via'[s] \in Products(c) /\ DOMAIN c = Reached(s, all_pairs')
    BY <1>3 DEF RoutesFrom
  <2>2. DOMAIN via'[s] = Reached(s, all_pairs')
        /\ \A d \in Reached(s, all_pairs') : via'[s][d] \in FirstHops(s, d, all_pairs')
    BY <2>1, ProductsTakes
  <2> QED
    BY <2>2 DEF FirstHops, Closer
<1>7. ASSUME NEW s \in Hosts PROVE all_pairs'[s][s] = 0 /\ Connects(s, all_pairs[s])'
  <2>1. LinkIds' = LinkIds /\ Part(s, LinkIds)' = Part(s, LinkIds)
    BY <1>1 DEF LinkIds, Part, Closed
  <2>2. all_pairs'[s] = Dist[s]
    BY <1>1
  <2> QED
    BY <1>5, <2>1, <2>2 DEF Connects
<1>8. Found'
  BY <1>1, <1>3, <1>5, <1>6, <1>7 DEF Found, Reached, Closer, Edges, Weight
<1> QED
  BY <1>4, <1>8 DEF RoutesInv

(* Topo: links and graph fit, and the routes of every host begin shortest     *)
(* paths in that graph, whatever connect and set-delay did before.            *)
THEOREM RoutesInductive == RoutesSpec => []RoutesInv
<1>1. RoutesInv /\ [RoutesNext]_routesVars => RoutesInv'
  <2> SUFFICES ASSUME RoutesInv, [RoutesNext]_routesVars PROVE RoutesInv'
    OBVIOUS
  <2>1. ASSUME NEW h \in Hosts, NEW g \in Hosts, NEW d \in Delays, Connect(h, g, d)
        PROVE  RoutesInv'
    BY <2>1, ConnectInv, WeightsHave DEF Connect
  <2>5. ASSUME NEW h \in Hosts, NEW g \in Hosts, ConnectPlain(h, g)
        PROVE  RoutesInv'
    BY <2>5, ConnectInv, WeightsHave DEF ConnectPlain
  <2>2. ASSUME NEW h \in Hosts, NEW g \in Hosts, NEW d \in Delays, SetDelay(h, g, d)
        PROVE  RoutesInv'
    BY <2>2, SetDelayInv
  <2>3. CASE GenerateRoutes
    BY <2>3, GenerateRoutesInv
  <2>4. CASE UNCHANGED routesVars
    <3>1. links' = links /\ delay' = delay /\ all_pairs' = all_pairs /\ via' = via
      BY <2>4 DEF routesVars
    <3>2. Linked'
      BY <3>1 DEF RoutesInv, Linked, LinkIds, EndHosts, Edges
    <3>3. Found'
      BY <3>1 DEF RoutesInv, Found, Built, Reached, Closer, Edges, Weight,
                  Connects, Part, Closed, LinkIds
    <3> QED
      BY <3>2, <3>3 DEF RoutesInv
  <2> QED
    BY <2>1, <2>2, <2>3, <2>4, <2>5 DEF RoutesNext
<1> QED
  BY <1>1, InitRoutesInv, PTL DEF RoutesSpec

(* An address says which network it is in, and with it which host has it.     *)
LEMMA AddrNet ==
    ASSUME Linked, NEW i \in LinkIds, NEW h
    PROVE  /\ Addr(i, h) \in Nat /\ Net(Addr(i, h)) = i
           /\ Addr(i, h) % 4 \in {1, 2}
           /\ First(i) \in Nat /\ First(i) < Addr(i, h) /\ Addr(i, h) < First(i) + 3
<1>1. i \in Nat \ {0}
  BY LinkBasics
<1>2. Addr(i, h) = 4 * (i - 1) + 1 \/ Addr(i, h) = 4 * (i - 1) + 2
  BY DEF Addr, First
<1>3. PICK j \in Nat : i = j + 1
  <2>1. i - 1 \in Nat /\ i = (i - 1) + 1
    BY <1>1
  <2> QED
    BY <2>1
<1>4. (4 * j + 1) \div 4 = j /\ (4 * j + 2) \div 4 = j /\ (4 * j + 1) % 4 = 1 /\ (4 * j + 2) % 4 = 2
  OBVIOUS
<1> QED
  BY <1>2, <1>3, <1>4 DEF Net, First

(* So does every address of a host. *)
LEMMA AddrsNet ==
    ASSUME Linked, NEW d, NEW a \in AddrsOf(d)
    PROVE  /\ a \in Nat /\ Net(a) \in LinksOf(d) /\ a = Addr(Net(a), d) /\ a % 4 \in {1, 2}
           /\ First(Net(a)) \in Nat /\ First(Net(a)) < a /\ a < First(Net(a)) + 3
<1>1. PICK i \in LinksOf(d) : a = Addr(i, d)
  BY DEF AddrsOf
<1> QED
  BY <1>1, AddrNet DEF LinksOf

(* No two hosts have one address. *)
LEMMA AddrOwner ==
    ASSUME Linked, NEW x, NEW y, NEW a, a \in AddrsOf(x), a \in AddrsOf(y)
    PROVE  x = y
<1>1. PICK i \in LinkIds : i = Net(a) /\ i \in LinksOf(x) /\ i \in LinksOf(y)
                           /\ Addr(i, x) = Addr(i, y)
  BY AddrsNet DEF LinksOf
<1>2. x \in {links[i][1], links[i][2]} /\ y \in {links[i][1], links[i][2]}
      /\ links[i][1] # links[i][2] /\ i \in Nat
  BY <1>1, LinkBasics DEF LinksOf
<1>3. PICK f \in Nat : f = First(i)
  BY <1>1, AddrNet
<1>4. (links[i][1] = x <=> links[i][1] = y)
  BY <1>1, <1>3 DEF Addr
<1> QED
  BY <1>2, <1>4

(* get_endpoint_iface returns a link between the two hosts. *)
LEMMA LinkToLinks ==
    ASSUME Linked, NEW h, NEW g, {h, g} \in Edges
    PROVE  /\ LinkTo(h, g) \in LinksOf(h) /\ LinkTo(h, g) \in LinkIds
           /\ Peer(LinkTo(h, g), h) = g
<1> DEFINE S == {i \in LinkIds : EndHosts(i) = {h, g}}
<1>1. S # {} /\ S \in SUBSET Nat
  BY LinkBasics DEF Linked
<1>2. LinkTo(h, g) \in S
  BY <1>1, MinLeast DEF LinkTo
<1>3. h # g
  BY WeightPositive
<1> QED
  BY <1>2, <1>3 DEF LinksOf, Peer

(* The first hop that h has found to d is closer to d, or d itself; with      *)
(* edges without weight it is not farther from it.                            *)
LEMMA FirstHopCloser ==
    ASSUME RoutesInv, Built, NEW h \in Hosts, NEW d \in Reached(h, all_pairs)
    PROVE  LET g == via[h][d] IN
           /\ g \in Hosts /\ {h, g} \in Edges /\ d \in Hosts /\ d # h
           /\ Weight(h, g) + all_pairs[g][d] = all_pairs[h][d]
           /\ Weighed => all_pairs[g][d] < all_pairs[h][d]
           /\ g = d \/ d \in Reached(g, all_pairs)
<1> DEFINE g == via[h][d]
<1>1. g \in Closer(h, d, all_pairs) /\ d \in Hosts /\ d # h /\ all_pairs[h][d] < Infinity
  BY DEF RoutesInv, Found, Reached
<1>2. g \in Hosts /\ {h, g} \in Edges /\ Weight(h, g) + all_pairs[g][d] = all_pairs[h][d]
  BY <1>1 DEF Closer
<1>3. Weight(h, g) \in Nat /\ (Weighed => Weight(h, g) > 0) /\ Infinity \in Nat
  BY <1>2, WeightPositive, InfinityPositive DEF RoutesInv
<1>4. all_pairs[g][d] \in Nat /\ all_pairs[h][d] \in Nat
  BY <1>1, <1>2, <1>3 DEF RoutesInv, Found
<1> HIDE DEF g
<1>5. (Weighed => all_pairs[g][d] < all_pairs[h][d]) /\ all_pairs[g][d] < Infinity
  BY <1>1, <1>2, <1>3, <1>4
<1>6. g = d \/ d \in Reached(g, all_pairs)
  BY <1>1, <1>5 DEF Reached
<1> QED
  BY <1>1, <1>2, <1>5, <1>6 DEF g

(* An address of d is routed through the link to the first hop, unless it is  *)
(* of the network of that link.                                               *)
LEMMA RoutedThrough ==
    ASSUME RoutesInv, Built, NEW h \in Hosts, NEW d \in Reached(h, all_pairs),
           NEW a \in AddrsOf(d), NEW l
    PROVE  a \in Routed(h, l) <=> l = LinkTo(h, via[h][d]) /\ Net(a) # l
<1>1. DOMAIN via[h] = Reached(h, all_pairs)
  BY DEF RoutesInv, Found
<1>2. \A x : a \in AddrsOf(x) => x = d
  BY AddrOwner DEF RoutesInv
<1>3. a \in Routed(h, l) <=>
          /\ \E x \in DOMAIN via[h] : LinkTo(h, via[h][x]) = l /\ a \in AddrsOf(x)
          /\ Net(a) # l
  BY DEF Routed
<1> QED
  BY <1>1, <1>2, <1>3

(* No host routes its own addresses. *)
LEMMA OwnNotRouted ==
    ASSUME RoutesInv, Built, NEW h \in Hosts, NEW a \in AddrsOf(h), NEW l
    PROVE  a \notin Routed(h, l)
<1>1. DOMAIN via[h] = Reached(h, all_pairs) /\ h \notin Reached(h, all_pairs)
  BY DEF RoutesInv, Found, Reached
<1>2. \A x : a \in AddrsOf(x) => x = h
  BY AddrOwner DEF RoutesInv
<1> QED
  BY <1>1, <1>2 DEF Routed

(* The longest prefix decides among routes through several links. *)
LEMMA LongestPrefix ==
    ASSUME NEW match, \A r \in match : r.size \in Nat, NEW l,
           \E r \in match : r.link = l,
           \A r \in match : r.link # l => \E s \in match : s.link = l /\ s.size < r.size
    PROVE  {r.link : r \in {x \in match : \A y \in match : x.size <= y.size}} = {l}
<1> DEFINE best == {x \in match : \A y \in match : x.size <= y.size}
<1>1. \A r \in best : r.link = l
  OBVIOUS
<1>2. \E r \in best : TRUE
  <2> DEFINE S == {r.size : r \in match}
  <2>1. S \in SUBSET Nat /\ S # {}
    OBVIOUS
  <2>2. PICK n \in S : \A k \in S : n <= k
    BY <2>1, Least
  <2> QED
    BY <2>2
<1> QED
  BY <1>1, <1>2

(* The addresses of a network are those from its first one on. *)
LEMMA NetRange ==
    ASSUME NEW i \in Nat \ {0}, NEW a \in Nat
    PROVE  a \in First(i)..(First(i) + 3) <=> Net(a) = i
<1>1. PICK j \in Nat : i = j + 1
  <2>1. i - 1 \in Nat /\ i = (i - 1) + 1
    OBVIOUS
  <2> QED
    BY <2>1
<1>2. PICK q \in Nat, r \in 0..3 : a = 4 * q + r
  <2>1. a \div 4 \in Nat /\ a % 4 \in 0..3 /\ a = 4 * (a \div 4) + (a % 4)
    OBVIOUS
  <2> QED
    BY <2>1
<1>3. a \div 4 = q
  BY <1>2
<1>4. First(i) = 4 * j
  BY <1>1 DEF First
<1>5. 4 * j <= 4 * q + r /\ 4 * q + r <= 4 * j + 3 <=> q = j
  OBVIOUS
<1>6. Net(a) = q + 1
  BY <1>3 DEF Net
<1>7. First(i) \in Int /\ First(i) + 3 \in Int
  BY <1>4
<1> QED
  BY <1>1, <1>2, <1>4, <1>5, <1>6, <1>7

(* The route to a network of h fits the addresses of that network. *)
LEMMA ConnectedFits ==
    ASSUME Linked, NEW h, NEW a \in Nat, NEW r \in Connected(h)
    PROVE  /\ r.at = h /\ r.size = 4 /\ r.link \in LinksOf(h)
           /\ a \in r.net..(r.net + r.size - 1) <=> Net(a) = r.link
<1>1. PICK i \in LinksOf(h) : r = Route(h, First(i), 4, i)
  BY DEF Connected
<1>2. r.at = h /\ r.net = First(i) /\ r.size = 4 /\ r.link = i
  BY <1>1 DEF Route
<1>3. i \in LinkIds /\ i \in Nat \ {0}
  BY LinkBasics DEF LinksOf
<1>4. First(i) \in Nat
  BY <1>3, AddrNet
<1>5. First(i) + 4 - 1 = First(i) + 3
  BY <1>4
<1> QED
  BY <1>2, <1>3, <1>5, NetRange

(* A lookup depends on the routes of the host only. *)
LEMMA LookupOwn ==
    ASSUME NEW table, NEW own, NEW h, NEW a,
           \A r \in own : r \in table,
           \A r \in table : r.at = h => r \in own
    PROVE  Lookup(table, h, a) = Lookup(own, h, a)
<1>1. {r \in table : r.at = h /\ a \in r.net..(r.net + r.size - 1)}
        = {r \in own : r.at = h /\ a \in r.net..(r.net + r.size - 1)}
  OBVIOUS
<1> QED
  BY <1>1 DEF Lookup

(* shortest_path: a host sends a packet for an address of another one to the  *)
(* first hop that it has found to that host.                                  *)
LEMMA PlainLookup ==
    ASSUME RoutesInv, Built, NEW h \in Hosts, NEW d \in Reached(h, all_pairs),
           NEW a \in AddrsOf(d)
    PROVE  Lookup(Connected(h) \cup Plain(h), h, a) = {LinkTo(h, via[h][d])}
<1> DEFINE l == LinkTo(h, via[h][d])
           table == Connected(h) \cup Plain(h)
           match == {r \in table : r.at = h /\ a \in r.net..(r.net + r.size - 1)}
<1>1. l \in LinksOf(h) /\ l \in LinkIds
  BY FirstHopCloser, LinkToLinks DEF RoutesInv
<1>2. a \in Nat /\ Linked
  BY AddrsNet DEF RoutesInv
<1>3. \A r \in Connected(h) : r.at = h /\ r.size = 4 /\ (r \in match <=> Net(a) = r.link)
  BY <1>2, ConnectedFits
<1>4. ASSUME NEW r \in Plain(h), r \in match PROVE r.size = 1 /\ r.link = l /\ Net(a) # l
  <2>1. PICK k \in LinksOf(h) : \E x \in Routed(h, k) : r = Route(h, x, 1, k)
    BY DEF Plain
  <2>9. PICK x \in Routed(h, k) : r = Route(h, x, 1, k)
    BY <2>1
  <2>2. r.net = x /\ r.size = 1 /\ r.link = k
    BY <2>9 DEF Route
  <2>3. x \in Nat
    <3>1. \E y : x \in AddrsOf(y)
      BY DEF Routed
    <3> QED
      BY <1>2, <3>1, AddrsNet
  <2>4. a = x
    BY <1>2, <1>4, <2>2, <2>3
  <2> QED
    BY <2>9, <2>2, <2>4, RoutedThrough
<1>5. Net(a) # l => \E r \in match : r.size = 1 /\ r.link = l
  <2> SUFFICES ASSUME Net(a) # l PROVE \E r \in match : r.size = 1 /\ r.link = l
    OBVIOUS
  <2> DEFINE r == Route(h, a, 1, l)
  <2>1. a \in Routed(h, l)
    BY RoutedThrough
  <2>2. r \in Plain(h)
    BY <1>1, <2>1 DEF Plain
  <2>3. r.at = h /\ r.net = a /\ r.size = 1 /\ r.link = l
    BY DEF Route
  <2>4. a \in a..(a + 1 - 1)
    BY <1>2
  <2>5. r \in match
    BY <2>2, <2>3, <2>4
  <2> QED
    BY <2>3, <2>5
<1>6. Net(a) = l => \E r \in match : r.link = l
  <2> SUFFICES ASSUME Net(a) = l PROVE \E r \in match : r.link = l
    OBVIOUS
  <2> DEFINE r == Route(h, First(l), 4, l)
  <2>1. r \in Connected(h) /\ r.link = l
    BY <1>1 DEF Connected, Route
  <2>2. r \in match
    BY <1>3, <2>1
  <2> QED
    BY <2>1, <2>2
<1>7. \A r \in match : r \in Connected(h) \/ r \in Plain(h)
  OBVIOUS
<1> HIDE DEF match, l
<1>8. \A r \in match : r.size \in Nat
  BY <1>3, <1>4, <1>7
<1>9. \E r \in match : r.link = l
  BY <1>5, <1>6
<1>10. ASSUME NEW r \in match, r.link # l PROVE \E s \in match : s.link = l /\ s.size < r.size
  <2>1. r \in Connected(h) /\ r.size = 4 /\ Net(a) # l
    BY <1>3, <1>4, <1>7, <1>10
  <2>2. PICK s \in match : s.size = 1 /\ s.link = l
    BY <1>5, <2>1
  <2> QED
    BY <2>1, <2>2
<1>11. {r.link : r \in {x \in match : \A y \in match : x.size <= y.size}} = {l}
  BY <1>8, <1>9, <1>10, LongestPrefix
<1> QED
  BY <1>11 DEF Lookup, match, l

(* Multiples leave no rest. *)
LEMMA SmallMultiple ==
    ASSUME NEW n \in Nat \ {0}
    PROVE  n % n = 0 /\ (2 * n) % n = 0
<1>1. ASSUME NEW m \in {n, 2 * n} PROVE m % n = 0
  <2>1. PICK q \in Nat, r \in Nat : q = m \div n /\ r = m % n /\ r < n /\ m = n * q + r
    <3>1. m \in Nat /\ m \div n \in Nat /\ m % n \in Nat /\ m % n < n /\ m = n * (m \div n) + (m % n)
      OBVIOUS
    <3> QED
      BY <3>1
  <2>2. CASE q = 0
    BY <2>1, <2>2
  <2>3. CASE q = 1
    BY <2>1, <2>3
  <2>4. CASE q = 2
    BY <2>1, <2>4
  <2>5. CASE q > 2
    <3>1. PICK t \in Nat : q = 3 + t
      <4>1. q - 3 \in Nat /\ q = 3 + (q - 3)
        BY <2>1, <2>5
      <4> QED
        BY <4>1
    <3>2. n * q = 3 * n + n * t /\ n * t \in Nat
      BY <3>1
    <3>3. PICK u \in Nat : u = n * t
      BY <3>2
    <3> QED
      BY <2>1, <3>2, <3>3
  <2> QED
    BY <2>1, <2>2, <2>3, <2>4, <2>5
<1> QED
  BY <1>1

(* A power of two that is at least four is a multiple of four. *)
LEMMA LargeSizes ==
    ASSUME NEW n \in Sizes, n >= 4
    PROVE  \E r \in Nat \ {0} : n = 4 * r
<1>1. n \in Nat /\ \A p \in 2..n : n % p = 0 => p % 2 = 0
  BY RoutingAssumption DEF Sizes
<1>2. n \in 2..n
  BY <1>1
<1>3. n % 2 = 0
  BY <1>1, <1>2, SmallMultiple
<1>4. PICK k \in Nat : n = 2 * k
  <2>1. n \div 2 \in Nat /\ n = 2 * (n \div 2)
    BY <1>1, <1>3
  <2> QED
    BY <2>1
<1>5. k \in 2..n /\ k \in Nat \ {0}
  BY <1>1, <1>4
<1>6. k % 2 = 0
  BY <1>1, <1>4, <1>5, SmallMultiple
<1>7. PICK r \in Nat : k = 2 * r
  <2>1. k \div 2 \in Nat /\ k = 2 * (k \div 2)
    BY <1>6
  <2> QED
    BY <2>1
<1> QED
  BY <1>4, <1>7

(* An aligned block of four addresses or more holds whole networks. *)
LEMMA LargeBlocks ==
    ASSUME NEW addrs \in SUBSET Nat, NEW b \in Blocks(addrs), b.size >= 4,
           NEW i \in Nat \ {0}, NEW a \in Nat, Net(a) = i,
           a \in b.net..(b.net + b.size - 1)
    PROVE  First(i)..(First(i) + 3) \subseteq addrs
<1>1. b.net \in Nat /\ b.size \in Sizes /\ b.net % b.size = 0
      /\ b.net..(b.net + b.size - 1) \subseteq addrs
  BY DEF Blocks
<1>2. PICK r \in Nat \ {0} : b.size = 4 * r
  BY <1>1, LargeSizes
<1>3. PICK m \in Nat : b.net = 4 * m
  <2> DEFINE n == b.net
             s == b.size
  <2>1. n \in Nat /\ s \in Nat \ {0} /\ n % s = 0
    BY <1>1, <1>2
  <2> HIDE DEF n, s
  <2>2. n \div s \in Nat /\ n = s * (n \div s) + (n % s)
    BY <2>1
  <2>3. PICK q \in Nat : n = s * q
    <3>1. PICK q \in Nat, u \in Nat : q = n \div s /\ u = n % s /\ n = s * q + u
      BY <2>1, <2>2
    <3>2. u = 0 /\ s * q \in Nat
      BY <2>1, <3>1
    <3> QED
      BY <3>1, <3>2
  <2>4. r * q \in Nat /\ n = 4 * (r * q)
    BY <1>2, <2>1, <2>3 DEF s
  <2> QED
    BY <2>4 DEF n
<1>4. PICK q \in Nat, t \in 0..3 : a = 4 * q + t
  <2>1. a \div 4 \in Nat /\ a % 4 \in 0..3 /\ a = 4 * (a \div 4) + (a % 4)
    OBVIOUS
  <2> QED
    BY <2>1
<1>5. i = q + 1
  BY <1>4 DEF Net
<1>6. First(i) = 4 * q
  BY <1>5 DEF First
<1>7. 4 * m <= 4 * q + t /\ 4 * q + t <= 4 * m + 4 * r - 1
  BY <1>2, <1>3, <1>4
<1>8. \A x \in First(i)..(First(i) + 3) : x \in b.net..(b.net + b.size - 1)
  <2>1. m <= q /\ q + 1 <= m + r
    BY <1>7
  <2> QED
    BY <1>2, <1>3, <1>6, <2>1
<1> QED
  BY <1>1, <1>8

(* Filling adds none of the addresses that hosts have. *)
LEMMA FilledAddrs ==
    ASSUME Linked, NEW h, NEW l
    PROVE  /\ Filled(Routed(h, l)) \in SUBSET Nat
           /\ Routed(h, l) \subseteq Filled(Routed(h, l))
           /\ \A x \in Filled(Routed(h, l)) : x % 4 \in {1, 2} => x \in Routed(h, l)
<1> DEFINE addrs == Routed(h, l)
<1>1. \A x \in addrs : \E y : x \in AddrsOf(y)
  BY DEF Routed
<1>2. \A x \in addrs : x \in Nat /\ \E q \in Nat : First(Net(x)) = 4 * q
  <2> TAKE x \in addrs
  <2>1. PICK y : x \in AddrsOf(y)
    BY <1>1
  <2>2. x \in Nat /\ Net(x) \in LinkIds
    BY <2>1, AddrsNet DEF LinksOf
  <2>3. Net(x) - 1 \in Nat
    BY <2>2, LinkBasics
  <2> QED
    BY <2>2, <2>3 DEF First
<1> HIDE DEF addrs
<1>3. \A x \in Filled(addrs) : x \in addrs \/ \E y \in addrs : x \in {First(Net(y)), First(Net(y)) + 3}
  BY DEF Filled
<1>4. \A q \in Nat : (4 * q) % 4 = 0 /\ (4 * q + 3) % 4 = 3
  OBVIOUS
<1>5. \A x \in Filled(addrs) : x \in Nat /\ (x % 4 \in {1, 2} => x \in addrs)
  <2> TAKE x \in Filled(addrs)
  <2>1. CASE x \in addrs
    BY <1>2, <2>1
  <2>2. CASE x \notin addrs
    <3>1. PICK y \in addrs : x \in {First(Net(y)), First(Net(y)) + 3}
      BY <1>3, <2>2
    <3>2. PICK q \in Nat : First(Net(y)) = 4 * q
      BY <1>2
    <3>3. x = 4 * q \/ x = 4 * q + 3
      BY <3>1, <3>2
    <3> QED
      BY <1>4, <3>3
  <2> QED
    BY <2>1, <2>2
<1>6. addrs \subseteq Filled(addrs)
  BY DEF Filled
<1> QED
  BY <1>5, <1>6 DEF addrs

(* Every address is in a block that is in no other one. *)
LEMMA CollapsedCovers ==
    ASSUME NEW addrs \in SUBSET Nat, NEW a \in addrs, MaxLinks # 0
    PROVE  \E b \in Collapsed(addrs) : a \in b.net..(b.net + b.size - 1)
<1> DEFINE Has(b) == a \in b.net..(b.net + b.size - 1)
           top == 4 * MaxLinks
           S == {top - b.size : b \in {c \in Blocks(addrs) : Has(c)}}
<1>1. top \in Nat /\ top >= 1 /\ Sizes \subseteq 1..top
  BY RoutingAssumption DEF Sizes
<1>2. \A b \in Blocks(addrs) :
        b \in [net : addrs, size : Sizes] /\ b.net \in Nat /\ b.size \in 1..top
  BY <1>1 DEF Blocks
<1> HIDE DEF top
<1>3. [net |-> a, size |-> 1] \in Blocks(addrs) /\ Has([net |-> a, size |-> 1])
  <2>1. 1 \in Sizes
    BY <1>1 DEF Sizes, top
  <2>2. a % 1 = 0 /\ a..(a + 1 - 1) = {a}
    OBVIOUS
  <2> QED
    BY <2>1, <2>2 DEF Blocks
<1>4. S \in SUBSET Nat /\ S # {}
  <2> HIDE DEF Has
  <2>1. \A b \in Blocks(addrs) : top - b.size \in Nat
    BY <1>1, <1>2
  <2> QED
    BY <1>3, <2>1
<1>5. PICK n \in S : \A k \in S : n <= k
  BY <1>4, Least
<1>6. PICK b \in Blocks(addrs) : Has(b) /\ n = top - b.size
  BY <1>5
<1>7. \A c \in Blocks(addrs) : Has(c) => c.size <= b.size
  <2> SUFFICES ASSUME NEW c \in Blocks(addrs), Has(c) PROVE c.size <= b.size
    OBVIOUS
  <2>1. n <= top - c.size
    BY <1>5
  <2> QED
    BY <1>1, <1>2, <1>6, <2>1
<1>8. ASSUME NEW c \in Blocks(addrs), c.net <= b.net, b.net + b.size <= c.net + c.size
      PROVE  c = b
  <2>1. b.net \in Nat /\ b.size \in Nat /\ c.net \in Nat /\ c.size \in Nat
    BY <1>2
  <2>2. Has(c)
    BY <1>6, <1>8, <2>1
  <2>3. c.size <= b.size
    BY <1>7, <2>2
  <2>4. c.net = b.net /\ c.size = b.size
    BY <1>8, <2>1, <2>3
  <2> QED
    BY <1>2, <2>4
<1>9. b \in Collapsed(addrs)
  <2> HIDE DEF Has
  <2> QED
    BY <1>6, <1>8 DEF Collapsed
<1> QED
  BY <1>6, <1>9

(* shortest_path_compressed: so does it, with fewer routes. *)
LEMMA CompressedLookup ==
    ASSUME RoutesInv, Built, NEW h \in Hosts, NEW d \in Reached(h, all_pairs),
           NEW a \in AddrsOf(d)
    PROVE  Lookup(Connected(h) \cup Compressed(h), h, a) = {LinkTo(h, via[h][d])}
<1> DEFINE l == LinkTo(h, via[h][d])
           table == Connected(h) \cup Compressed(h)
           match == {r \in table : r.at = h /\ a \in r.net..(r.net + r.size - 1)}
           All(k) == Filled(Routed(h, k))
<1>1. l \in LinksOf(h) /\ l \in LinkIds
  BY FirstHopCloser, LinkToLinks DEF RoutesInv
<1>2. a \in Nat /\ a % 4 \in {1, 2} /\ Linked /\ Net(a) \in LinkIds
  BY AddrsNet DEF RoutesInv, LinksOf
<1>3. \A r \in Connected(h) : r.at = h /\ r.size = 4 /\ r.link \in LinksOf(h)
                              /\ (r \in match <=> Net(a) = r.link)
  BY <1>2, ConnectedFits
<1>4. \A k : /\ All(k) \in SUBSET Nat /\ Routed(h, k) \subseteq All(k)
             /\ \A x \in All(k) : x % 4 \in {1, 2} => x \in Routed(h, k)
  BY <1>2, FilledAddrs
<1>5. ASSUME NEW r \in Compressed(h), r \in match
      PROVE  /\ r.size \in Nat /\ r.link = l /\ Net(a) # l
             /\ Net(a) \in LinksOf(h) => r.size < 4
  <2>1. PICK k \in LinksOf(h) : \E b \in Collapsed(All(k)) : r = Route(h, b.net, b.size, k)
    BY DEF Compressed
  <2>2. PICK b \in Collapsed(All(k)) : r = Route(h, b.net, b.size, k)
    BY <2>1
  <2>3. r.net = b.net /\ r.size = b.size /\ r.link = k
    BY <2>2 DEF Route
  <2>4. b \in Blocks(All(k)) /\ b.size \in Nat /\ b.net..(b.net + b.size - 1) \subseteq All(k)
    BY RoutingAssumption DEF Collapsed, Blocks, Sizes
  <2>5. a \in b.net..(b.net + b.size - 1)
    BY <1>5, <2>3
  <2>6. a \in Routed(h, k)
    BY <1>2, <1>4, <2>4, <2>5
  <2>7. k = l /\ Net(a) # l
    BY <2>6, RoutedThrough
  <2>8. ASSUME Net(a) \in LinksOf(h), b.size >= 4 PROVE FALSE
    <3> DEFINE i == Net(a)
               own == Addr(i, h)
    <3>1. i \in LinkIds /\ i \in Nat \ {0}
      BY <1>2, LinkBasics
    <3>2. First(i)..(First(i) + 3) \subseteq All(k)
      BY <1>2, <1>4, <2>4, <2>5, <2>8, <3>1, LargeBlocks
    <3>3. own \in First(i)..(First(i) + 3) /\ own % 4 \in {1, 2}
      BY <1>2, <3>1, AddrNet, NetRange
    <3>4. own \in Routed(h, k)
      BY <1>4, <3>2, <3>3
    <3>5. own \in AddrsOf(h)
      BY <2>8 DEF AddrsOf
    <3> QED
      BY <3>4, <3>5, OwnNotRouted
  <2> QED
    BY <2>3, <2>4, <2>7, <2>8
<1>6. Net(a) # l => \E r \in match : r \in Compressed(h) /\ r.link = l
  <2> SUFFICES ASSUME Net(a) # l PROVE \E r \in match : r \in Compressed(h) /\ r.link = l
    OBVIOUS
  <2>1. a \in All(l)
    BY <1>4, RoutedThrough
  <2>2. MaxLinks # 0
    BY <1>1, <1>2, LinkBasics, RoutingAssumption, LenProperties DEF Linked, LinkIds
  <2>3. PICK b \in Collapsed(All(l)) : a \in b.net..(b.net + b.size - 1)
    BY <1>4, <2>1, <2>2, CollapsedCovers
  <2> DEFINE r == Route(h, b.net, b.size, l)
  <2>4. r \in Compressed(h)
    BY <1>1 DEF Compressed
  <2>5. r.at = h /\ r.net = b.net /\ r.size = b.size /\ r.link = l
    BY DEF Route
  <2>6. r \in match
    BY <2>3, <2>4, <2>5
  <2> QED
    BY <2>4, <2>5, <2>6
<1>7. Net(a) = l => \E r \in match : r.link = l
  <2> SUFFICES ASSUME Net(a) = l PROVE \E r \in match : r.link = l
    OBVIOUS
  <2> DEFINE r == Route(h, First(l), 4, l)
  <2>1. r \in Connected(h) /\ r.link = l
    BY <1>1 DEF Connected, Route
  <2>2. r \in match
    BY <1>3, <2>1
  <2> QED
    BY <2>1, <2>2
<1>8. \A r \in match : r \in Connected(h) \/ r \in Compressed(h)
  OBVIOUS
<1> HIDE DEF match, l, All
<1>9. \A r \in match : r.size \in Nat
  BY <1>3, <1>5, <1>8
<1>10. \E r \in match : r.link = l
  BY <1>6, <1>7
<1>11. ASSUME NEW r \in match, r.link # l PROVE \E s \in match : s.link = l /\ s.size < r.size
  <2>1. r \in Connected(h) /\ r.size = 4 /\ Net(a) # l /\ Net(a) \in LinksOf(h)
    BY <1>3, <1>5, <1>8, <1>11
  <2>2. PICK s \in match : s \in Compressed(h) /\ s.link = l
    BY <1>6, <2>1
  <2> QED
    BY <1>5, <2>1, <2>2
<1>12. {r.link : r \in {x \in match : \A y \in match : x.size <= y.size}} = {l}
  BY <1>9, <1>10, <1>11, LongestPrefix
<1> QED
  BY <1>12 DEF Lookup, match, l

(* static_routes_compressed sends every packet the way static_routes would,   *)
(* though it has fewer routes and some fit addresses of several hosts.        *)
THEOREM Collapsing == RoutesSpec => []CompressedSame
<1>1. RoutesInv => CompressedSame
  <2> SUFFICES ASSUME RoutesInv, Built, NEW h \in Hosts,
                      NEW d \in DOMAIN via[h], NEW a \in AddrsOf(d)
               PROVE  Lookup(Connected(h) \cup Compressed(h), h, a)
                        = Lookup(Connected(h) \cup Plain(h), h, a)
    BY DEF CompressedSame
  <2>1. d \in Reached(h, all_pairs)
    BY DEF RoutesInv, Found
  <2> QED
    BY <2>1, PlainLookup, CompressedLookup
<1> QED
  BY <1>1, RoutesInductive, PTL

(* Every route of the table goes through a link of its host. *)
Owned(table) == \A r \in table : r.at \in Hosts /\ r.link \in LinksOf(r.at)

(* Every host that reaches d sends packets for a to its first hop to d. *)
Follows(table, a, d) ==
    \A y \in Hosts : d \in Reached(y, all_pairs) =>
        \E l \in LinksOf(y) : Lookup(table, y, a) = {l} /\ Peer(l, y) = via[y][d]

(* So a host sends packets over its own links only. *)
LEMMA OwnedLookup ==
    ASSUME NEW table, Owned(table), NEW y, NEW a
    PROVE  Lookup(table, y, a) \subseteq LinksOf(y)
  BY DEF Owned, Lookup

(* At the other end of a link is a host that the graph joins with y. *)
LEMMA PeerHost ==
    ASSUME Linked, NEW y, NEW i \in LinksOf(y)
    PROVE  Peer(i, y) \in Hosts /\ {y, Peer(i, y)} \in Edges
<1>1. i \in LinkIds /\ y \in EndHosts(i)
  BY DEF LinksOf
<1>2. \E g \in EndHosts(i) : g # y
  <2>1. EndHosts(i) = {links[i][1], links[i][2]} /\ links[i][1] # links[i][2]
    BY <1>1, LinkBasics
  <2> QED
    BY <2>1
<1>3. Peer(i, y) \in EndHosts(i) /\ Peer(i, y) # y
  BY <1>2 DEF Peer
<1>4. EndHosts(i) = {y, Peer(i, y)}
  BY <1>1, <1>3, LinkBasics
<1> QED
  BY <1>1, <1>3, <1>4, LinkBasics

(* Weights are numbers, whatever the tables say. *)
LEMMA OnwardsType ==
    ASSUME Linked, NEW table, Owned(table), NEW a, NEW rest \in [Hosts -> Nat]
    PROVE  Onwards(table, a, rest) \in [Hosts -> Nat]
<1> DEFINE out(y) == Lookup(table, y, a)
           next(y) == Peer(CHOOSE i \in out(y) : TRUE, y)
           cost(y) == IF a \in AddrsOf(y) THEN 0
                      ELSE IF Cardinality(out(y)) # 1 THEN Infinity
                      ELSE Weight(y, next(y)) + rest[next(y)]
<1>1. ASSUME NEW y \in Hosts PROVE cost(y) \in Nat
  <2>1. CASE Cardinality(out(y)) # 1
    BY <2>1, InfinityPositive
  <2>2. CASE Cardinality(out(y)) = 1
    <3>1. out(y) # {}
      <4>1. ASSUME out(y) = {} PROVE FALSE
        <5>1. Cardinality({}) = 0
          BY FS_EmptySet
        <5>2. Cardinality(out(y)) = 0
          BY <4>1, <5>1
        <5> QED
          BY <2>2, <5>2
      <4> QED
        BY <4>1
    <3>2. (CHOOSE i \in out(y) : TRUE) \in LinksOf(y)
      BY <3>1, OwnedLookup
    <3>3. next(y) \in Hosts /\ {y, next(y)} \in Edges
      BY <3>2, PeerHost
    <3>4. Weight(y, next(y)) \in Nat /\ rest[next(y)] \in Nat
      BY <3>3, WeightPositive
    <3> HIDE DEF next
    <3> QED
      BY <2>2, <3>4
  <2> QED
    BY <2>1, <2>2
<1>2. Onwards(table, a, rest) = [y \in Hosts |-> cost(y)]
  BY DEF Onwards
<1> HIDE DEF cost
<1> QED
  BY <1>1, <1>2

(* What a host adds to the weight from its first hop. *)
LEMMA OnwardsValue ==
    ASSUME RoutesInv, Built, NEW y \in Hosts, NEW d \in Reached(y, all_pairs),
           NEW table, NEW a \in AddrsOf(d), Follows(table, a, d), NEW rest
    PROVE  Onwards(table, a, rest)[y] = Weight(y, via[y][d]) + rest[via[y][d]]
<1> DEFINE g == via[y][d]
<1>1. d # y
  BY FirstHopCloser
<1>2. a \notin AddrsOf(y)
  BY <1>1, AddrOwner DEF RoutesInv
<1>3. PICK l \in LinksOf(y) : Lookup(table, y, a) = {l} /\ Peer(l, y) = g
  BY DEF Follows
<1>4. Cardinality({l}) = 1
  BY FS_Singleton
<1>5. (CHOOSE i \in {l} : TRUE) = l
  OBVIOUS
<1> HIDE DEF g
<1>6. Onwards(table, a, rest)[y] = Weight(y, g) + rest[g]
  BY <1>2, <1>3, <1>4, <1>5 DEF Onwards
<1> QED
  BY <1>6 DEF g

(* Hosts that are nearer to d. *)
Nearer(y, d) == {x \in Hosts : all_pairs[x][d] < all_pairs[y][d]}

(* No host has more nearer hosts than there are hosts. *)
LEMMA NearerFinite ==
    ASSUME NEW y, NEW d
    PROVE  IsFiniteSet(Nearer(y, d)) /\ Cardinality(Nearer(y, d)) \in Nat
           /\ Cardinality(Nearer(y, d)) <= Cardinality(Hosts)
<1>1. Nearer(y, d) \subseteq Hosts
  BY DEF Nearer
<1> QED
  BY <1>1, RoutingAssumption, FS_Subset, FS_CardinalityType

(* From the first hop fewer hosts are nearer. *)
LEMMA FewerNearer ==
    ASSUME RoutesInv, Built, Weighed, NEW y \in Hosts, NEW d \in Reached(y, all_pairs)
    PROVE  Cardinality(Nearer(via[y][d], d)) <= Cardinality(Nearer(y, d)) - 1
<1> DEFINE g == via[y][d]
<1>1. g \in Hosts /\ d \in Hosts /\ all_pairs[g][d] < all_pairs[y][d]
  BY FirstHopCloser
<1> HIDE DEF g
<1>2. \A x \in Hosts : all_pairs[x][d] \in Nat
  BY <1>1, InfinityPositive DEF RoutesInv, Found
<1>3. g \in Nearer(y, d)
  BY <1>1 DEF Nearer
<1>4. Nearer(g, d) \subseteq Nearer(y, d) \ {g}
  BY <1>1, <1>2 DEF Nearer
<1>5. Cardinality(Nearer(y, d) \ {g}) = Cardinality(Nearer(y, d)) - 1
      /\ IsFiniteSet(Nearer(y, d) \ {g})
  BY <1>3, NearerFinite, FS_RemoveElement
<1>6. Cardinality(Nearer(g, d)) <= Cardinality(Nearer(y, d) \ {g})
  BY <1>4, <1>5, FS_Subset
<1> QED
  BY <1>5, <1>6 DEF g

(* By induction on the number of nearer hosts: a packet passes the weight of  *)
(* the shortest path, and needs no more hops than there are hosts.        *)
LEMMA TravelTime ==
    ASSUME RoutesInv, Built, Weighed, NEW h \in Hosts, NEW d \in Reached(h, all_pairs),
           NEW table, Owned(table), NEW a \in AddrsOf(d), Follows(table, a, d)
    PROVE  Travel(table, h, a) = all_pairs[h][d]
<1> DEFINE S == [Hosts -> Nat]
           x0 == [y \in Hosts |-> IF a \in AddrsOf(y) THEN 0 ELSE Infinity]
           F == [f \in S |-> Onwards(table, a, f)]
           hops == Cardinality(Hosts)
<1>1. hops \in Nat
  BY RoutingAssumption, FS_CardinalityType
<1>2. x0 \in S
  BY InfinityPositive
<1>3. F \in [S -> S]
  BY OnwardsType DEF RoutesInv
<1> HIDE DEF hops
<1>4. PICK D : Iterates(D, hops, S, x0, F)
  <2> HIDE DEF S, x0, F
  <2> QED
    BY <1>1, <1>2, <1>3, Recursion
<1>5. D = [k \in 0..hops |-> IF k = 0 THEN x0 ELSE Onwards(table, a, D[k - 1])]
  <2> HIDE DEF x0, S
  <2>1. \A k \in 0..hops : k # 0 => D[k - 1] \in S
    BY <1>1, <1>4 DEF Iterates
  <2>2. \A k \in 0..hops : k # 0 => F[D[k - 1]] = Onwards(table, a, D[k - 1])
    BY <2>1
  <2> HIDE DEF F
  <2> QED
    BY <1>4, <2>2 DEF Iterates
<1> DEFINE T[k \in 0..hops] == IF k = 0 THEN x0 ELSE Onwards(table, a, T[k - 1])
<1>6. T = [k \in 0..hops |-> IF k = 0 THEN x0 ELSE Onwards(table, a, T[k - 1])]
  BY <1>5
<1>7. Travel(table, h, a) = T[hops][h]
  BY DEF Travel, hops
<1>8. \A k \in 0..hops : T[k] = IF k = 0 THEN x0 ELSE Onwards(table, a, T[k - 1])
  <2> HIDE DEF T, x0
  <2> QED
    BY <1>6
<1> HIDE DEF T
<1> DEFINE Far(k) == \E y \in Hosts :
               /\ y = d \/ d \in Reached(y, all_pairs)
               /\ Cardinality(Nearer(y, d)) <= k
               /\ T[k][y] # all_pairs[y][d]
           Bad == {k \in 0..hops : Far(k)}
<1>9. d \in Hosts /\ all_pairs[d][d] = 0
  BY FirstHopCloser DEF RoutesInv, Found
<1>10. ASSUME NEW k \in 0..hops PROVE T[k][d] = 0
  <2>1. x0[d] = 0
    BY <1>9
  <2>2. \A rest : Onwards(table, a, rest)[d] = 0
    BY <1>9 DEF Onwards
  <2> QED
    BY <1>8, <2>1, <2>2
<1>11. \A y \in Hosts : d \in Reached(y, all_pairs) => Cardinality(Nearer(y, d)) >= 1
  <2> TAKE y \in Hosts
  <2> SUFFICES ASSUME d \in Reached(y, all_pairs) PROVE Cardinality(Nearer(y, d)) >= 1
    OBVIOUS
  <2>1. Cardinality(Nearer(via[y][d], d)) <= Cardinality(Nearer(y, d)) - 1
    BY FewerNearer
  <2>2. Cardinality(Nearer(via[y][d], d)) \in Nat /\ Cardinality(Nearer(y, d)) \in Nat
    BY NearerFinite
  <2> QED
    BY <2>1, <2>2
<1>12. Bad = {}
  <2> SUFFICES ASSUME Bad # {} PROVE FALSE
    OBVIOUS
  <2>1. Bad \in SUBSET Nat
    BY <1>1
  <2>2. PICK k \in Bad : \A j \in Bad : k <= j
    <3> HIDE DEF Bad
    <3> QED
      BY <2>1, Least
  <2>3. PICK y \in Hosts :
               /\ y = d \/ d \in Reached(y, all_pairs)
               /\ Cardinality(Nearer(y, d)) <= k
               /\ T[k][y] # all_pairs[y][d]
    BY <2>2
  <2>4. k \in 0..hops /\ k \in Nat
    BY <1>1, <2>2
  <2>5. y # d /\ d \in Reached(y, all_pairs)
    BY <1>9, <1>10, <2>3, <2>4
  <2>6. k # 0
    BY <1>11, <2>3, <2>5, NearerFinite
  <2> DEFINE g == via[y][d]
  <2>7. g \in Hosts /\ (g = d \/ d \in Reached(g, all_pairs))
        /\ Weight(y, g) + all_pairs[g][d] = all_pairs[y][d]
    BY <2>5, FirstHopCloser
  <2>8. Cardinality(Nearer(g, d)) <= k - 1
    <3>1. Cardinality(Nearer(g, d)) <= Cardinality(Nearer(y, d)) - 1
      BY <2>5, FewerNearer
    <3>2. Cardinality(Nearer(g, d)) \in Nat /\ Cardinality(Nearer(y, d)) \in Nat
      BY NearerFinite
    <3> QED
      BY <2>3, <2>4, <3>1, <3>2
  <2>9. k - 1 \in 0..hops /\ ~ (k <= k - 1)
    BY <1>1, <2>4, <2>6
  <2>10. k - 1 \notin Bad
    <3> HIDE DEF Bad
    <3> QED
      BY <2>2, <2>9
  <2>11. T[k - 1][g] = all_pairs[g][d]
    BY <2>7, <2>8, <2>9, <2>10
  <2>12. T[k][y] = Weight(y, g) + T[k - 1][g]
    <3>1. T[k] = Onwards(table, a, T[k - 1])
      BY <1>8, <2>4, <2>6
    <3> QED
      BY <2>5, <3>1, OnwardsValue
  <2> HIDE DEF g
  <2> QED
    BY <2>3, <2>7, <2>11, <2>12
<1>13. hops \in 0..hops /\ Cardinality(Nearer(h, d)) <= hops
  BY <1>1, NearerFinite DEF hops
<1>14. T[hops][h] = all_pairs[h][d]
  BY <1>12, <1>13
<1> QED
  BY <1>7, <1>14

(* The routes of all hosts with shortest_path. *)
PlainTable == UNION {Connected(h) \cup Plain(h) : h \in Hosts}

(* What a host does with a packet depends on its own routes. *)
LEMMA PlainTableLookup ==
    ASSUME NEW y \in Hosts, NEW a
    PROVE  Lookup(PlainTable, y, a) = Lookup(Connected(y) \cup Plain(y), y, a)
<1>1. \A h : \A r \in Connected(h) \cup Plain(h) : r.at = h
  BY DEF Connected, Plain, Route
<1>2. \A r \in Connected(y) \cup Plain(y) : r \in PlainTable
  BY DEF PlainTable
<1>3. ASSUME NEW r \in PlainTable, r.at = y PROVE r \in Connected(y) \cup Plain(y)
  <2>1. PICK h \in Hosts : r \in Connected(h) \cup Plain(h)
    BY DEF PlainTable
  <2> QED
    BY <1>1, <1>3, <2>1
<1> QED
  BY <1>2, <1>3, LookupOwn

(* The routes of static_routes do, by PlainLookup. *)
LEMMA PlainFollows ==
    ASSUME RoutesInv, Built, NEW d, NEW a \in AddrsOf(d)
    PROVE  Follows(PlainTable, a, d)
<1> SUFFICES ASSUME NEW y \in Hosts, d \in Reached(y, all_pairs)
             PROVE  \E l \in LinksOf(y) :
                        Lookup(PlainTable, y, a) = {l} /\ Peer(l, y) = via[y][d]
  BY DEF Follows
<1> DEFINE l == LinkTo(y, via[y][d])
<1>1. l \in LinksOf(y) /\ Peer(l, y) = via[y][d]
  <2>1. {y, via[y][d]} \in Edges
    BY FirstHopCloser
  <2> QED
    BY <2>1, LinkToLinks DEF RoutesInv
<1>2. Lookup(PlainTable, y, a) = {l}
  BY PlainTableLookup, PlainLookup
<1> QED
  BY <1>1, <1>2

(* static_routes: a packet for any address of any host that h is connected    *)
(* with arrives over edges that weigh no more than any other way, by the      *)
(* routes of all the hosts on the way, which chose among shortest paths each  *)
(* for itself; unless an edge has a delay of 0.  Weights are the numbers of   *)
(* the delays, without their units.                                           *)
THEOREM Arriving == RoutesSpec => []Delivered
<1>1. RoutesInv => Delivered
  <2> SUFFICES ASSUME RoutesInv, Built, Weighed, NEW h \in Hosts,
                      NEW d \in Reached(h, all_pairs), NEW a \in AddrsOf(d)
               PROVE  Travel(PlainTable, h, a) = all_pairs[h][d]
    BY DEF Delivered, PlainTable
  <2>1. Owned(PlainTable)
    BY DEF Owned, PlainTable, Connected, Plain, Route
  <2>2. Follows(PlainTable, a, d)
    BY PlainFollows
  <2> QED
    BY <2>1, <2>2, TravelTime
<1> QED
  BY <1>1, RoutesInductive, PTL

(* Topo, all_pairs and the routes have the types that Routing gives them. *)
THEOREM RoutesTyped == RoutesSpec => []RoutesTypeOK
<1>1. RoutesInv => RoutesTypeOK
  <2> SUFFICES ASSUME RoutesInv PROVE RoutesTypeOK
    OBVIOUS
  <2>1. ASSUME NEW h \in DOMAIN via, NEW d \in DOMAIN via[h]
        PROVE  d # h /\ {h, via[h][d]} \in Edges
    <3>1. Built /\ h \in Hosts
      BY DEF RoutesInv, Found, Built
    <3>2. d \in Reached(h, all_pairs)
      BY <3>1 DEF RoutesInv, Found
    <3> QED
      BY <3>1, <3>2, FirstHopCloser
  <2> QED
    BY <2>1 DEF RoutesTypeOK, RoutesInv, Linked, Found
<1> QED
  BY <1>1, RoutesInductive, PTL

(* One more step of a search for the hosts beyond a link of h. *)
Widened(h, found) == found \cup (Neighbors(found) \ {h})

(* D[k] are the hosts that visit_neighbors finds within k steps. *)
Searches(D, h, l) ==
    /\ D \in [0..Cardinality(Hosts) -> SUBSET (Hosts \ {h})]
    /\ D[0] = {Peer(l, h)}
    /\ \A k \in 0..Cardinality(Hosts) : k # 0 => D[k] = Widened(h, D[k - 1])
    /\ Beyond(h, l) = LinksAt(D[Cardinality(Hosts)]) \ {l}

(* The recursion in Beyond has a function. *)
LEMMA SearchExists ==
    ASSUME Linked, NEW h \in Hosts, NEW l \in LinksOf(h)
    PROVE  \E D : Searches(D, h, l)
<1> DEFINE S == SUBSET (Hosts \ {h})
           x0 == {Peer(l, h)}
           F == [f \in S |-> Widened(h, f)]
           steps == Cardinality(Hosts)
<1>1. steps \in Nat
  BY RoutingAssumption, FS_CardinalityType
<1>2. x0 \in S
  <2>1. Peer(l, h) \in Hosts /\ {h, Peer(l, h)} \in Edges
    BY PeerHost
  <2>2. Peer(l, h) # h
    BY <2>1, WeightPositive
  <2> QED
    BY <2>1, <2>2
<1>3. \A f \in S : Widened(h, f) \in S
  <2> TAKE f \in S
  <2>1. \A i \in LinkIds : EndHosts(i) \subseteq Hosts
    BY LinkBasics
  <2>2. \A x : \A i \in LinksOf(x) : EndHosts(i) \subseteq Hosts
    BY <2>1 DEF LinksOf
  <2>3. Neighbors(f) \subseteq Hosts
    BY <2>2 DEF Neighbors, LinksAt
  <2> QED
    BY <2>3 DEF Widened
<1>4. F \in [S -> S]
  BY <1>3
<1> HIDE DEF steps
<1>5. PICK D : Iterates(D, steps, S, x0, F)
  <2> HIDE DEF S, x0, F
  <2> QED
    BY <1>1, <1>2, <1>4, Recursion
<1>6. \A k \in 0..steps : k # 0 => k - 1 \in 0..steps
  BY <1>1
<1>7. D \in [0..steps -> S] /\ \A k \in 0..steps : D[k] = IF k = 0 THEN x0 ELSE Widened(h, D[k - 1])
  <2> HIDE DEF x0, S
  <2>1. \A k \in 0..steps : k # 0 => D[k - 1] \in S
    BY <1>5, <1>6 DEF Iterates
  <2>2. \A k \in 0..steps : k # 0 => F[D[k - 1]] = Widened(h, D[k - 1])
    BY <2>1
  <2> HIDE DEF F
  <2> QED
    BY <1>5, <2>2 DEF Iterates
<1> DEFINE R[k \in 0..steps] ==
               IF k = 0 THEN {Peer(l, h)}
               ELSE R[k - 1] \cup (Neighbors(R[k - 1]) \ {h})
<1>8. D = [k \in 0..steps |->
              IF k = 0 THEN {Peer(l, h)} ELSE D[k - 1] \cup (Neighbors(D[k - 1]) \ {h})]
  BY <1>7 DEF Widened
<1>9. R = [k \in 0..steps |->
              IF k = 0 THEN {Peer(l, h)} ELSE R[k - 1] \cup (Neighbors(R[k - 1]) \ {h})]
  BY <1>8
<1>10. Beyond(h, l) = LinksAt(R[steps]) \ {l}
  BY DEF Beyond, steps
<1> HIDE DEF R
<1>11. \A k \in 0..steps :
          R[k] = IF k = 0 THEN {Peer(l, h)} ELSE R[k - 1] \cup (Neighbors(R[k - 1]) \ {h})
  BY <1>9
<1>12. \A k \in 0..steps : R[k] \in S
  <2> DEFINE Bad == {k \in 0..steps : R[k] \notin S}
  <2> SUFFICES ASSUME Bad # {} PROVE FALSE
    OBVIOUS
  <2>1. Bad \in SUBSET Nat
    BY <1>1
  <2>2. PICK k \in Bad : \A j \in Bad : k <= j
    <3> HIDE DEF Bad
    <3> QED
      BY <2>1, Least
  <2>3. k # 0
    BY <1>2, <1>11, <2>2
  <2>4. k - 1 \in 0..steps /\ ~ (k <= k - 1)
    BY <1>1, <2>2, <2>3
  <2>5. R[k - 1] \in S
    BY <2>2, <2>4
  <2>6. R[k] = Widened(h, R[k - 1])
    BY <1>11, <2>2, <2>3 DEF Widened
  <2> QED
    BY <1>3, <2>2, <2>5, <2>6
<1>13. R \in [0..steps -> S]
  <2> HIDE DEF S
  <2> QED
    BY <1>9, <1>12
<1>14. 0 \in 0..steps
  BY <1>1
<1>15. R[0] = {Peer(l, h)}
  BY <1>11, <1>14
<1>16. \A k \in 0..steps : k # 0 => R[k] = Widened(h, R[k - 1])
  BY <1>11 DEF Widened
<1> QED
  BY <1>10, <1>13, <1>15, <1>16 DEF Searches, steps

(* A search forgets no host that it found. *)
LEMMA SearchGrows ==
    ASSUME NEW h, NEW l, NEW D, Searches(D, h, l),
           NEW j \in 0..Cardinality(Hosts)
    PROVE  D[j] \subseteq D[Cardinality(Hosts)]
<1> DEFINE steps == Cardinality(Hosts)
           Bad == {k \in j..steps : ~ (D[j] \subseteq D[k])}
<1>1. steps \in Nat /\ j \in Nat /\ j <= steps
  BY RoutingAssumption, FS_CardinalityType
<1> HIDE DEF steps
<1>2. Bad = {}
  <2> SUFFICES ASSUME Bad # {} PROVE FALSE
    OBVIOUS
  <2>1. Bad \in SUBSET Nat
    BY <1>1
  <2>2. PICK k \in Bad : \A m \in Bad : k <= m
    <3> HIDE DEF Bad
    <3> QED
      BY <2>1, Least
  <2>3. k \in Nat /\ k \in j..steps /\ k # j
    BY <1>1, <2>2
  <2>4. k \in 0..steps /\ k # 0 /\ k - 1 \in j..steps /\ ~ (k <= k - 1)
    BY <1>1, <2>3
  <2>5. D[j] \subseteq D[k - 1]
    BY <2>2, <2>4
  <2>6. D[k - 1] \subseteq D[k]
    BY <2>4 DEF Searches, Widened, steps
  <2> QED
    BY <2>2, <2>5, <2>6
<1>3. steps \in j..steps
  BY <1>1
<1> QED
  BY <1>2, <1>3 DEF steps

(* It finds the hosts at the other ends of their links. *)
LEMMA SearchSpreads ==
    ASSUME NEW h, NEW l, NEW D, Searches(D, h, l),
           NEW k \in 0..Cardinality(Hosts), k # 0,
           NEW x \in D[k - 1], NEW i \in LinksOf(x), NEW z \in EndHosts(i), z # h
    PROVE  z \in D[k]
<1>1. z \in Neighbors(D[k - 1])
  BY DEF Neighbors, LinksAt
<1> QED
  BY <1>1 DEF Searches, Widened

(* A search from the first hop to d finds d, and a host before d on a path    *)
(* that does not pass through h, if d is not the first hop.                   *)
LEMMA PathFound ==
    ASSUME RoutesInv, Built, Weighed, NEW h \in Hosts, NEW d \in Reached(h, all_pairs),
           NEW l \in LinksOf(h), Peer(l, h) = via[h][d], NEW D, Searches(D, h, l)
    PROVE  /\ d \in D[Cardinality(Hosts)]
           /\ \/ via[h][d] = d
              \/ \E p \in D[Cardinality(Hosts)] : p # d /\ {p, d} \in Edges
<1> DEFINE steps == Cardinality(Hosts)
           Arrives(z) == d \in D[steps] /\ (z = d \/ \E p \in D[steps] : p # d /\ {p, d} \in Edges)
           Starts(z, k) ==
               /\ z = d \/ d \in Reached(z, all_pairs)
               /\ all_pairs[z][d] < all_pairs[h][d]
               /\ k \in 0..steps /\ z \in D[k]
           Far(n) == \E z \in Hosts, k \in Nat :
               /\ Starts(z, k) /\ Cardinality(Nearer(z, d)) = n /\ k + n <= steps
               /\ ~ Arrives(z)
           Bad == {n \in Nat : Far(n)}
<1>1. steps \in Nat
  BY RoutingAssumption, FS_CardinalityType
<1>2. d \in Hosts /\ \A x \in Hosts : all_pairs[x][d] \in Nat
  <2>1. d \in Hosts
    BY FirstHopCloser
  <2> QED
    BY <2>1, InfinityPositive DEF RoutesInv, Found
<1> HIDE DEF steps
<1>3. Bad = {}
  <2> SUFFICES ASSUME Bad # {} PROVE FALSE
    OBVIOUS
  <2>1. PICK n \in Bad : \A m \in Bad : n <= m
    <3>1. Bad \in SUBSET Nat
      OBVIOUS
    <3> HIDE DEF Bad
    <3> QED
      BY <3>1, Least
  <2>2. n \in Nat /\ Far(n)
    BY <2>1
  <2> HIDE DEF Arrives, Starts
  <2>3. PICK z \in Hosts, k \in Nat :
            /\ Starts(z, k) /\ Cardinality(Nearer(z, d)) = n /\ k + n <= steps
            /\ ~ Arrives(z)
    BY <2>2
  <2>4. z \in D[k] /\ k \in 0..steps /\ all_pairs[z][d] < all_pairs[h][d]
        /\ (z = d \/ d \in Reached(z, all_pairs))
    BY <2>3 DEF Starts
  <2>5. D[k] \subseteq D[steps]
    BY <2>4, SearchGrows DEF steps
  <2>6. z # d /\ d \in Reached(z, all_pairs)
    BY <2>3, <2>4, <2>5 DEF Arrives
  <2> DEFINE g == via[z][d]
  <2>7. g \in Hosts /\ {z, g} \in Edges /\ all_pairs[g][d] < all_pairs[z][d]
        /\ (g = d \/ d \in Reached(g, all_pairs))
    BY <2>6, FirstHopCloser
  <2>8. all_pairs[g][d] < all_pairs[h][d] /\ g # h
    <3> HIDE DEF g
    <3> QED
      BY <1>2, <2>4, <2>7
  <2>9. PICK m \in Nat : m = Cardinality(Nearer(g, d)) /\ m <= n - 1
    <3>1. Cardinality(Nearer(g, d)) <= Cardinality(Nearer(z, d)) - 1
      BY <2>6, FewerNearer
    <3>2. Cardinality(Nearer(g, d)) \in Nat
      BY NearerFinite
    <3> QED
      BY <2>3, <3>1, <3>2
  <2>10. k + 1 \in 0..steps /\ k + 1 # 0 /\ k + 1 \in Nat /\ k + 1 + m <= steps /\ (k + 1) - 1 = k
    BY <1>1, <2>2, <2>3, <2>9
  <2>11. g \in D[k + 1]
    <3>1. LinkTo(z, g) \in LinksOf(z) /\ Peer(LinkTo(z, g), z) = g /\ Linked
      BY <2>7, LinkToLinks DEF RoutesInv
    <3>2. g \in EndHosts(LinkTo(z, g))
      <4>1. PICK i \in LinksOf(z) : i = LinkTo(z, g)
        BY <3>1
      <4>2. i \in LinkIds /\ z \in EndHosts(i)
        BY DEF LinksOf
      <4>3. \E x \in EndHosts(i) : x # z
        <5>1. EndHosts(i) = {links[i][1], links[i][2]} /\ links[i][1] # links[i][2]
          BY <3>1, <4>2, LinkBasics
        <5> QED
          BY <5>1
      <4>4. Peer(i, z) \in EndHosts(i)
        BY <4>3 DEF Peer
      <4> QED
        BY <3>1, <4>1, <4>4
    <3>3. PICK i \in LinksOf(z) : g \in EndHosts(i)
      BY <3>1, <3>2
    <3>4. z \in D[(k + 1) - 1]
      BY <2>4, <2>10
    <3> HIDE DEF g
    <3> QED
      BY <2>8, <2>10, <3>3, <3>4, SearchSpreads DEF steps
  <2>12. Starts(g, k + 1)
    <3> HIDE DEF g
    <3> QED
      BY <2>7, <2>8, <2>10, <2>11 DEF Starts
  <2>13. m \notin Bad
    <3>1. ~ (n <= m)
      BY <2>2, <2>9
    <3> HIDE DEF Bad
    <3> QED
      BY <2>1, <3>1
  <2> HIDE DEF g
  <2>14. Arrives(g)
    <3>1. ~ Far(m)
      BY <2>13
    <3> QED
      BY <2>7, <2>9, <2>10, <2>12, <3>1
  <2>15. CASE g = d
    BY <2>3, <2>4, <2>5, <2>6, <2>7, <2>14, <2>15 DEF Arrives
  <2>16. CASE g # d
    BY <2>3, <2>14, <2>16 DEF Arrives
  <2> QED
    BY <2>15, <2>16
<1>4. Arrives(via[h][d])
  <2> DEFINE g == via[h][d]
  <2>1. g \in Hosts /\ all_pairs[g][d] < all_pairs[h][d] /\ (g = d \/ d \in Reached(g, all_pairs))
    BY FirstHopCloser
  <2>2. 0 \in 0..steps /\ g \in D[0]
    BY <1>1 DEF Searches
  <2>3. PICK n \in Nat : n = Cardinality(Nearer(g, d)) /\ 0 + n <= steps
    <3>1. Cardinality(Nearer(g, d)) \in Nat /\ Cardinality(Nearer(g, d)) <= steps
      BY NearerFinite DEF steps
    <3> QED
      BY <1>1, <3>1
  <2> HIDE DEF g
  <2>4. Starts(g, 0)
    BY <2>1, <2>2
  <2>5. ~ Far(n)
    BY <1>3
  <2> HIDE DEF Starts, Arrives
  <2>6. Arrives(g)
    BY <2>1, <2>3, <2>4, <2>5
  <2> QED
    BY <2>6 DEF g
<1> QED
  BY <1>4 DEF steps

(* The routes of all hosts with tree_subnets, and the tables with them. *)
TreeRoutes == UNION {Tree(h) : h \in Hosts}
TreeTable == TreeRoutes \cup UNION {Connected(h) : h \in Hosts}

(* Beyond are the links of the hosts that the search finds. *)
LEMMA BeyondHas ==
    ASSUME NEW h, NEW l, NEW D, Searches(D, h, l),
           NEW y \in D[Cardinality(Hosts)], NEW n \in LinksOf(y), n # l
    PROVE  n \in Beyond(h, l)
<1>1. n \in LinksAt(D[Cardinality(Hosts)])
  BY DEF LinksAt
<1> QED
  BY <1>1 DEF Searches

(* A network beyond a link that is not the host's own has a route. *)
LEMMA TreeRoute ==
    ASSUME Linked, NEW h \in Hosts, NEW l \in LinksOf(h), NEW i \in Beyond(h, l), i \notin LinksOf(h)
    PROVE  Route(h, First(i), 4, l) \in TreeRoutes
<1>1. Route(h, First(i), 4, l) \in Tree(h)
  BY DEF Tree
<1> QED
  BY <1>1 DEF TreeRoutes

(* A tree route fits the addresses of its network. *)
LEMMA TreeFits ==
    ASSUME Linked, NEW y \in Hosts, NEW a \in Nat, NEW r \in TreeRoutes, r.at = y
    PROVE  /\ r.size = 4 /\ r.link \in LinksOf(y)
           /\ a \in r.net..(r.net + r.size - 1)
                => r.net = First(Net(a)) /\ Net(a) \notin LinksOf(y)
<1>1. PICK h \in Hosts : r \in Tree(h)
  BY DEF TreeRoutes
<1>2. PICK l \in LinksOf(h) : \E i \in Beyond(h, l) \ LinksOf(h) : r = Route(h, First(i), 4, l)
  BY <1>1 DEF Tree
<1>3. PICK i \in Beyond(h, l) \ LinksOf(h) : r = Route(h, First(i), 4, l)
  BY <1>2
<1>4. r.at = h /\ r.net = First(i) /\ r.size = 4 /\ r.link = l /\ h = y
  BY <1>3 DEF Route
<1>5. PICK D : Searches(D, h, l)
  BY SearchExists
<1>6. \E x : i \in LinksOf(x)
  BY <1>3, <1>5 DEF Searches, LinksAt
<1>7. i \in LinkIds /\ i \in Nat \ {0}
  BY <1>6, LinkBasics DEF LinksOf
<1>8. First(i) \in Nat
  BY <1>7, AddrNet
<1>9. First(i) + 4 - 1 = First(i) + 3
  BY <1>8
<1>10. a \in r.net..(r.net + r.size - 1) => Net(a) = i
  BY <1>4, <1>7, <1>9, NetRange
<1> QED
  BY <1>2, <1>3, <1>4, <1>10

(* Without a refused route the tables lead where those of shortest_path do:   *)
(* a link to d beside another way to d would give a host two routes to one    *)
(* network.                                                                   *)
LEMMA TreeFollows ==
    ASSUME RoutesInv, Built, Weighed, ~ Refused(TreeRoutes), NEW d, NEW a \in AddrsOf(d)
    PROVE  Follows(TreeTable, a, d)
<1> SUFFICES ASSUME NEW y \in Hosts, d \in Reached(y, all_pairs)
             PROVE  \E l \in LinksOf(y) :
                        Lookup(TreeTable, y, a) = {l} /\ Peer(l, y) = via[y][d]
  BY DEF Follows
<1> DEFINE steps == Cardinality(Hosts)
           i == Net(a)
           own == Connected(y) \cup {r \in TreeRoutes : r.at = y}
           match == {r \in own : r.at = y /\ a \in r.net..(r.net + r.size - 1)}
<1>0. Linked
  BY DEF RoutesInv
<1>1. d # y /\ d \in Hosts /\ {y, via[y][d]} \in Edges
  BY FirstHopCloser
<1>2. PICK l \in LinksOf(y) : Peer(l, y) = via[y][d]
  BY <1>0, <1>1, LinkToLinks
<1>3. a \in Nat /\ i \in LinksOf(d) /\ i \in LinkIds /\ i \in Nat \ {0}
  BY <1>0, AddrsNet, LinkBasics DEF LinksOf
<1>4. PICK D : Searches(D, y, l)
  BY <1>0, SearchExists
<1>5. d \in D[steps] /\ (via[y][d] = d \/ \E p \in D[steps] : p # d /\ {p, d} \in Edges)
  BY <1>2, <1>4, PathFound
<1>6. D[steps] \subseteq Hosts \ {y}
  <2>1. steps \in 0..steps
    BY RoutingAssumption, FS_CardinalityType
  <2> QED
    BY <1>4, <2>1 DEF Searches
<1>7. Lookup(TreeTable, y, a) = Lookup(own, y, a)
  <2>1. \A r \in own : r \in TreeTable
    BY DEF TreeTable
  <2>2. \A h : \A r \in Connected(h) : r.at = h
    BY DEF Connected, Route
  <2>3. \A r \in TreeTable : r.at = y => r \in own
    BY <2>2 DEF TreeTable
  <2> QED
    BY <2>1, <2>3, LookupOwn
<1>8. \A r \in Connected(y) : r.at = y /\ r.size = 4 /\ (r \in match <=> i = r.link)
  BY <1>0, <1>3, ConnectedFits
<1>9. \A r \in TreeRoutes : r.at = y =>
          r.size = 4 /\ (r \in match => r.net = First(i) /\ i \notin LinksOf(y))
  BY <1>0, <1>3, TreeFits
<1>10. \A r, s \in TreeRoutes : r.at = s.at /\ r.net = s.net => r.link = s.link
  BY DEF Refused
<1>11. \A r \in match : r \in Connected(y) \/ (r \in TreeRoutes /\ r.at = y)
  OBVIOUS
<1>12. \A r \in match : r.size \in Nat
  BY <1>8, <1>9, <1>11
<1>13. ASSUME NEW k, \A r \in match : r.link = k, \E r \in match : r.link = k
       PROVE  Lookup(TreeTable, y, a) = {k}
  <2> HIDE DEF match
  <2>1. {r.link : r \in {x \in match : \A z \in match : x.size <= z.size}} = {k}
    BY <1>12, <1>13, LongestPrefix
  <2>2. Lookup(own, y, a) = {k}
    BY <2>1 DEF Lookup, match
  <2> QED
    BY <1>7, <2>2
<1>14. CASE i \notin LinksOf(y)
  <2> DEFINE r == Route(y, First(i), 4, l)
  <2>1. i \in Beyond(y, l)
    BY <1>2, <1>3, <1>4, <1>5, <1>14, BeyondHas
  <2>2. r \in TreeRoutes /\ r.at = y /\ r.net = First(i) /\ r.size = 4 /\ r.link = l
    BY <1>0, <1>14, <2>1, TreeRoute DEF Route
  <2>3. First(i) \in Nat /\ a \in First(i)..(First(i) + 4 - 1)
    <3>1. First(i) \in Nat
      BY <1>0, <1>3, AddrNet
    <3>2. First(i) + 4 - 1 = First(i) + 3
      BY <3>1
    <3> QED
      BY <1>3, <3>1, <3>2, NetRange
  <2>4. r \in match
    <3> HIDE DEF r
    <3> QED
      BY <2>2, <2>3
  <2>5. \A c \in Connected(y) : c.link \in LinksOf(y)
    BY <1>0, <1>3, ConnectedFits
  <2>6. \A s \in match : s.link = l
    <3> TAKE s \in match
    <3>1. s \in TreeRoutes /\ s.at = y
      BY <1>8, <1>11, <1>14, <2>5
    <3> HIDE DEF match, r
    <3>2. s.net = First(i)
      BY <1>9, <3>1
    <3> QED
      BY <1>10, <2>2, <3>1, <3>2
  <2>7. Lookup(TreeTable, y, a) = {l}
    <3> HIDE DEF match, r
    <3> QED
      BY <1>13, <2>2, <2>4, <2>6
  <2> QED
    BY <1>2, <2>7
<1>15. CASE i \in LinksOf(y)
  <2>1. EndHosts(i) = {y, d} /\ Peer(i, y) = d
    <3>1. EndHosts(i) = {links[i][1], links[i][2]} /\ y \in EndHosts(i) /\ d \in EndHosts(i)
      BY <1>0, <1>3, <1>15, LinkBasics DEF LinksOf
    <3>2. EndHosts(i) = {y, d}
      BY <1>1, <3>1
    <3> QED
      BY <1>1, <3>2 DEF Peer
  <2>2. via[y][d] = d
    <3> SUFFICES ASSUME via[y][d] # d PROVE FALSE
      OBVIOUS
    <3>1. PICK p \in D[steps] : p # d /\ {p, d} \in Edges
      BY <1>5
    <3>2. PICK n \in LinkIds : EndHosts(n) = {p, d}
      BY <1>0, <3>1 DEF Linked
    <3>3. n \in LinksOf(p) /\ n \in LinksOf(d) /\ p # y /\ n \notin LinksOf(y)
      BY <1>1, <1>6, <3>1, <3>2 DEF LinksOf
    <3>4. n \in Beyond(y, l)
      BY <1>2, <1>4, <3>1, <3>3, BeyondHas
    <3>5. PICK E : Searches(E, y, i)
      BY <1>0, <1>15, SearchExists
    <3>6. d \in E[0] /\ 0 \in 0..steps
      BY <2>1, <3>5, RoutingAssumption, FS_CardinalityType DEF Searches
    <3>7. d \in E[steps]
      BY <3>5, <3>6, SearchGrows
    <3>8. n \in Beyond(y, i)
      BY <1>15, <3>3, <3>5, <3>7, BeyondHas
    <3>9. Route(y, First(n), 4, l) \in TreeRoutes /\ Route(y, First(n), 4, i) \in TreeRoutes
      BY <1>0, <1>15, <3>3, <3>4, <3>8, TreeRoute
    <3>10. l = i
      BY <1>10, <3>9 DEF Route
    <3> QED
      BY <1>2, <2>1, <3>10
  <2> DEFINE r == Route(y, First(i), 4, i)
  <2>3. r \in Connected(y) /\ r.link = i
    BY <1>15 DEF Connected, Route
  <2>4. r \in match
    BY <1>8, <2>3
  <2>5. \A s \in match : s.link = i
    BY <1>8, <1>9, <1>11, <1>15
  <2>6. Lookup(TreeTable, y, a) = {i}
    <3> HIDE DEF match, r
    <3> QED
      BY <1>13, <2>3, <2>4, <2>5
  <2> QED
    BY <1>15, <2>1, <2>2, <2>6
<1> QED
  BY <1>14, <1>15

(* A part is closed, and the part of each of its hosts. *)
LEMMA PartBasics ==
    ASSUME Linked, NEW ids \in SUBSET LinkIds, NEW x \in Hosts
    PROVE  /\ x \in Part(x, ids) /\ Part(x, ids) \subseteq Hosts
           /\ Closed(Part(x, ids), ids)
           /\ \A y \in Part(x, ids) : Part(y, ids) = Part(x, ids)
<1>1. ASSUME NEW z \in Hosts
      PROVE  z \in Part(z, ids) /\ Part(z, ids) \subseteq Hosts
    BY DEF Part
<1>2. ASSUME NEW z \in Hosts PROVE Closed(Part(z, ids), ids)
  <2> SUFFICES ASSUME NEW i \in ids
               PROVE  links[i][1] \in Part(z, ids) <=> links[i][2] \in Part(z, ids)
    BY DEF Closed
  <2>1. links[i][1] \in Hosts /\ links[i][2] \in Hosts
    BY LinkBasics
  <2>2. \A S : Closed(S, ids) => (links[i][1] \in S <=> links[i][2] \in S)
    BY DEF Closed
  <2> QED
    BY <2>1, <2>2 DEF Part
<1>3. ASSUME NEW z \in Hosts, NEW S \in SUBSET Hosts, Closed(S, ids), z \in S
      PROVE  Part(z, ids) \subseteq S
  BY <1>3 DEF Part
<1>4. ASSUME NEW y \in Part(x, ids) PROVE Part(y, ids) = Part(x, ids)
  <2>1. y \in Hosts
    BY <1>1
  <2>2. Part(y, ids) \subseteq Part(x, ids)
    BY <1>1, <1>2, <1>3, <2>1
  <2> DEFINE S == Hosts \ Part(y, ids)
  <2>3. Closed(S, ids)
    <3> SUFFICES ASSUME NEW i \in ids PROVE links[i][1] \in S <=> links[i][2] \in S
      BY DEF Closed
    <3>1. links[i][1] \in Hosts /\ links[i][2] \in Hosts
      BY LinkBasics
    <3>2. links[i][1] \in Part(y, ids) <=> links[i][2] \in Part(y, ids)
      BY <1>2, <2>1 DEF Closed
    <3> QED
      BY <3>1, <3>2
  <2>4. x \in Part(y, ids)
    <3> SUFFICES ASSUME x \notin Part(y, ids) PROVE FALSE
      OBVIOUS
    <3>1. x \in S /\ S \in SUBSET Hosts
      OBVIOUS
    <3>2. Part(x, ids) \subseteq S
      <4> HIDE DEF S
      <4> QED
        BY <1>3, <2>3, <3>1
    <3> QED
      BY <1>1, <2>1, <3>2
  <2>5. Part(x, ids) \subseteq Part(y, ids)
    BY <1>1, <1>2, <1>3, <2>1, <2>4
  <2> QED
    BY <2>2, <2>5
<1> QED
  BY <1>1, <1>2, <1>4

(* The parts that some links leave the hosts in. *)
Parts(ids) == {Part(x, ids) : x \in Hosts}

(* There are finitely many parts. *)
LEMMA PartsFinite ==
    ASSUME NEW ids
    PROVE  IsFiniteSet(Parts(ids)) /\ Cardinality(Parts(ids)) \in Nat
<1>1. Parts(ids) \in SUBSET (SUBSET Hosts)
  BY DEF Parts, Part
<1>2. IsFiniteSet(SUBSET Hosts)
  BY RoutingAssumption, FS_SUBSET
<1> QED
  BY <1>1, <1>2, FS_Subset, FS_CardinalityType

(* A link joins two parts at most. *)
LEMMA LinkJoins ==
    ASSUME Linked, NEW ids \in SUBSET LinkIds, NEW i \in LinkIds
    PROVE  Cardinality(Parts(ids)) <= Cardinality(Parts(ids \cup {i})) + 1
<1> DEFINE u == links[i][1]
           v == links[i][2]
           A == Part(u, ids)
           B == Part(v, ids)
           more == ids \cup {i}
           S == Parts(ids) \ {A}
           T == Parts(more)
           f == [P \in S |-> IF P = B THEN Part(u, more) ELSE P]
<1>1. u \in Hosts /\ v \in Hosts /\ more \in SUBSET LinkIds
  BY LinkBasics
<1> HIDE DEF u, v
<1>2. Part(u, more) \in T /\ u \in Part(u, more)
  BY <1>1, PartBasics DEF Parts
<1>3. ASSUME NEW P \in S, P # B PROVE P \in T /\ u \notin P
  <2>1. PICK x \in Hosts : P = Part(x, ids)
    BY DEF Parts
  <2>2. P \subseteq Hosts /\ x \in P /\ Closed(P, ids) /\ \A y \in P : Part(y, ids) = P
    BY <2>1, PartBasics
  <2>3. u \notin P /\ v \notin P
    BY <1>3, <2>2
  <2>4. Closed(P, more)
    BY <2>2, <2>3 DEF Closed, u, v
  <2>5. Part(x, more) \subseteq P
    BY <2>2, <2>4 DEF Part
  <2>6. \A Q : Closed(Q, more) => Closed(Q, ids)
    BY DEF Closed
  <2>7. Part(x, ids) \subseteq Part(x, more)
    BY <2>6 DEF Part
  <2>8. P = Part(x, more)
    BY <2>1, <2>5, <2>7
  <2> QED
    BY <2>3, <2>8 DEF Parts
<1>4. f \in Injection(S, T)
  <2>1. f \in [S -> T]
    BY <1>2, <1>3
  <2>2. ASSUME NEW P \in S, NEW Q \in S, f[P] = f[Q] PROVE P = Q
    <3> HIDE DEF A, B, S, T, more
    <3> QED
      BY <1>2, <1>3, <2>2
  <2> HIDE DEF f, S, T
  <2> QED
    BY <2>1, <2>2 DEF Injection, IsInjective
<1>5. IsFiniteSet(T) /\ Cardinality(T) \in Nat
  BY PartsFinite
<1>6. Cardinality(S) <= Cardinality(T)
  <2> HIDE DEF f, S, T
  <2> QED
    BY <1>4, <1>5, FS_Injection
<1>7. A \in Parts(ids)
  BY <1>1 DEF Parts
<1>8. Cardinality(S) = Cardinality(Parts(ids)) - 1 /\ Cardinality(Parts(ids)) \in Nat
  BY <1>7, PartsFinite, FS_RemoveElement
<1> QED
  BY <1>5, <1>6, <1>8

(* A link between hosts of one part joins none. *)
LEMMA LinkWithin ==
    ASSUME Linked, NEW ids \in SUBSET LinkIds, NEW i \in LinkIds,
           NEW y \in Hosts, EndHosts(i) \subseteq Part(y, ids)
    PROVE  Parts(ids \cup {i}) = Parts(ids)
<1> DEFINE u == links[i][1]
           v == links[i][2]
<1>1. u \in Hosts /\ v \in Hosts /\ u \in Part(y, ids) /\ v \in Part(y, ids)
  BY LinkBasics DEF EndHosts
<1>2. u \in Part(v, ids) /\ v \in Part(u, ids)
  BY <1>1, PartBasics
<1>3. ASSUME NEW S \in SUBSET Hosts PROVE Closed(S, ids) <=> Closed(S, ids \cup {i})
  <2>1. Closed(S, ids) => (u \in S <=> v \in S)
    BY <1>2 DEF Part
  <2> QED
    BY <2>1 DEF Closed
<1>4. \A x : Part(x, ids \cup {i}) = Part(x, ids)
  BY <1>3 DEF Part
<1> QED
  BY <1>4 DEF Parts

(* Links can be counted. *)
LEMMA LinksFinite ==
    ASSUME Linked, NEW ids \in SUBSET LinkIds
    PROVE  IsFiniteSet(ids) /\ Cardinality(ids) \in Nat /\ Cardinality(LinkIds) = Len(links)
<1>1. Len(links) \in Nat
  BY LenProperties DEF Linked
<1>2. IsFiniteSet(LinkIds) /\ Cardinality(LinkIds) = Len(links)
  <2>1. IsFiniteSet(1..Len(links))
        /\ Cardinality(1..Len(links)) = IF 1 > Len(links) THEN 0 ELSE Len(links) - 1 + 1
    BY <1>1, FS_Interval
  <2> QED
    BY <1>1, <2>1 DEF LinkIds
<1> QED
  BY <1>2, FS_Subset, FS_CardinalityType

(* n links leave at least all but n of the hosts apart. *)
LEMMA LinksAndParts ==
    ASSUME Linked, NEW ids \in SUBSET LinkIds
    PROVE  Cardinality(Hosts) <= Cardinality(ids) + Cardinality(Parts(ids))
<1> DEFINE Few(n) == \E L \in SUBSET LinkIds :
               /\ Cardinality(L) = n
               /\ ~ (Cardinality(Hosts) <= n + Cardinality(Parts(L)))
           Bad == {n \in Nat : Few(n)}
<1> SUFFICES Bad = {}
  <2>1. Cardinality(ids) \in Nat
    BY LinksFinite
  <2> QED
    BY <2>1
<1> SUFFICES ASSUME Bad # {} PROVE FALSE
  OBVIOUS
<1>1. PICK n \in Bad : \A m \in Bad : n <= m
  <2>1. Bad \in SUBSET Nat
    OBVIOUS
  <2> HIDE DEF Bad
  <2> QED
    BY <2>1, Least
<1>2. n \in Nat
  BY <1>1
<1>3. PICK L \in SUBSET LinkIds :
          Cardinality(L) = n /\ ~ (Cardinality(Hosts) <= n + Cardinality(Parts(L)))
  BY <1>1
<1>4. IsFiniteSet(L) /\ Cardinality(Parts(L)) \in Nat /\ Cardinality(Hosts) \in Nat
  BY LinksFinite, PartsFinite, RoutingAssumption, FS_CardinalityType
<1>5. CASE L = {}
  <2> DEFINE f == [x \in Hosts |-> {x}]
  <2>1. ASSUME NEW x \in Hosts PROVE Part(x, L) = {x}
    <3>1. {x} \in SUBSET Hosts /\ Closed({x}, L)
      BY <1>5 DEF Closed
    <3> QED
      BY <3>1 DEF Part
  <2>2. f \in Injection(Hosts, Parts(L))
    <3>1. f \in [Hosts -> Parts(L)]
      BY <2>1 DEF Parts
    <3>2. \A x, y \in Hosts : f[x] = f[y] => x = y
      OBVIOUS
    <3> HIDE DEF f
    <3> QED
      BY <3>1, <3>2 DEF Injection, IsInjective
  <2>3. Cardinality(Hosts) <= Cardinality(Parts(L))
    <3> HIDE DEF f
    <3> QED
      BY <2>2, PartsFinite, FS_Injection
  <2>4. n = 0
    BY <1>3, <1>5, FS_EmptySet
  <2> QED
    BY <1>3, <1>4, <2>3, <2>4
<1>6. CASE L # {}
  <2>1. PICK i \in L : TRUE
    BY <1>6
  <2> DEFINE K == L \ {i}
  <2>2. K \in SUBSET LinkIds /\ i \in LinkIds /\ K \cup {i} = L
    BY <2>1
  <2>3. Cardinality(K) = n - 1 /\ Cardinality(K) \in Nat
    BY <1>3, <1>4, <2>1, LinksFinite, FS_RemoveElement
  <2> HIDE DEF K
  <2>4. Cardinality(Parts(K)) <= Cardinality(Parts(L)) + 1
    BY <2>2, LinkJoins
  <2>5. n - 1 \notin Bad
    <3>1. ~ (n <= n - 1)
      BY <1>2
    <3> HIDE DEF Bad
    <3> QED
      BY <1>1, <3>1
  <2>6. Cardinality(Hosts) <= (n - 1) + Cardinality(Parts(K))
    BY <2>2, <2>3, <2>5
  <2>7. Cardinality(Parts(K)) \in Nat
    BY PartsFinite
  <2> QED
    BY <1>2, <1>3, <1>4, <2>4, <2>6, <2>7
<1> QED
  BY <1>5, <1>6

(* The hosts that routes have been found between are in one part. *)
LEMMA PartsReached ==
    ASSUME RoutesInv, Built
    PROVE  LET parts == {{h} \cup Reached(h, all_pairs) : h \in Hosts}
           IN  /\ Cardinality(parts) \in Nat
               /\ Cardinality(Parts(LinkIds)) <= Cardinality(parts)
<1> DEFINE Q == {{h} \cup Reached(h, all_pairs) : h \in Hosts}
           T == Parts(LinkIds)
           f == [q \in Q |-> Part(CHOOSE x \in q : TRUE, LinkIds)]
<1>1. Q \in SUBSET (SUBSET Hosts) /\ IsFiniteSet(SUBSET Hosts)
  BY RoutingAssumption, FS_SUBSET DEF Reached
<1>2. IsFiniteSet(Q) /\ Cardinality(Q) \in Nat
  BY <1>1, FS_Subset, FS_CardinalityType
<1>3. ASSUME NEW h \in Hosts PROVE f[{h} \cup Reached(h, all_pairs)] = Part(h, LinkIds)
  <2> DEFINE q == {h} \cup Reached(h, all_pairs)
  <2>1. q \subseteq Part(h, LinkIds)
    <3>1. Connects(h, all_pairs[h]) /\ h \in Part(h, LinkIds)
      BY PartBasics DEF RoutesInv, Found
    <3> QED
      BY <3>1 DEF Connects, Reached
  <2>2. (CHOOSE x \in q : TRUE) \in q
    OBVIOUS
  <2>3. Part(CHOOSE x \in q : TRUE, LinkIds) = Part(h, LinkIds)
    <3> HIDE DEF q
    <3> QED
      BY <2>1, <2>2, PartBasics DEF RoutesInv
  <2>4. q \in Q
    OBVIOUS
  <2> HIDE DEF q, Q
  <2>5. f[q] = Part(h, LinkIds)
    BY <2>3, <2>4
  <2> QED
    BY <2>5 DEF q
<1>4. f \in Surjection(Q, T)
  <2>1. \A h \in Hosts : Part(h, LinkIds) \in T
    BY DEF Parts
  <2>2. \A q \in Q : \E h \in Hosts : q = {h} \cup Reached(h, all_pairs)
    OBVIOUS
  <2>3. \A h \in Hosts : {h} \cup Reached(h, all_pairs) \in Q
    OBVIOUS
  <2>4. \A P \in T : \E h \in Hosts : P = Part(h, LinkIds)
    BY DEF Parts
  <2>5. DOMAIN f = Q /\ f = [q \in Q |-> f[q]]
    OBVIOUS
  <2> HIDE DEF f, Q, T
  <2>6. \A q \in Q : f[q] \in T
    BY <1>3, <2>1, <2>2
  <2>7. f \in [Q -> T]
    BY <2>5, <2>6
  <2>8. \A P \in T : \E q \in Q : f[q] = P
    BY <1>3, <2>3, <2>4
  <2> QED
    BY <2>7, <2>8 DEF Surjection
<1>5. Cardinality(T) <= Cardinality(Q)
  <2> HIDE DEF f, Q, T
  <2> QED
    BY <1>2, <1>4, FS_Surjection
<1> HIDE DEF Q
<1>6. Cardinality(Q) \in Nat /\ Cardinality(Parts(LinkIds)) <= Cardinality(Q)
  BY <1>2, <1>5
<1> QED
  BY <1>6 DEF Q

(* A search stays in a set that no link of its hosts leaves. *)
LEMMA SearchStays ==
    ASSUME NEW h, NEW l, NEW D, Searches(D, h, l), NEW Q, Peer(l, h) \in Q,
           \A x \in Q \ {h} : \A i \in LinksOf(x) : EndHosts(i) \subseteq Q \cup {h}
    PROVE  D[Cardinality(Hosts)] \subseteq Q
<1> DEFINE steps == Cardinality(Hosts)
           Bad == {k \in 0..steps : ~ (D[k] \subseteq Q)}
<1>1. steps \in Nat
  BY RoutingAssumption, FS_CardinalityType
<1> HIDE DEF steps
<1>2. Bad = {}
  <2> SUFFICES ASSUME Bad # {} PROVE FALSE
    OBVIOUS
  <2>1. Bad \in SUBSET Nat
    BY <1>1
  <2>2. PICK k \in Bad : \A j \in Bad : k <= j
    <3> HIDE DEF Bad
    <3> QED
      BY <2>1, Least
  <2>3. k # 0
    BY <2>2 DEF Searches
  <2>4. k \in 0..steps /\ k - 1 \in 0..steps /\ ~ (k <= k - 1)
    BY <1>1, <2>2, <2>3
  <2>5. D[k - 1] \subseteq Q
    BY <2>2, <2>4
  <2>6. D[k - 1] \subseteq Hosts \ {h} /\ D[k] = Widened(h, D[k - 1])
    BY <2>3, <2>4 DEF Searches, steps
  <2>7. Neighbors(D[k - 1]) \subseteq Q \cup {h}
    BY <2>5, <2>6 DEF Neighbors, LinksAt
  <2>8. D[k] \subseteq Q
    BY <2>5, <2>6, <2>7 DEF Widened
  <2> QED
    BY <2>2, <2>8
<1>3. steps \in 0..steps
  BY <1>1
<1> QED
  BY <1>2, <1>3 DEF steps

(* A network beyond two links of a host: one of the links closes a circle.    *)
LEMMA Circle ==
    ASSUME Linked, NEW y \in Hosts, NEW l \in LinksOf(y), NEW k \in LinksOf(y), l # k,
           NEW n \in Beyond(y, l), n \in Beyond(y, k), n \notin LinksOf(y)
    PROVE  EndHosts(l) \subseteq Part(y, LinkIds \ {l})
<1> DEFINE p == Peer(l, y)
           q == Peer(k, y)
           steps == Cardinality(Hosts)
           ids == LinkIds \ {l}
<1>1. l \in LinkIds /\ k \in LinkIds /\ k \in ids
  BY DEF LinksOf
<1>2. EndHosts(l) = {y, p} /\ EndHosts(k) = {y, q} /\ p \in Hosts /\ p # y /\ q \in Hosts /\ q # y
  <2>1. ASSUME NEW i \in LinksOf(y)
        PROVE  EndHosts(i) = {y, Peer(i, y)} /\ Peer(i, y) \in Hosts /\ Peer(i, y) # y
    <3>1. i \in LinkIds /\ y \in EndHosts(i)
      BY DEF LinksOf
    <3>2. EndHosts(i) = {links[i][1], links[i][2]} /\ links[i][1] # links[i][2]
      BY <3>1, LinkBasics
    <3>3. \E g \in EndHosts(i) : g # y
      BY <3>2
    <3>4. Peer(i, y) \in EndHosts(i) /\ Peer(i, y) # y
      BY <3>3 DEF Peer
    <3> QED
      BY <3>1, <3>2, <3>4, PeerHost
  <2> QED
    BY <2>1
<1> HIDE DEF p, q, ids
<1>3. ASSUME NEW S \in SUBSET Hosts, Closed(S, ids), y \in S, p \notin S PROVE FALSE
  <2>1. ASSUME NEW x \in Hosts, x # y, NEW i \in LinksOf(x), i # l, NEW z \in EndHosts(i)
        PROVE  z \in S <=> x \in S
    <3>1. i \in ids /\ x \in EndHosts(i) /\ i \in LinkIds
      BY <2>1 DEF LinksOf, ids
    <3>2. links[i][1] \in S <=> links[i][2] \in S
      BY <1>3, <3>1 DEF Closed
    <3>3. EndHosts(i) = {links[i][1], links[i][2]}
      BY DEF EndHosts
    <3> QED
      BY <2>1, <3>1, <3>2, <3>3
  <2>2. \A x \in Hosts : l \in LinksOf(x) => x = y \/ x = p
    BY <1>2 DEF LinksOf
  <2>3. q \in S
    <3>1. links[k][1] \in S <=> links[k][2] \in S
      BY <1>1, <1>3 DEF Closed
    <3>2. EndHosts(k) = {links[k][1], links[k][2]}
      BY DEF EndHosts
    <3> QED
      BY <1>2, <1>3, <3>1, <3>2
  <2>4. PICK D : Searches(D, y, l)
    BY SearchExists
  <2>5. PICK E : Searches(E, y, k)
    BY SearchExists
  <2>6. E[steps] \subseteq S
    <3>1. \A x \in S \ {y} : \A i \in LinksOf(x) : EndHosts(i) \subseteq S \cup {y}
      BY <1>3, <2>1, <2>2
    <3> QED
      BY <2>3, <2>5, <3>1, SearchStays DEF q
  <2> DEFINE Q == Hosts \ S
  <2>7. D[steps] \subseteq Q
    <3>1. \A i \in LinkIds : EndHosts(i) \subseteq Hosts
      BY LinkBasics
    <3>2. ASSUME NEW x \in Q \ {y}, NEW i \in LinksOf(x) PROVE EndHosts(i) \subseteq Q \cup {y}
      <4>1. EndHosts(i) \subseteq Hosts
        BY <3>1 DEF LinksOf
      <4>2. CASE i = l
        BY <1>2, <1>3, <4>2
      <4>3. CASE i # l
        BY <2>1, <4>1, <4>3
      <4> QED
        BY <4>2, <4>3
    <3>3. p \in Q
      BY <1>2, <1>3
    <3> HIDE DEF Q
    <3> QED
      BY <2>4, <3>2, <3>3, SearchStays DEF p
  <2>8. PICK x \in E[steps] : n \in LinksOf(x)
    BY <2>5 DEF Searches, LinksAt
  <2>9. PICK z \in D[steps] : n \in LinksOf(z)
    BY <2>4 DEF Searches, LinksAt
  <2>10. x \in S /\ z \notin S /\ z \in Hosts /\ x \in Hosts
    BY <2>6, <2>7, <2>8, <2>9
  <2>11. x # y /\ n # l /\ z \in EndHosts(n)
    BY <2>8, <2>9 DEF LinksOf
  <2> QED
    BY <2>1, <2>8, <2>10, <2>11
<1>4. p \in Part(y, ids) /\ y \in Part(y, ids)
  BY <1>2, <1>3 DEF Part
<1> QED
  BY <1>2, <1>4 DEF ids

(* A refused route: there are more links than in a forest. *)
LEMMA RefusedCircle ==
    ASSUME RoutesInv, Built, Refused(TreeRoutes)
    PROVE  Len(links) + Cardinality({{h} \cup Reached(h, all_pairs) : h \in Hosts})
               # Cardinality(Hosts)
<1>0. Linked
  BY DEF RoutesInv
<1>1. ASSUME NEW r \in TreeRoutes
      PROVE  /\ r.at \in Hosts /\ r.link \in LinksOf(r.at)
             /\ \E n \in Beyond(r.at, r.link) \ LinksOf(r.at) : r.net = First(n) /\ n \in Nat
  <2>1. PICK h \in Hosts : r \in Tree(h)
    BY DEF TreeRoutes
  <2>2. PICK l \in LinksOf(h) : \E n \in Beyond(h, l) \ LinksOf(h) : r = Route(h, First(n), 4, l)
    BY <2>1 DEF Tree
  <2>3. PICK n \in Beyond(h, l) \ LinksOf(h) : r = Route(h, First(n), 4, l)
    BY <2>2
  <2>4. r.at = h /\ r.net = First(n) /\ r.link = l
    BY <2>3 DEF Route
  <2>5. PICK D : Searches(D, h, l)
    BY <1>0, SearchExists
  <2>6. n \in Nat
    <3>1. \E x : n \in LinksOf(x)
      BY <2>3, <2>5 DEF Searches, LinksAt
    <3> QED
      BY <1>0, <3>1, LinkBasics DEF LinksOf
  <2> QED
    BY <2>2, <2>3, <2>4, <2>6
<1>2. PICK r \in TreeRoutes, s \in TreeRoutes : r.at = s.at /\ r.net = s.net /\ r.link # s.link
  BY DEF Refused
<1>3. PICK y \in Hosts : y = r.at
  BY <1>1
<1>4. PICK l \in LinksOf(y) : l = r.link
  BY <1>1, <1>3
<1>5. PICK k \in LinksOf(y) : k = s.link
  BY <1>1, <1>2, <1>3
<1>6. PICK n \in Beyond(y, l) \ LinksOf(y) : r.net = First(n) /\ n \in Nat
  BY <1>1, <1>3, <1>4
<1>7. PICK m \in Beyond(y, k) \ LinksOf(y) : s.net = First(m) /\ m \in Nat
  BY <1>1, <1>2, <1>3, <1>5
<1>8. n = m /\ l # k
  <2>1. 4 * (n - 1) = 4 * (m - 1)
    BY <1>2, <1>6, <1>7 DEF First
  <2> QED
    BY <1>2, <1>4, <1>5, <1>6, <1>7, <2>1
<1> DEFINE ids == LinkIds \ {l}
           parts == {{h} \cup Reached(h, all_pairs) : h \in Hosts}
<1>9. l \in LinkIds /\ ids \in SUBSET LinkIds /\ ids \cup {l} = LinkIds
  BY DEF LinksOf
<1>10. EndHosts(l) \subseteq Part(y, ids)
  BY <1>0, <1>6, <1>7, <1>8, Circle
<1>11. Cardinality(ids) = Len(links) - 1 /\ Len(links) \in Nat
  <2>1. LinkIds \in SUBSET LinkIds
    OBVIOUS
  <2>2. IsFiniteSet(LinkIds) /\ Cardinality(LinkIds) = Len(links) /\ Cardinality(LinkIds) \in Nat
    BY <1>0, <2>1, LinksFinite
  <2> QED
    BY <1>9, <2>2, FS_RemoveElement
<1> HIDE DEF ids
<1>12. Parts(LinkIds) = Parts(ids)
  BY <1>0, <1>9, <1>10, LinkWithin
<1>13. Cardinality(Hosts) <= Cardinality(ids) + Cardinality(Parts(LinkIds))
  BY <1>0, <1>9, <1>12, LinksAndParts
<1>14. Cardinality(parts) \in Nat /\ Cardinality(Parts(LinkIds)) <= Cardinality(parts)
  BY PartsReached
<1>15. Cardinality(Hosts) \in Nat /\ Cardinality(Parts(LinkIds)) \in Nat
  BY RoutingAssumption, FS_CardinalityType, PartsFinite
<1> HIDE DEF parts
<1>16. Len(links) + Cardinality(parts) # Cardinality(Hosts)
  BY <1>11, <1>13, <1>14, <1>15
<1> QED
  BY <1>16 DEF parts

(* static_routes_tree_only: when the graph has no circle the kernel takes all *)
(* routes; and whenever it does, a packet for any address of any host that h  *)
(* is connected with arrives, on a shortest path if no edge has the delay 0.  *)
THEOREM TreesArriving == RoutesSpec => []TreeDelivered
<1>1. RoutesInv => TreeDelivered
  <2> SUFFICES ASSUME RoutesInv, Built PROVE TreeDelivered
    BY DEF TreeDelivered
  <2>1. CASE Refused(TreeRoutes)
    BY <2>1, RefusedCircle DEF TreeDelivered, TreeRoutes
  <2>2. CASE ~ Refused(TreeRoutes)
    <3>1. ASSUME Weighed, NEW h \in Hosts, NEW d \in Reached(h, all_pairs), NEW a \in AddrsOf(d)
          PROVE  Travel(TreeTable, h, a) = all_pairs[h][d]
      <4>1. Owned(TreeTable)
        <5>1. \A g \in Hosts : \A r \in Connected(g) : r.at = g /\ r.link \in LinksOf(g)
          BY DEF Connected, Route
        <5>2. \A g \in Hosts : \A r \in Tree(g) : r.at = g /\ r.link \in LinksOf(g)
          BY DEF Tree, Route
        <5> QED
          BY <5>1, <5>2 DEF Owned, TreeTable, TreeRoutes
      <4>2. Follows(TreeTable, a, d)
        BY <2>2, <3>1, TreeFollows
      <4> QED
        BY <3>1, <4>1, <4>2, TravelTime
    <3> QED
      BY <2>2, <3>1 DEF TreeDelivered, TreeRoutes, TreeTable
  <2> QED
    BY <2>1, <2>2
<1> QED
  BY <1>1, RoutesInductive, PTL
================================================================================
