----------------------------- MODULE SSHPoolProofs -----------------------------
(* The safety of SSHPool for any number of threads, timers, slots and         *)
(* reconnections, and that it implements ConnectionSlots.                     *)
EXTENDS SSHPool, FiniteSetTheorems, SequenceTheorems, TLAPS

(* The wrappers that hold a permit of the semaphore, and those whose client   *)
(* is out of the deque.                                                       *)
Permits == {o \in Owners : wrap[o] \in {"taking", "live", "dying", "freed"}}
Out == {o \in Owners : wrap[o] \in {"live", "dying"}}

(* The books balance: one permit per wrapper under way, one client per slot   *)
(* that is not out.                                                           *)
Balance ==
    /\ sem + Cardinality(Permits) = PoolSize
    /\ Len(idle) + Cardinality(Out) = PoolSize

(* Where a thread is says how far its wrapper is. *)
OwnStage ==
    \A o \in Owners :
        /\ pc[o] \in {"start", "sem"} => wrap[o] = "none"
        /\ pc[o] \in {"lock", "pop"} => wrap[o] = "taking"
        /\ pc[o] \in {"unlock", "using"} => wrap[o] = "live"

(* A thread inside __del__ is the only one that handles the wrapper. *)
DelStage ==
    /\ \A o \in Owners :
        /\ pc[o] \in Releasing => del[o] \in Owners
        /\ pc[o] \in {"rlock", "rappend"} => wrap[del[o]] = "dying"
        /\ pc[o] \in {"runlock", "rsem"} => wrap[del[o]] = "freed"
        /\ pc[o] \in Releasing /\ back[o] = "start" => wrap[o] = "none"
        /\ pc[o] \in Releasing /\ back[o] = "using" => wrap[o] = "live"
        /\ pc[o] \in Releasing /\ back[o] = "ended" => del[o] = o
    /\ \A o, p \in Owners :
        pc[o] \in Releasing /\ pc[p] \in Releasing /\ del[o] = del[p] => o = p

(* Who holds the client of a wrapper, and that clients are numbered as opened. *)
ClientStage ==
    /\ \A o \in Owners : conn[o] = NoClient <=> wrap[o] \notin {"live", "dying"}
    /\ \A o \in Owners : conn[o] # NoClient => conn[o] <= opened
    /\ \A i \in 1..Len(idle) : idle[i] <= opened

(* A closure that can still run, or is not forgotten yet, keeps its wrapper. *)
ShareStage ==
    \A s \in Timers : tpc[s] \in {"armed", "running", "ended"} =>
        share[s] \in Owners /\ wrap[share[s]] = "live"

IInv == TypeOK /\ Balance /\ OwnStage /\ DelStage /\ ClientStage /\ ShareStage /\ ClientsExclusive

--------------------------------------------------------------------------------
(* Sets of threads are finite, and what moving one thread does to their size. *)
LEMMA CountAdd ==
    ASSUME NEW S \in SUBSET Owners, NEW T \in SUBSET Owners, NEW w \in Owners,
           w \notin S, T = S \cup {w}
    PROVE  Cardinality(S) \in Nat /\ Cardinality(T) = Cardinality(S) + 1
<1>1. IsFiniteSet(S)
    BY FS_Subset, SSHPoolAssumption
<1> QED
    BY <1>1, FS_AddElement, FS_CardinalityType

LEMMA CountBelow ==
    ASSUME NEW S \in SUBSET Owners, NEW T \in SUBSET S, NEW w \in S, w \notin T
    PROVE  /\ Cardinality(S) \in Nat /\ Cardinality(T) \in Nat
           /\ Cardinality(T) < Cardinality(S)
<1>1. IsFiniteSet(S)
    BY FS_Subset, SSHPoolAssumption
<1>2. IsFiniteSet(T) /\ Cardinality(T) <= Cardinality(S)
    BY <1>1, FS_Subset
<1>3. Cardinality(S) # Cardinality(T)
    BY <1>1, FS_Subset
<1> QED
    BY <1>1, <1>2, <1>3, FS_CardinalityType

LEMMA CountType ==
    ASSUME NEW S \in SUBSET Owners
    PROVE  Cardinality(S) \in Nat
BY FS_Subset, FS_CardinalityType, SSHPoolAssumption

(* The variables of the threads have their types in an invariant state. *)
LEMMA InitIInv == Init => IInv
<1> SUFFICES ASSUME Init PROVE IInv
    OBVIOUS
<1> USE SSHPoolAssumption DEF Init
<1>1. TypeOK
    BY DEF TypeOK, Client, OwnerPC, WrapState, TimerPC
<1>2. Permits = {} /\ Out = {}
    BY DEF Permits, Out
<1>3. Balance
    BY <1>2, FS_EmptySet DEF Balance
<1>4. OwnStage /\ DelStage /\ ShareStage
    BY DEF OwnStage, DelStage, ShareStage, Releasing
<1>5. ClientStage /\ ClientsExclusive
    BY DEF ClientStage, ClientsExclusive
<1> QED
    BY <1>1, <1>3, <1>4, <1>5 DEF IInv

(* One lemma per action. *)
LEMMA StepGetConnection ==
    ASSUME IInv, NEW o \in Owners, GetConnection(o)
    PROVE  IInv'
<1> USE DEF IInv, GetConnection
<1>1. TypeOK'
    BY DEF TypeOK, OwnerPC
<1>2. Balance'
    BY DEF Balance, Permits, Out
<1>3. OwnStage' /\ DelStage'
    BY DEF TypeOK, OwnStage, DelStage, Releasing
<1>4. ClientStage' /\ ShareStage' /\ ClientsExclusive'
    BY DEF ClientStage, ShareStage, ClientsExclusive
<1> QED
    BY <1>1, <1>2, <1>3, <1>4

LEMMA StepAcquireSem ==
    ASSUME IInv, NEW o \in Owners, AcquireSem(o)
    PROVE  IInv'
<1> USE DEF IInv, AcquireSem
<1>0. wrap[o] = "none" /\ wrap' = [wrap EXCEPT ![o] = "taking"] /\ wrap \in [Owners -> WrapState]
    BY DEF OwnStage, TypeOK
<1>1. TypeOK'
    BY SSHPoolAssumption DEF TypeOK, OwnerPC, WrapState
<1>2. Permits' = Permits \cup {o} /\ o \notin Permits /\ Out' = Out
    BY <1>0 DEF Permits, Out
<1>3. Cardinality(Permits) \in Nat /\ Cardinality(Permits') = Cardinality(Permits) + 1
    BY <1>2, CountAdd DEF Permits
<1>4. Balance'
    BY <1>2, <1>3 DEF Balance, TypeOK
<1>5. OwnStage' /\ DelStage'
    BY <1>0 DEF TypeOK, OwnStage, DelStage, Releasing
<1>6. ClientStage' /\ ShareStage' /\ ClientsExclusive'
    BY <1>0 DEF ClientStage, ShareStage, ClientsExclusive
<1> QED
    BY <1>1, <1>4, <1>5, <1>6

LEMMA StepLockForTake ==
    ASSUME IInv, NEW o \in Owners, LockForTake(o)
    PROVE  IInv'
<1> USE DEF IInv, LockForTake
<1>1. TypeOK'
    BY DEF TypeOK, OwnerPC
<1>2. Balance'
    BY DEF Balance, Permits, Out
<1>3. OwnStage' /\ DelStage'
    BY DEF TypeOK, OwnStage, DelStage, Releasing
<1>4. ClientStage' /\ ShareStage' /\ ClientsExclusive'
    BY DEF ClientStage, ShareStage, ClientsExclusive
<1> QED
    BY <1>1, <1>2, <1>3, <1>4

LEMMA StepPop ==
    ASSUME IInv, NEW o \in Owners, Pop(o)
    PROVE  IInv'
<1> DEFINE n == Len(idle)
<1> USE DEF IInv
<1>0. wrap[o] = "taking" /\ conn[o] = NoClient
    BY DEF Pop, OwnStage, ClientStage
<1>1. n \in Nat /\ n > 0 /\ idle \in Seq(Client) /\ idle[n] \in Client /\ idle[n] # NoClient
    BY SSHPoolAssumption DEF Pop, TypeOK, Client
<1>2. /\ idle' \in Seq(Client)
      /\ Len(idle') = n - 1
      /\ \A i \in 1..(n - 1) : idle'[i] = idle[i]
  <2>1. idle' = SubSeq(idle, 1, n - 1)
    BY DEF Pop
  <2>2. \A i \in 1..(n - 1) : idle[i] \in Client
    BY <1>1
  <2> HIDE DEF n
  <2> QED
    BY <1>1, <2>1, <2>2, SubSeqProperties, Zenon, SMT
<1>3. /\ conn' = [conn EXCEPT ![o] = idle[n]]
      /\ wrap' = [wrap EXCEPT ![o] = "live"]
      /\ pc' = [pc EXCEPT ![o] = "unlock"]
      /\ UNCHANGED <<sem, lock, opened, del, back, tpc, share>>
    BY DEF Pop
<1>4. TypeOK'
    BY <1>1, <1>2, <1>3 DEF TypeOK, OwnerPC, WrapState
<1>5. Permits' = Permits /\ Out' = Out \cup {o} /\ o \notin Out
    BY <1>0, <1>3 DEF Permits, Out, TypeOK
<1>6. Cardinality(Out) \in Nat /\ Cardinality(Out') = Cardinality(Out) + 1
    BY <1>5, CountAdd DEF Out
<1>7. Balance'
    BY <1>1, <1>2, <1>3, <1>5, <1>6, SSHPoolAssumption DEF Balance
<1>8. OwnStage' /\ DelStage'
    BY <1>0, <1>3 DEF TypeOK, OwnStage, DelStage, Releasing
<1>9. ShareStage'
    BY <1>0, <1>3 DEF ShareStage, TypeOK
<1>10. \A p \in Owners : /\ conn'[p] = IF p = o THEN idle[n] ELSE conn[p]
                         /\ wrap'[p] = IF p = o THEN "live" ELSE wrap[p]
  <2>1. conn \in [Owners -> Client \cup {NoClient}] /\ wrap \in [Owners -> WrapState]
    BY DEF TypeOK
  <2> QED
    BY <1>3, <2>1
<1>11. ClientStage'
    BY <1>0, <1>1, <1>2, <1>3, <1>10 DEF ClientStage
<1>12. ClientsExclusive'
    BY <1>0, <1>1, <1>2, <1>10 DEF ClientsExclusive
<1> QED
    BY <1>4, <1>7, <1>8, <1>9, <1>11, <1>12

LEMMA StepUnlockAfterTake ==
    ASSUME IInv, NEW o \in Owners, UnlockAfterTake(o)
    PROVE  IInv'
<1> USE DEF IInv, UnlockAfterTake
<1>1. TypeOK'
    BY DEF TypeOK, OwnerPC
<1>2. Balance'
    BY DEF Balance, Permits, Out
<1>3. OwnStage' /\ DelStage'
    BY DEF TypeOK, OwnStage, DelStage, Releasing
<1>4. ClientStage' /\ ShareStage' /\ ClientsExclusive'
    BY DEF ClientStage, ShareStage, ClientsExclusive
<1> QED
    BY <1>1, <1>2, <1>3, <1>4

LEMMA StepReconnect ==
    ASSUME IInv, NEW w \in Owners, Reconnect(w)
    PROVE  IInv'
<1> USE DEF IInv, Reconnect
<1>0. opened \in Nat /\ opened + 1 \in Client /\ opened + 1 # NoClient /\ conn[w] # NoClient
    BY SSHPoolAssumption DEF TypeOK, Client, ClientStage
<1>1. TypeOK'
    BY <1>0, SSHPoolAssumption DEF TypeOK
<1>2. Balance'
    BY DEF Balance, Permits, Out
<1>3. OwnStage' /\ DelStage' /\ ShareStage'
    BY DEF OwnStage, DelStage, ShareStage
<1>4. \A o \in Owners : conn'[o] = IF o = w THEN opened + 1 ELSE conn[o]
    BY DEF TypeOK
<1>5. \A i \in 1..Len(idle) : idle[i] \in Client /\ idle[i] <= opened
    BY DEF TypeOK, ClientStage
<1>6. \A o \in Owners : conn[o] # NoClient => conn[o] \in Client /\ conn[o] <= opened
    BY DEF TypeOK, ClientStage
<1>7. ClientStage'
    BY <1>0, <1>4, <1>5, <1>6 DEF ClientStage, Client
<1>8. ClientsExclusive'
    BY <1>0, <1>4, <1>5, <1>6 DEF ClientsExclusive, Client
<1> QED
    BY <1>1, <1>2, <1>3, <1>7, <1>8

LEMMA StepCapture ==
    ASSUME IInv, NEW s \in Timers, NEW w \in Owners, wrap[w] = "live", Capture(s, w)
    PROVE  IInv'
<1> USE DEF IInv, Capture
<1>1. TypeOK'
    BY DEF TypeOK, TimerPC
<1>2. Balance'
    BY DEF Balance, Permits, Out
<1>3. OwnStage' /\ DelStage' /\ ClientStage' /\ ClientsExclusive'
    BY DEF OwnStage, DelStage, ClientStage, ClientsExclusive
<1>4. ShareStage'
    BY DEF ShareStage, TypeOK
<1> QED
    BY <1>1, <1>2, <1>3, <1>4

LEMMA StepTimer ==
    ASSUME IInv, NEW s \in Timers, TimerStep(s)
    PROVE  IInv'
<1> USE DEF IInv, TimerStep, FireTimer, EndTimer
<1>1. TypeOK'
    BY DEF TypeOK, TimerPC
<1>2. Balance'
    BY DEF Balance, Permits, Out
<1>3. OwnStage' /\ DelStage' /\ ClientStage' /\ ClientsExclusive'
    BY DEF OwnStage, DelStage, ClientStage, ClientsExclusive
<1>4. ShareStage'
    BY DEF ShareStage, TypeOK
<1> QED
    BY <1>1, <1>2, <1>3, <1>4

(* The two ways a reference goes away, once the type of what Drop assigns is  *)
(* known: either the thread only moves on, or the wrapper starts to die.      *)
LEMMA StepJoinTimer ==
    ASSUME IInv, NEW o \in Owners, NEW s \in Timers, JoinTimer(o, s)
    PROVE  IInv'
<1> DEFINE w == share[s]
           stays == OwnerRef(w) \/ SharedBy(w) # {s}
<1> USE DEF IInv
<1>0. w \in Owners /\ wrap[w] = "live" /\ pc[o] \in {"start", "using"}
    BY DEF JoinTimer, ShareStage
<1>1. /\ tpc' = [tpc EXCEPT ![s] = "joined"]
      /\ Drop(o, w, pc[o], stays)
      /\ UNCHANGED <<sem, lock, idle, opened, conn, share>>
    BY DEF JoinTimer
<1>2. CASE stays
  <2>1. pc' = pc /\ UNCHANGED <<wrap, del, back>>
    BY <1>1, <1>2 DEF Drop, TypeOK
  <2>2. TypeOK'
    BY <1>1, <2>1 DEF TypeOK, TimerPC
  <2>3. Balance'
    BY <1>1, <2>1 DEF Balance, Permits, Out
  <2>4. OwnStage' /\ DelStage' /\ ClientStage' /\ ClientsExclusive'
    BY <1>1, <2>1 DEF OwnStage, DelStage, ClientStage, ClientsExclusive
  <2>5. ShareStage'
    BY <1>1, <2>1 DEF ShareStage, TypeOK
  <2> QED
    BY <2>2, <2>3, <2>4, <2>5
<1>3. CASE ~stays
  <2>1. /\ pc' = [pc EXCEPT ![o] = "rlock"]
        /\ wrap' = [wrap EXCEPT ![w] = "dying"]
        /\ del' = [del EXCEPT ![o] = w]
        /\ back' = [back EXCEPT ![o] = pc[o]]
    BY <1>0, <1>1, <1>3 DEF Drop
  <2>2. pc[w] = "ended"
    BY <1>0, <1>3 DEF OwnerRef, DelStage, Releasing
  <2>3. TypeOK'
    BY <1>0, <1>1, <2>1 DEF TypeOK, OwnerPC, WrapState, TimerPC
  <2>4. Permits' = Permits /\ Out' = Out
    BY <1>0, <2>1 DEF Permits, Out, TypeOK
  <2>5. Balance'
    BY <1>1, <2>4 DEF Balance
  <2>6. OwnStage'
    BY <1>0, <2>1, <2>2 DEF OwnStage, TypeOK
  <2>7. DelStage'
    BY <1>0, <2>1, <2>2 DEF DelStage, OwnStage, Releasing, TypeOK
  <2>8. ClientStage' /\ ClientsExclusive'
    BY <1>0, <1>1, <2>1 DEF ClientStage, ClientsExclusive, TypeOK
  <2>9. ShareStage'
    <3>1. \A r \in Timers : share[r] = w /\ tpc[r] \in {"armed", "running", "ended"} => r = s
      BY <1>3 DEF SharedBy
    <3> QED
      BY <1>0, <1>1, <2>1, <3>1 DEF ShareStage, TypeOK
  <2> QED
    BY <2>3, <2>5, <2>6, <2>7, <2>8, <2>9
<1> QED
    BY <1>2, <1>3

LEMMA StepEndThread ==
    ASSUME IInv, NEW o \in Owners, EndThread(o)
    PROVE  IInv'
<1> USE DEF IInv
<1>0. wrap[o] = "live" /\ pc[o] = "using"
    BY DEF EndThread, OwnStage
<1>1. /\ Drop(o, o, "ended", SharedBy(o) # {})
      /\ UNCHANGED <<sem, lock, idle, opened, conn, tpc, share>>
    BY DEF EndThread
<1>2. CASE SharedBy(o) # {}
  <2>1. pc' = [pc EXCEPT ![o] = "ended"] /\ UNCHANGED <<wrap, del, back>>
    BY <1>1, <1>2 DEF Drop
  <2>2. TypeOK'
    BY <1>1, <2>1 DEF TypeOK, OwnerPC
  <2>3. Balance'
    BY <1>1, <2>1 DEF Balance, Permits, Out
  <2>4. OwnStage' /\ DelStage'
    BY <2>1 DEF OwnStage, DelStage, Releasing, TypeOK
  <2>5. ClientStage' /\ ClientsExclusive' /\ ShareStage'
    BY <1>1, <2>1 DEF ClientStage, ClientsExclusive, ShareStage
  <2> QED
    BY <2>2, <2>3, <2>4, <2>5
<1>3. CASE SharedBy(o) = {}
  <2>1. /\ pc' = [pc EXCEPT ![o] = "rlock"]
        /\ wrap' = [wrap EXCEPT ![o] = "dying"]
        /\ del' = [del EXCEPT ![o] = o]
        /\ back' = [back EXCEPT ![o] = "ended"]
    BY <1>0, <1>1, <1>3 DEF Drop
  <2>2. TypeOK'
    BY <1>0, <1>1, <2>1 DEF TypeOK, OwnerPC, WrapState
  <2>3. Permits' = Permits /\ Out' = Out
    BY <1>0, <2>1 DEF Permits, Out, TypeOK
  <2>4. Balance'
    BY <1>1, <2>3 DEF Balance
  <2>5. OwnStage'
    BY <1>0, <2>1 DEF OwnStage, TypeOK
  <2>6. DelStage'
    BY <1>0, <2>1 DEF DelStage, OwnStage, Releasing, TypeOK
  <2>7. ClientStage' /\ ClientsExclusive'
    BY <1>0, <1>1, <2>1 DEF ClientStage, ClientsExclusive, TypeOK
  <2>8. ShareStage'
    BY <1>0, <1>1, <1>3, <2>1 DEF ShareStage, SharedBy, TypeOK
  <2> QED
    BY <2>2, <2>4, <2>5, <2>6, <2>7, <2>8
<1> QED
    BY <1>2, <1>3

LEMMA StepLockForRelease ==
    ASSUME IInv, NEW o \in Owners, LockForRelease(o)
    PROVE  IInv'
<1> USE DEF IInv, LockForRelease
<1>1. TypeOK'
    BY DEF TypeOK, OwnerPC
<1>2. Balance'
    BY DEF Balance, Permits, Out
<1>3. OwnStage' /\ DelStage'
    BY DEF TypeOK, OwnStage, DelStage, Releasing
<1>4. ClientStage' /\ ShareStage' /\ ClientsExclusive'
    BY DEF ClientStage, ShareStage, ClientsExclusive
<1> QED
    BY <1>1, <1>2, <1>3, <1>4

LEMMA StepAppendClient ==
    ASSUME IInv, NEW o \in Owners, AppendClient(o)
    PROVE  IInv'
<1> DEFINE w == del[o]
           n == Len(idle)
<1> USE DEF IInv
<1>0. pc[o] = "rappend" /\ w \in Owners /\ wrap[w] = "dying"
    BY DEF AppendClient, DelStage, Releasing
<1>1. conn[w] \in Client /\ conn[w] # NoClient /\ conn[w] <= opened /\ idle \in Seq(Client) /\ n \in Nat
    BY <1>0 DEF ClientStage, TypeOK
<1>2. /\ idle' = Append(idle, conn[w])
      /\ conn' = [conn EXCEPT ![w] = NoClient]
      /\ wrap' = [wrap EXCEPT ![w] = "freed"]
      /\ pc' = [pc EXCEPT ![o] = "runlock"]
      /\ UNCHANGED <<sem, lock, opened, del, back, tpc, share>>
    BY DEF AppendClient
<1>3. /\ idle' \in Seq(Client)
      /\ Len(idle') = n + 1
      /\ \A i \in 1..n : idle'[i] = idle[i]
      /\ idle'[n + 1] = conn[w]
    BY <1>1, <1>2, AppendProperties
<1>4. TypeOK'
    BY <1>2, <1>3 DEF TypeOK, OwnerPC, WrapState
<1>5. Permits' = Permits /\ Out = Out' \cup {w} /\ w \notin Out'
    BY <1>0, <1>2 DEF Permits, Out, TypeOK
<1>6. Cardinality(Out') \in Nat /\ Cardinality(Out) = Cardinality(Out') + 1
    BY <1>0, <1>5, CountAdd DEF Out
<1>7. Balance'
    BY <1>1, <1>2, <1>3, <1>5, <1>6, SSHPoolAssumption DEF Balance
<1>8. OwnStage'
    BY <1>0, <1>2 DEF OwnStage, TypeOK
<1>9. DelStage'
    BY <1>0, <1>2 DEF DelStage, OwnStage, Releasing, TypeOK
<1>10. ShareStage'
    BY <1>0, <1>2 DEF ShareStage, TypeOK
<1>11. \A p \in Owners : /\ conn'[p] = IF p = w THEN NoClient ELSE conn[p]
                         /\ wrap'[p] = IF p = w THEN "freed" ELSE wrap[p]
  <2>1. conn \in [Owners -> Client \cup {NoClient}] /\ wrap \in [Owners -> WrapState]
    BY DEF TypeOK
  <2> QED
    BY <1>0, <1>2, <2>1
<1>12. ClientStage'
    BY <1>0, <1>1, <1>2, <1>3, <1>11 DEF ClientStage
<1>13. ClientsExclusive'
  <2>1. \A i \in 1..n : idle[i] \in Client /\ idle[i] # NoClient
    BY <1>1, SSHPoolAssumption DEF Client
  <2>2. \A i \in 1..Len(idle') : i = n + 1 \/ i \in 1..n
    BY <1>1, <1>3
  <2>3. \A i, j \in 1..Len(idle') : idle'[i] = idle'[j] => i = j
    BY <1>0, <1>1, <1>3, <2>2 DEF ClientsExclusive
  <2>4. \A i \in 1..Len(idle'), p \in Owners : idle'[i] # conn'[p]
    BY <1>0, <1>1, <1>3, <1>11, <2>1, <2>2 DEF ClientsExclusive
  <2>5. \A p, q \in Owners : conn'[p] = conn'[q] /\ conn'[p] # NoClient => p = q
    BY <1>11 DEF ClientsExclusive
  <2> QED
    BY <2>3, <2>4, <2>5 DEF ClientsExclusive
<1> QED
    BY <1>4, <1>7, <1>8, <1>9, <1>10, <1>12, <1>13

LEMMA StepUnlockAfterRelease ==
    ASSUME IInv, NEW o \in Owners, UnlockAfterRelease(o)
    PROVE  IInv'
<1> USE DEF IInv, UnlockAfterRelease
<1>1. TypeOK'
    BY DEF TypeOK, OwnerPC
<1>2. Balance'
    BY DEF Balance, Permits, Out
<1>3. OwnStage' /\ DelStage'
    BY DEF TypeOK, OwnStage, DelStage, Releasing
<1>4. ClientStage' /\ ShareStage' /\ ClientsExclusive'
    BY DEF ClientStage, ShareStage, ClientsExclusive
<1> QED
    BY <1>1, <1>2, <1>3, <1>4

LEMMA StepReleaseSem ==
    ASSUME IInv, NEW o \in Owners, ReleaseSem(o)
    PROVE  IInv'
<1> DEFINE w == del[o]
<1> USE DEF IInv
<1>0. pc[o] = "rsem" /\ w \in Owners /\ wrap[w] = "freed"
    BY DEF ReleaseSem, DelStage, Releasing
<1>1. /\ sem' = sem + 1
      /\ wrap' = [wrap EXCEPT ![w] = "gone"]
      /\ pc' = [pc EXCEPT ![o] = back[o]]
      /\ del' = [del EXCEPT ![o] = Nobody]
      /\ UNCHANGED <<lock, idle, opened, conn, back, tpc, share>>
    BY DEF ReleaseSem
<1>2. Permits = Permits' \cup {w} /\ w \notin Permits' /\ Out' = Out
    BY <1>0, <1>1 DEF Permits, Out, TypeOK
<1>3. Cardinality(Permits') \in Nat /\ Cardinality(Permits) = Cardinality(Permits') + 1
    BY <1>0, <1>2, CountAdd DEF Permits
<1>4. Balance'
    BY <1>1, <1>2, <1>3, SSHPoolAssumption DEF Balance, TypeOK
<1>5. sem' \in 0..PoolSize
    BY <1>1, <1>3, SSHPoolAssumption DEF Balance, TypeOK
<1>6. TypeOK'
    BY <1>1, <1>5 DEF TypeOK, OwnerPC, WrapState
<1>7. \A p \in Owners : /\ pc'[p] = IF p = o THEN back[o] ELSE pc[p]
                        /\ wrap'[p] = IF p = w THEN "gone" ELSE wrap[p]
                        /\ del'[p] = IF p = o THEN Nobody ELSE del[p]
  <2>1. /\ pc \in [Owners -> OwnerPC] /\ wrap \in [Owners -> WrapState]
        /\ del \in [Owners -> Owners \cup {Nobody}]
    BY DEF TypeOK
  <2> QED
    BY <1>0, <1>1, <2>1
<1>8. back[o] \in {"start", "using", "ended"}
    BY DEF TypeOK
<1>9. OwnStage'
    BY <1>0, <1>7, <1>8 DEF OwnStage, DelStage, Releasing
<1>10. DelStage'
    BY <1>0, <1>1, <1>7, <1>8 DEF DelStage, OwnStage, Releasing
<1>11. ClientStage' /\ ShareStage' /\ ClientsExclusive'
    BY <1>0, <1>1, <1>7 DEF ClientStage, ShareStage, ClientsExclusive
<1> QED
    BY <1>4, <1>6, <1>9, <1>10, <1>11

--------------------------------------------------------------------------------
LEMMA NextIInv == IInv /\ [Next]_vars => IInv'
<1> SUFFICES ASSUME IInv, [Next]_vars PROVE IInv'
    OBVIOUS
<1>1. CASE UNCHANGED vars
    BY <1>1 DEF vars, IInv, TypeOK, Balance, Permits, Out, OwnStage, DelStage,
                ClientStage, ShareStage, ClientsExclusive
<1>2. ASSUME NEW o \in Owners, TakeStep(o) PROVE IInv'
    BY <1>2, StepAcquireSem, StepLockForTake, StepPop, StepUnlockAfterTake DEF TakeStep
<1>3. ASSUME NEW o \in Owners, ReleaseStep(o) PROVE IInv'
    BY <1>3, StepLockForRelease, StepAppendClient, StepUnlockAfterRelease, StepReleaseSem
       DEF ReleaseStep
<1>4. ASSUME NEW o \in Owners, GetConnection(o) \/ Reconnect(o) \/ EndThread(o) PROVE IInv'
    BY <1>4, StepGetConnection, StepReconnect, StepEndThread
<1>5. ASSUME NEW o \in Owners, NEW s \in Timers, StartTimer(o, s) PROVE IInv'
    BY <1>5, StepCapture DEF StartTimer, IInv, OwnStage
<1>6. ASSUME NEW o \in Owners, NEW s \in Timers, JoinTimer(o, s) PROVE IInv'
    BY <1>6, StepJoinTimer
<1>7. ASSUME NEW s \in Timers, TimerStep(s) PROVE IInv'
    BY <1>7, StepTimer
<1>8. ASSUME NEW s \in Timers, NEW r \in Pipes, StartTimerFromPipe(r, s) PROVE IInv'
  <2>1. share[r] \in Owners /\ wrap[share[r]] = "live"
    BY <1>8, SSHPoolAssumption DEF StartTimerFromPipe, IInv, ShareStage
  <2> QED
    BY <1>8, <2>1, StepCapture DEF StartTimerFromPipe
<1> QED
    BY <1>1, <1>2, <1>3, <1>4, <1>5, <1>6, <1>7, <1>8 DEF Next

(* Every reachable state satisfies the inductive invariant. *)
THEOREM Inductive == Spec => []IInv
    BY InitIInv, NextIInv, PTL DEF Spec

(* Type correctness; with it the bounds of the semaphore: never more permits  *)
(* than max_parallel_workers + 1.                                             *)
THEOREM TypeCorrect == Spec => []TypeOK
<1>1. IInv => TypeOK
    BY DEF IInv
<1> QED
    BY <1>1, Inductive, PTL

(* A pop that has the permit and the lock always finds a client in the deque. *)
THEOREM PopSafe == Spec => []PopFindsClient
<1>1. IInv => PopFindsClient
  <2> SUFFICES ASSUME IInv, NEW o \in Owners, pc[o] = "pop"
               PROVE  idle # <<>>
    BY DEF PopFindsClient
  <2>1. o \in Permits /\ o \notin Out /\ Out \subseteq Permits
    BY DEF IInv, OwnStage, Permits, Out
  <2>2. /\ Cardinality(Permits) \in Nat /\ Cardinality(Out) \in Nat
        /\ Cardinality(Out) < Cardinality(Permits)
    BY <2>1, CountBelow DEF Permits
  <2>3. Len(idle) > 0
    BY <2>2, SSHPoolAssumption DEF IInv, Balance, TypeOK
  <2> QED
    BY <2>3
<1> QED
    BY <1>1, Inductive, PTL

(* No client is in two hands, for any number of reconnections. *)
THEOREM Exclusive == Spec => []ClientsExclusive
<1>1. IInv => ClientsExclusive
    BY DEF IInv
<1> QED
    BY <1>1, Inductive, PTL

(* A running timer or pipe thread always holds a connection that was not      *)
(* given back.                                                                *)
THEOREM SharedLive == Spec => []SharedWrapperLive
<1>1. IInv => SharedWrapperLive
    BY DEF IInv, ShareStage, SharedWrapperLive
<1> QED
    BY <1>1, Inductive, PTL

(* The sizing argument: as long as the threads that allocate are not more     *)
(* than the slots, nobody ever waits for the semaphore, whatever the timers   *)
(* and pipes do.                                                              *)
THEOREM NoWait == ASSUME Cardinality(Owners) <= PoolSize
                  PROVE  Spec => []NoWaitForSlot
<1>1. IInv => NoWaitForSlot
  <2> SUFFICES ASSUME IInv, NEW o \in Owners, pc[o] = "sem"
               PROVE  sem > 0
    BY DEF NoWaitForSlot
  <2>1. o \notin Permits /\ Permits \subseteq Owners
    BY DEF IInv, OwnStage, Permits
  <2>2. /\ Cardinality(Owners) \in Nat /\ Cardinality(Permits) \in Nat
        /\ Cardinality(Permits) < Cardinality(Owners)
    BY <2>1, CountBelow
  <2> QED
    BY <2>2, SSHPoolAssumption DEF IInv, Balance, TypeOK
<1> QED
    BY <1>1, Inductive, PTL

--------------------------------------------------------------------------------
(* Refinement *)

LEMMA LeasedIsOut == IInv => SlotLeases!Leased = Out
    BY DEF IInv, ClientStage, SlotLeases!Leased, Out

LEMMA StepRefines == IInv /\ [Next]_vars => [SlotLeases!Next]_conn
<1> SUFFICES ASSUME IInv, Next, conn' # conn
             PROVE  SlotLeases!Next
    BY DEF vars
<1> USE DEF SlotLeases!Next, SlotLeases!Free
<1>1. ASSUME NEW o \in Owners, Pop(o) PROVE SlotLeases!Acquire(o)
  <2>1. o \in Permits /\ o \notin Out /\ Out \subseteq Permits /\ conn[o] = NoClient
    BY <1>1 DEF Pop, IInv, OwnStage, ClientStage, Permits, Out
  <2>2. /\ Cardinality(Permits) \in Nat /\ Cardinality(Out) \in Nat
        /\ Cardinality(Out) < Cardinality(Permits)
    BY <2>1, CountBelow DEF Permits
  <2>3. SlotLeases!Cardinality(SlotLeases!Leased) < PoolSize
    <3>1. SlotLeases!Cardinality(Out) = Cardinality(Out)
      BY DEF Cardinality, SlotLeases!Cardinality
    <3> QED
      BY <2>2, <3>1, LeasedIsOut, SSHPoolAssumption DEF IInv, Balance, TypeOK
  <2>4. Len(idle) \in 1..Len(idle) /\ idle[Len(idle)] \in Client
    BY <1>1 DEF Pop, IInv, TypeOK
  <2>5. SlotLeases!Free(idle[Len(idle)])
    BY <2>4 DEF IInv, ClientsExclusive
  <2>6. conn' = [conn EXCEPT ![o] = idle[Len(idle)]]
    BY <1>1 DEF Pop
  <2>7. \E c \in Client : SlotLeases!Free(c) /\ conn' = [conn EXCEPT ![o] = c]
    BY <2>4, <2>5, <2>6
  <2> HIDE DEF SlotLeases!Free
  <2> QED
    BY <2>1, <2>3, <2>7 DEF SlotLeases!Acquire
<1>2. ASSUME NEW w \in Owners, Reconnect(w) PROVE SlotLeases!Renew(w)
  <2>1. conn[w] # NoClient /\ opened + 1 \in Client
    BY <1>2, SSHPoolAssumption DEF Reconnect, IInv, ClientStage, TypeOK, Client
  <2>2. \A o \in Owners : conn[o] # opened + 1
    BY <2>1, SSHPoolAssumption DEF IInv, ClientStage, TypeOK, Client
  <2> QED
    BY <1>2, <2>1, <2>2 DEF Reconnect, SlotLeases!Renew
<1>3. ASSUME NEW o \in Owners, AppendClient(o) PROVE SlotLeases!Release(del[o])
  <2>1. del[o] \in Owners /\ conn[del[o]] # NoClient
    BY <1>3 DEF AppendClient, IInv, DelStage, ClientStage, Releasing
  <2> QED
    BY <1>3, <2>1 DEF AppendClient, SlotLeases!Release
<1>4. ASSUME NEW o \in Owners, AppendClient(o) PROVE del[o] \in Owners
    BY <1>4 DEF AppendClient, IInv, DelStage, Releasing
<1> QED
    BY <1>1, <1>2, <1>3, <1>4
       DEF Next, TakeStep, ReleaseStep, TimerStep, GetConnection, AcquireSem, LockForTake,
           UnlockAfterTake, EndThread, LockForRelease, UnlockAfterRelease, ReleaseSem,
           StartTimer, StartTimerFromPipe, Capture, JoinTimer, FireTimer, EndTimer

(* The semaphore, the deque, the wrappers and their destructors together give *)
(* every thread a lease of a client of its own and never exceed the slots.    *)
THEOREM Refines == Spec => ImplementsSlots
<1>1. Init => SlotLeases!Init
    BY DEF Init, SlotLeases!Init
<1> QED
    BY <1>1, StepRefines, Inductive, PTL DEF Spec, ImplementsSlots, SlotLeases!Spec
================================================================================
