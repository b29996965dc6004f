----------------------------- MODULE BatchesProofs -----------------------------
(* For any two lists of commands that differ, any length of a command line    *)
(* and any number of attempts: a batch loses no command, repeats none, and    *)
(* changes their order in no mode in which the host has one task at a time.   *)
EXTENDS Batches, SequenceTheorems, TLAPS

(* exec_batch_commit of a task without a list has nothing to send. *)
Queue == IF batch = None THEN <<>> ELSE batch

(* The place of a command among all that the host is asked to execute.        *)
Asked == Commands["arp"] \o Commands["routes"]
Place(c) == CHOOSE k \in DOMAIN Asked : Asked[k] = c

Increasing(s) == \A i, j \in DOMAIN s : i < j => Place(s[i]) < Place(s[j])
Before(s, u) == \A i \in DOMAIN s, j \in DOMAIN u : Place(s[i]) < Place(u[j])

(* Which task has its turn; that a task that appends has a command left, and  *)
(* the list to append to.                                                     *)
Appending == {"create", "load", "append"}
Turns ==
    /\ mode = "serial" => IF main = "arp" THEN pc["routes"] = "idle" ELSE Ended("arp")
    /\ mode = "tunnels" => pc["arp"] = "idle"
    /\ mode # "serial" => main # "arp" /\ pc["routes"] # "idle"
    /\ mode # "serial" /\ main = "built" => \A t \in Tasks : pc[t] \in {"idle", "ok"}
    /\ \A t \in Tasks : pc[t] \in Appending => todo[t] # <<>>
    /\ held # {} => batch # None

(* What a task is asked for is installed or on its way there.                 *)
OnItsWay(t) ==
    /\ pc[t] = "idle" => CommandsOf(t) \subseteq Range(todo[t])
    /\ pc[t] \in {"add"} \cup Appending =>
        CommandsOf(t) \subseteq installed \cup Range(Queue) \cup Range(todo[t])
    /\ pc[t] = "create" => batch = None
    /\ pc[t] = "append" => t \in held
    /\ pc[t] \in {"log", "loop", "length", "take"} => CommandsOf(t) \subseteq installed \cup Range(Queue)
    /\ pc[t] = "store" => CommandsOf(t) \subseteq installed \cup Range(part[t]) \cup Range(rest[t])
    /\ pc[t] = "run" => CommandsOf(t) \subseteq installed \cup Range(part[t]) \cup Range(Queue)
    /\ pc[t] \in {"reset", "ok"} => CommandsOf(t) \subseteq installed
Kept == Alone => \A t \in Tasks : OnItsWay(t)

(* What was executed comes before what is sent, that before what is in the    *)
(* batch, and that before what is not appended yet.                           *)
OrderOf(t) ==
    /\ pc[t] \in {"add"} \cup Appending =>
        Increasing(todo[t]) /\ Before(log, todo[t]) /\ Before(Queue, todo[t])
    /\ pc[t] = "store" =>
        /\ Increasing(part[t]) /\ Before(log, part[t])
        /\ Increasing(rest[t]) /\ Before(log, rest[t]) /\ Before(part[t], rest[t])
    /\ pc[t] = "run" => Increasing(part[t]) /\ Before(log, part[t]) /\ Before(part[t], Queue)

RoutesLater ==
    pc["routes"] = "idle" =>
        /\ Increasing(todo["routes"])
        /\ Before(log, todo["routes"]) /\ Before(Queue, todo["routes"])
        /\ pc["arp"] \in {"add"} \cup Appending => Before(todo["arp"], todo["routes"])
        /\ pc["arp"] \in {"store", "run"} => Before(part["arp"], todo["routes"])
        /\ pc["arp"] = "store" => Before(rest["arp"], todo["routes"])

Order ==
    Alone /\ ~lost =>
        /\ Increasing(log) /\ Increasing(Queue) /\ Before(log, Queue)
        /\ \A t \in Tasks : OrderOf(t)
        /\ RoutesLater

(* No list has a command twice, and what a task has not appended is in none.  *)
Distinct ==
    /\ IsInjective(Queue)
    /\ \A t \in Tasks :
        /\ IsInjective(todo[t]) /\ IsInjective(part[t]) /\ IsInjective(rest[t])
        /\ Range(todo[t]) \cap Range(Queue) = {}
        /\ \A u \in Tasks : Range(todo[t]) \cap Range(rest[u]) = {}
    /\ Range(todo["arp"]) \cap Range(todo["routes"]) = {}

(* The real host refuses a command that it has: then a task fails.            *)
Once ==
    ~lost /\ (\A t \in Tasks : pc[t] # "failed") => IsInjective(log) /\ Range(log) \subseteq installed

IInv == TypeOK /\ Turns /\ Kept /\ Order /\ Distinct /\ Once

--------------------------------------------------------------------------------
(* Lists of commands *)

(* u is what s holds after its first d elements, or a beginning of that.      *)
Within(u, s, d) == \A i \in DOMAIN u : i + d \in DOMAIN s /\ u[i] = s[i + d]

LEMMA Piece ==
    ASSUME NEW S, NEW s \in Seq(S), NEW u \in Seq(S), NEW d \in Nat, Within(u, s, d)
    PROVE  /\ Range(u) \subseteq Range(s)
           /\ IsInjective(s) => IsInjective(u)
           /\ Increasing(s) => Increasing(u)
           /\ \A x : (Before(x, s) => Before(x, u)) /\ (Before(s, x) => Before(u, x))
<1>1. DOMAIN u \subseteq Nat /\ DOMAIN s \subseteq Nat
  OBVIOUS
<1>2. Range(u) \subseteq Range(s)
  BY DEF Within, Range
<1>3. IsInjective(s) => IsInjective(u)
  BY <1>1 DEF Within, IsInjective
<1>4. Increasing(s) => Increasing(u)
  BY <1>1 DEF Within, Increasing
<1>5. \A x : (Before(x, s) => Before(x, u)) /\ (Before(s, x) => Before(u, x))
  BY DEF Within, Before
<1> QED
  BY <1>2, <1>3, <1>4, <1>5

LEMMA Joined ==
    ASSUME NEW S, NEW s \in Seq(S), NEW u \in Seq(S)
    PROVE  /\ s \o u \in Seq(S)
           /\ Range(s \o u) = Range(s) \cup Range(u)
           /\ IsInjective(s) /\ IsInjective(u) /\ Range(s) \cap Range(u) = {} => IsInjective(s \o u)
           /\ Increasing(s) /\ Increasing(u) /\ Before(s, u) => Increasing(s \o u)
           /\ \A x : Before(s, x) /\ Before(u, x) => Before(s \o u, x)
           /\ \A x : Before(x, s) /\ Before(x, u) => Before(x, s \o u)
<1>1. /\ s \o u \in Seq(S) /\ DOMAIN s = 1 .. Len(s) /\ DOMAIN u = 1 .. Len(u)
      /\ DOMAIN (s \o u) = 1 .. Len(s) + Len(u) /\ Len(s) \in Nat /\ Len(u) \in Nat
      /\ \A i \in DOMAIN (s \o u) :
            (s \o u)[i] = IF i <= Len(s) THEN s[i] ELSE u[i - Len(s)]
  OBVIOUS
<1> DEFINE w == s \o u
<1>2. \A i \in DOMAIN w : \/ i \in DOMAIN s /\ w[i] = s[i]
                          \/ i > Len(s) /\ i - Len(s) \in DOMAIN u /\ w[i] = u[i - Len(s)]
  BY <1>1
<1>3. Range(w) = Range(s) \cup Range(u)
  BY RangeConcatenation
<1> HIDE DEF w
<1>4. DOMAIN w \subseteq Nat
  BY <1>1 DEF w
<1>5. ASSUME IsInjective(s), IsInjective(u), Range(s) \cap Range(u) = {}
      PROVE  IsInjective(w)
  <2> SUFFICES ASSUME NEW i \in DOMAIN w, NEW j \in DOMAIN w, w[i] = w[j]
               PROVE  i = j
    BY DEF IsInjective
  <2>1. \A a \in DOMAIN s, b \in DOMAIN u : s[a] # u[b]
    BY <1>5 DEF Range
  <2>2. CASE i \in DOMAIN s /\ w[i] = s[i]
    BY <1>2, <1>5, <2>1, <2>2 DEF IsInjective
  <2>3. CASE i > Len(s) /\ i - Len(s) \in DOMAIN u /\ w[i] = u[i - Len(s)]
    <3>1. j > Len(s) /\ j - Len(s) \in DOMAIN u /\ w[j] = u[j - Len(s)]
      BY <1>2, <2>1, <2>3
    <3>2. i - Len(s) = j - Len(s)
      BY <1>5, <2>3, <3>1 DEF IsInjective
    <3> QED
      BY <1>1, <1>4, <3>2
  <2> QED
    BY <1>2, <2>2, <2>3
<1>6. ASSUME Increasing(s), Increasing(u), Before(s, u)
      PROVE  Increasing(w)
  <2> SUFFICES ASSUME NEW i \in DOMAIN w, NEW j \in DOMAIN w, i < j
               PROVE  Place(w[i]) < Place(w[j])
    BY DEF Increasing
  <2>1. i \in Nat /\ j \in Nat
    BY <1>4
  <2>2. CASE i \in DOMAIN s /\ w[i] = s[i] /\ j \in DOMAIN s /\ w[j] = s[j]
    BY <1>6, <2>2 DEF Increasing
  <2>3. CASE i \in DOMAIN s /\ w[i] = s[i] /\ j - Len(s) \in DOMAIN u /\ w[j] = u[j - Len(s)]
    BY <1>6, <2>3 DEF Before
  <2>4. CASE i - Len(s) \in DOMAIN u /\ w[i] = u[i - Len(s)] /\ j - Len(s) \in DOMAIN u /\ w[j] = u[j - Len(s)]
    <3>1. i - Len(s) < j - Len(s)
      BY <1>1, <2>1
    <3> QED
      BY <1>6, <2>4, <3>1 DEF Increasing
  <2>5. ~(i > Len(s) /\ j \in DOMAIN s)
    BY <1>1, <2>1
  <2> QED
    BY <1>2, <2>2, <2>3, <2>4, <2>5
<1>7. \A x : Before(s, x) /\ Before(u, x) => Before(w, x)
  BY <1>2 DEF Before
<1>8. \A x : Before(x, s) /\ Before(x, u) => Before(x, w)
  BY <1>2 DEF Before
<1> QED
  BY <1>1, <1>3, <1>5, <1>6, <1>7, <1>8 DEF w

(* The first command of a list, and the others. *)
LEMMA FirstOf ==
    ASSUME NEW S, NEW s \in Seq(S), s # <<>>
    PROVE  /\ <<Head(s)>> \in Seq(S) /\ Tail(s) \in Seq(S)
           /\ Range(<<Head(s)>>) = {Head(s)} /\ IsInjective(<<Head(s)>>) /\ Increasing(<<Head(s)>>)
           /\ Range(s) = {Head(s)} \cup Range(Tail(s))
           /\ IsInjective(s) => IsInjective(Tail(s)) /\ Head(s) \notin Range(Tail(s))
           /\ Increasing(s) => Increasing(Tail(s)) /\ Before(<<Head(s)>>, Tail(s))
           /\ \A x : (Before(x, s) => Before(x, Tail(s)) /\ Before(x, <<Head(s)>>))
                     /\ (Before(s, x) => Before(Tail(s), x) /\ Before(<<Head(s)>>, x))
<1>1. /\ <<Head(s)>> \in Seq(S) /\ Tail(s) \in Seq(S) /\ Head(s) = s[1]
      /\ DOMAIN s = 1 .. Len(s) /\ Len(s) \in Nat /\ 1 \in DOMAIN s
      /\ DOMAIN Tail(s) = 1 .. Len(s) - 1
      /\ \A i \in DOMAIN Tail(s) : Tail(s)[i] = s[i + 1]
  OBVIOUS
<1> DEFINE h == <<Head(s)>>
           u == Tail(s)
<1>2. DOMAIN h = {1} /\ h[1] = s[1]
  BY <1>1
<1> HIDE DEF h, u
<1>3. Within(h, s, 0)
  BY <1>1, <1>2 DEF Within
<1>4. Within(u, s, 1)
  BY <1>1 DEF Within, u
<1>5. Range(h) = {s[1]} /\ IsInjective(h) /\ Increasing(h)
  BY <1>2 DEF Range, IsInjective, Increasing
<1>6. Range(s) = {s[1]} \cup Range(u)
  <2>1. \A i \in DOMAIN s : i = 1 \/ (i - 1 \in DOMAIN u /\ s[i] = u[i - 1])
    BY <1>1 DEF u
  <2>2. Range(s) \subseteq {s[1]} \cup Range(u)
    BY <2>1 DEF Range
  <2>3. Range(u) \subseteq Range(s)
    BY <1>1, <1>4, Piece DEF u
  <2> QED
    BY <1>1, <2>2, <2>3 DEF Range
<1>7. IsInjective(s) => s[1] \notin Range(u)
  BY <1>1, <1>4 DEF IsInjective, Within, Range
<1>8. Increasing(s) => Before(h, u)
  BY <1>1, <1>2, <1>4 DEF Increasing, Before, Within
<1>9. /\ IsInjective(s) => IsInjective(u)
      /\ Increasing(s) => Increasing(u)
      /\ \A x : (Before(x, s) => Before(x, u)) /\ (Before(s, x) => Before(u, x))
  BY <1>1, <1>4, Piece DEF u
<1>10. \A x : (Before(x, s) => Before(x, h)) /\ (Before(s, x) => Before(h, x))
  BY <1>1, <1>3, Piece DEF h
<1> QED
  BY <1>1, <1>5, <1>6, <1>7, <1>8, <1>9, <1>10 DEF h, u

(* jointake loses nothing, and keeps the order. *)
LEMMA JoinTakeSplits ==
    ASSUME NEW S, NEW s \in Seq(S)
    PROVE  LET p == JoinTake(s)[1]
               r == JoinTake(s)[2]
           IN  /\ p \in Seq(S) /\ r \in Seq(S) /\ Range(s) = Range(p) \cup Range(r)
               /\ IsInjective(s) => IsInjective(p) /\ IsInjective(r)
               /\ Increasing(s) => Increasing(p) /\ Increasing(r) /\ Before(p, r)
               /\ \A x : (Before(x, s) => Before(x, p) /\ Before(x, r))
                         /\ (Before(s, x) => Before(p, x) /\ Before(r, x))
<1> DEFINE k == Lesser(PerPart, Len(s))
           p == SubSeq(s, 1, k)
           r == SubSeq(s, k + 1, Len(s))
<1>1. JoinTake(s)[1] = p /\ JoinTake(s)[2] = r
  BY DEF JoinTake
<1>2. k \in Nat /\ k <= Len(s) /\ Len(s) \in Nat /\ DOMAIN s = 1 .. Len(s)
  BY BatchesAssumption DEF Lesser
<1> HIDE DEF k
<1>3. /\ p \in Seq(S) /\ DOMAIN p = 1 .. k
      /\ \A i \in 1 .. k : p[i] = s[i]
  BY <1>2
<1>4. /\ r \in Seq(S) /\ DOMAIN r = 1 .. Len(s) - k
      /\ \A i \in 1 .. Len(s) - k : r[i] = s[i + k]
  BY <1>2
<1> HIDE DEF p, r
<1>5. Within(p, s, 0) /\ Within(r, s, k)
  BY <1>2, <1>3, <1>4 DEF Within
<1>6. /\ Range(p) \subseteq Range(s)
      /\ IsInjective(s) => IsInjective(p)
      /\ Increasing(s) => Increasing(p)
      /\ \A x : (Before(x, s) => Before(x, p)) /\ (Before(s, x) => Before(p, x))
  BY <1>3, <1>5, Piece
<1>7. /\ Range(r) \subseteq Range(s)
      /\ IsInjective(s) => IsInjective(r)
      /\ Increasing(s) => Increasing(r)
      /\ \A x : (Before(x, s) => Before(x, r)) /\ (Before(s, x) => Before(r, x))
  BY <1>2, <1>4, <1>5, Piece
<1>8. Range(s) \subseteq Range(p) \cup Range(r)
  <2>1. \A i \in DOMAIN s : (i \in DOMAIN p /\ s[i] = p[i]) \/ (i - k \in DOMAIN r /\ s[i] = r[i - k])
    BY <1>2, <1>3, <1>4
  <2> QED
    BY <2>1 DEF Range
<1>9. Increasing(s) => Before(p, r)
  <2>1. \A i \in DOMAIN p, j \in DOMAIN r :
          /\ i \in DOMAIN s /\ p[i] = s[i] /\ j + k \in DOMAIN s /\ r[j] = s[j + k]
          /\ i < j + k
    BY <1>2, <1>3, <1>4
  <2> QED
    BY <2>1 DEF Increasing, Before
<1> QED
  BY <1>1, <1>3, <1>4, <1>6, <1>7, <1>8, <1>9

LEMMA NoList == None # <<>>
<1>1. <<>> \in Seq(AllCommands)
  OBVIOUS
<1> QED
  BY <1>1, BatchesAssumption

LEMMA NoCommands ==
    /\ Range(<<>>) = {} /\ IsInjective(<<>>) /\ Increasing(<<>>)
    /\ \A x : Before(x, <<>>) /\ Before(<<>>, x)
  BY DEF Range, IsInjective, Increasing, Before

--------------------------------------------------------------------------------
(* The first states *)

LEMMA Places ==
    /\ Increasing(Commands["arp"]) /\ Increasing(Commands["routes"])
    /\ Before(Commands["arp"], Commands["routes"])
    /\ \A t \in Tasks : Commands[t] \in Seq(AllCommands) /\ IsInjective(Commands[t])
    /\ Range(Commands["arp"]) \cap Range(Commands["routes"]) = {}
<1> DEFINE a == Commands["arp"]
           r == Commands["routes"]
<1>1. a \in Seq(AllCommands) /\ r \in Seq(AllCommands) /\ IsInjective(Asked) /\ Asked = a \o r
  BY BatchesAssumption DEF Tasks, Asked
<1> HIDE DEF a, r
<1>2. \A k \in DOMAIN Asked : Place(Asked[k]) = k
  BY <1>1 DEF Place, IsInjective
<1>3. /\ \A i \in DOMAIN a : i \in DOMAIN Asked /\ Asked[i] = a[i]
      /\ \A j \in DOMAIN r : Len(a) + j \in DOMAIN Asked /\ Asked[Len(a) + j] = r[j]
      /\ DOMAIN a = 1 .. Len(a) /\ DOMAIN r = 1 .. Len(r) /\ Len(a) \in Nat /\ Len(r) \in Nat
  BY <1>1
<1>4. \A i \in DOMAIN a : Place(a[i]) = i
  BY <1>2, <1>3
<1>5. \A j \in DOMAIN r : Place(r[j]) = Len(a) + j
  BY <1>2, <1>3
<1>6. Increasing(a) /\ IsInjective(a)
  BY <1>3, <1>4 DEF Increasing, IsInjective
<1>7. Increasing(r)
  BY <1>3, <1>5 DEF Increasing
<1>8. IsInjective(r)
  <2> SUFFICES ASSUME NEW i \in DOMAIN r, NEW j \in DOMAIN r, r[i] = r[j]
               PROVE  i = j
    BY DEF IsInjective
  <2>1. Len(a) + i = Len(a) + j
    BY <1>5
  <2> QED
    BY <1>3, <2>1
<1>9. Before(a, r)
  BY <1>3, <1>4, <1>5 DEF Before
<1>10. Range(a) \cap Range(r) = {}
  <2>1. \A i \in DOMAIN a, j \in DOMAIN r : Place(a[i]) # Place(r[j])
    BY <1>3, <1>4, <1>5
  <2> QED
    BY <2>1 DEF Range
<1> QED
  BY <1>1, <1>6, <1>7, <1>8, <1>9, <1>10 DEF a, r, Tasks

LEMMA InitIInv == Init => IInv
<1> SUFFICES ASSUME Init PROVE IInv
  OBVIOUS
<1>1. /\ mode \in Modes /\ main = (IF mode = "serial" THEN "arp" ELSE "routes")
      /\ pc \in [Tasks -> {"idle", "add"}]
      /\ pc["arp"] = (IF mode = "tunnels" THEN "idle" ELSE "add")
      /\ pc["routes"] = (IF mode = "serial" THEN "idle" ELSE "add")
      /\ todo = Commands /\ batch = None /\ log = <<>> /\ installed = {} /\ lost = FALSE
      /\ part = [t \in Tasks |-> <<>>] /\ rest = [t \in Tasks |-> <<>>]
      /\ attempts = [t \in Tasks |-> 0] /\ held = {}
      /\ Queue = <<>>
  BY DEF Init, Modes, Tasks, Queue
<1>2. Commands \in [Tasks -> Seq(AllCommands)] /\ MaxAttempts \in Nat
  BY BatchesAssumption
<1>3. TypeOK
  <2>1. <<>> \in Seq(AllCommands) /\ 0 \in 0 .. MaxAttempts
    BY <1>2
  <2>2. /\ part \in [Tasks -> Seq(AllCommands)] /\ rest \in [Tasks -> Seq(AllCommands)]
        /\ attempts \in [Tasks -> 0 .. MaxAttempts]
    BY <1>1, <2>1
  <2> QED
    BY <1>1, <1>2, <2>1, <2>2 DEF TypeOK, TaskPC
<1>4. Turns
  BY <1>1 DEF Turns, Tasks, Appending
<1>5. Kept
  BY <1>1 DEF Kept, OnItsWay, CommandsOf, Range, Appending
<1>6. Order
  BY <1>1, Places, NoCommands DEF Order, OrderOf, RoutesLater, Tasks, Appending
<1>7. Distinct
  BY <1>1, Places, NoCommands DEF Distinct, Tasks
<1>8. Once
  BY <1>1, NoCommands DEF Once
<1> QED
  BY <1>3, <1>4, <1>5, <1>6, <1>7, <1>8 DEF IInv

--------------------------------------------------------------------------------
(* Steps of a task *)

Busy(t) == pc[t] \notin {"idle", "ok", "failed"}
Moves(t, p) == pc' = [pc EXCEPT ![t] = p]

LEMMA Moved ==
    ASSUME IInv, NEW t \in Tasks, NEW p \in TaskPC, Moves(t, p)
    PROVE  /\ pc' \in [Tasks -> TaskPC] /\ pc'[t] = p
           /\ \A u \in Tasks \ {t} : pc'[u] = pc[u]
  BY DEF IInv, TypeOK, Moves

LEMMA TurnsKept ==
    ASSUME IInv, NEW t \in Tasks, NEW p \in TaskPC \ {"idle"}, Moves(t, p), Busy(t),
           UNCHANGED <<mode, main>>,
           \A u \in Tasks : pc'[u] \in Appending => todo'[u] # <<>>,
           held' # {} => batch' # None
    PROVE  Turns'
<1>1. /\ pc' \in [Tasks -> TaskPC] /\ pc'[t] = p
      /\ \A u \in Tasks \ {t} : pc'[u] = pc[u]
  BY Moved
<1>2. mode = "serial" => IF main = "arp" THEN pc'["routes"] = "idle" ELSE Ended("arp")'
  <2>1. mode = "serial" /\ main = "arp" => t = "arp"
    BY DEF IInv, Turns, Busy, Tasks
  <2>2. mode = "serial" /\ main # "arp" => t = "routes"
    BY DEF IInv, Turns, Busy, Tasks, Ended
  <2> QED
    BY <1>1, <2>1, <2>2 DEF IInv, Turns, Ended, Tasks
<1>3. mode = "tunnels" => pc'["arp"] = "idle"
  BY <1>1 DEF IInv, Turns, Busy, Tasks
<1>4. mode # "serial" => main # "arp" /\ pc'["routes"] # "idle" /\ main # "built"
  BY <1>1 DEF IInv, Turns, Busy, Tasks
<1> QED
  BY <1>2, <1>3, <1>4 DEF Turns

(* Where tasks have turns, the others do nothing. *)
LEMMA OthersWait ==
    ASSUME IInv, NEW t \in Tasks, NEW p \in TaskPC, Moves(t, p), Busy(t), Alone,
           \A u \in Tasks \ {t} : todo'[u] = todo[u],
           installed \subseteq installed'
    PROVE  \A u \in Tasks \ {t} : OnItsWay(u)' /\ OrderOf(u)'
<1> SUFFICES ASSUME NEW u \in Tasks \ {t}
             PROVE  OnItsWay(u)' /\ OrderOf(u)'
  OBVIOUS
<1>1. pc[u] \in {"idle", "ok", "failed"}
  <2>1. mode \in {"serial", "tunnels"}
    BY DEF IInv, TypeOK, Modes, Alone
  <2> QED
    BY <2>1 DEF IInv, Turns, Busy, Tasks, Ended
<1>2. pc'[u] = pc[u] /\ todo'[u] = todo[u]
  BY Moved
<1>3. OnItsWay(u)
  BY DEF IInv, Kept
<1> QED
  BY <1>1, <1>2, <1>3 DEF OnItsWay, OrderOf, Appending

(* A step that moves no command: t goes from one place to the next, or fails. *)
Follows(t, p) ==
    \/ p = "failed"
    \/ p = pc[t] /\ p \notin Appending
    \/ pc[t] = "add" /\ batch = None /\ p = "create"
    \/ pc[t] \in {"add", "create"} /\ p = "load"
    \/ pc[t] = "load" /\ p = "append"
    \/ pc[t] = "add" /\ todo[t] = <<>> /\ p = "log"
    \/ pc[t] = "add" /\ todo[t] = <<>> /\ Queue = <<>> /\ p = "ok"
    \/ pc[t] = "log" /\ p = "loop"
    \/ pc[t] = "loop" /\ p = "length"
    \/ pc[t] = "length" /\ p = "take"
    \/ pc[t] \in {"loop", "length"} /\ Queue = <<>> /\ p = "reset"
    \/ t = "routes" /\ pc[t] = "idle" /\ p = "add"

LEMMA QuietStep ==
    ASSUME IInv, NEW t \in Tasks, NEW p \in TaskPC, Moves(t, p), pc[t] # "failed",
           Queue' = Queue, UNCHANGED <<mode, todo, part, rest, log, installed, lost>>,
           Follows(t, p),
           p = "create" => batch' = None,
           p = "append" => t \in held',
           Alone => \A u \in Tasks \ {t} : pc[u] \notin Appending
    PROVE  Kept' /\ Order' /\ Distinct' /\ Once'
<1>1. /\ pc'[t] = p
      /\ \A u \in Tasks \ {t} : pc'[u] = pc[u]
  BY Moved
<1>2. Kept'
  <2> SUFFICES ASSUME Alone, NEW u \in Tasks
               PROVE  OnItsWay(u)'
    BY DEF Kept, Alone
  <2>1. OnItsWay(u)
    BY DEF IInv, Kept
  <2>2. CASE u # t
    <3>1. pc'[u] = pc[u] /\ pc[u] \notin Appending
      BY <1>1, <2>2
    <3> QED
      BY <2>1, <3>1 DEF OnItsWay, Appending
  <2>3. CASE u = t
    <3>1. OnItsWay(t) /\ pc'[t] = p
      BY <1>1, <2>1, <2>3
    <3>2. OnItsWay(t)'
      BY <3>1, NoCommands DEF OnItsWay, Follows, Appending
    <3> QED
      BY <2>3, <3>2
  <2> QED
    BY <2>2, <2>3
<1>3. Order'
  <2> SUFFICES ASSUME Alone, ~lost
               PROVE  Order'
    BY DEF Order, Alone
  <2>1. /\ Increasing(log) /\ Increasing(Queue) /\ Before(log, Queue)
        /\ \A u \in Tasks : OrderOf(u)
        /\ RoutesLater
    BY DEF IInv, Order
  <2>2. ASSUME NEW u \in Tasks \ {t} PROVE OrderOf(u)'
    BY <1>1, <2>1 DEF OrderOf
  <2>3. OrderOf(t)'
    BY <1>1, <2>1 DEF OrderOf, RoutesLater, Follows, Appending
  <2>4. RoutesLater'
    BY <1>1, <2>1 DEF RoutesLater, Tasks, Follows, Appending
  <2> QED
    BY <2>1, <2>2, <2>3, <2>4 DEF Order
<1>4. Distinct'
  BY DEF IInv, Distinct
<1>5. Once'
  BY <1>1 DEF IInv, Once, Follows
<1> QED
  BY <1>2, <1>3, <1>4, <1>5

LEMMA OthersIdle ==
    ASSUME IInv, NEW t \in Tasks, Busy(t), Alone
    PROVE  \A u \in Tasks \ {t} : pc[u] \in {"idle", "ok", "failed"}
<1>1. mode \in {"serial", "tunnels"}
  BY DEF IInv, TypeOK, Modes, Alone
<1> QED
  BY <1>1 DEF IInv, Turns, Busy, Tasks, Ended

(* Steps that only look at the batch, or end the task. *)
LEMMA QuietIInv ==
    ASSUME IInv, NEW t \in Tasks,
           \/ t = "arp" /\ LookupFails
           \/ TestBatch(t) \/ LoadBatch(t) \/ Commit(t) \/ LogBatch(t)
           \/ CommitLoop(t) \/ LengthOfBatch(t)
           \/ RunRefused(t) \/ RunBreaks(t)
           \/ CreateBatch(t) /\ batch = None
           \/ TakePart(t) /\ batch = None
    PROVE  IInv'
<1>1. PICK p \in TaskPC \ {"idle"} :
        /\ Moves(t, p) /\ Busy(t) /\ Queue' = Queue
        /\ UNCHANGED <<mode, main, todo, part, rest, log, installed, lost>>
        /\ batch' \in {batch, <<>>} /\ attempts' \in [Tasks -> 0 .. MaxAttempts]
        /\ held' \subseteq Tasks /\ (held' # {} => batch' # None)
        /\ p \in Appending => todo[t] # <<>>
        /\ p = "create" => batch' = None
        /\ p = "append" => t \in held'
        /\ Follows(t, p)
  <2>1. /\ pc \in [Tasks -> TaskPC] /\ attempts \in [Tasks -> 0 .. MaxAttempts]
        /\ held \subseteq Tasks /\ (held # {} => batch # None)
        /\ pc[t] \in Appending => todo[t] # <<>>
    BY DEF IInv, TypeOK, Turns
  <2>2. CASE t = "arp" /\ LookupFails
    BY <2>1, <2>2 DEF LookupFails, Go, Moves, Busy, Queue, TaskPC, Follows, Appending
  <2>3. CASE CreateBatch(t) /\ batch = None
    BY <2>1, <2>3, NoList DEF CreateBatch, Go, Moves, Busy, Queue, TaskPC, Follows, Appending
  <2>4. CASE Commit(t)
    <3>1. CASE batch = None
      BY <2>1, <2>4, <3>1 DEF Commit, Go, Moves, Busy, Queue, TaskPC, Follows, Appending
    <3>2. CASE batch # None
      BY <2>1, <2>4, <3>2 DEF Commit, Go, Moves, Busy, Queue, TaskPC, Follows, Appending
    <3> QED
      BY <3>1, <3>2
  <2>5. CASE LogBatch(t)
    BY <2>1, <2>5 DEF LogBatch, Go, Moves, Busy, Queue, TaskPC, Follows, Appending
  <2>6. CASE CommitLoop(t)
    BY <2>1, <2>6 DEF CommitLoop, Go, Moves, Busy, Queue, TaskPC, Follows, Appending
  <2>7. CASE RunRefused(t)
    <3>1. CASE attempts[t] < MaxAttempts
      <4>1. attempts' \in [Tasks -> 0 .. MaxAttempts] /\ Moves(t, "run") /\ pc[t] = "run"
        BY <2>1, <2>7, <3>1, BatchesAssumption DEF RunRefused, TryAgain, Moves
      <4> QED
        BY <2>1, <2>7, <4>1 DEF RunRefused, Busy, Queue, TaskPC, Follows, Appending
    <3>2. CASE ~(attempts[t] < MaxAttempts)
      BY <2>1, <2>7, <3>2 DEF RunRefused, TryAgain, Go, Moves, Busy, Queue, TaskPC, Follows, Appending
    <3> QED
      BY <3>1, <3>2
  <2>8. CASE RunBreaks(t)
    BY <2>1, <2>8 DEF RunBreaks, Go, Moves, Busy, Queue, TaskPC, Follows, Appending
  <2>9. CASE TestBatch(t)
    <3>1. CASE batch = None
      BY <2>1, <2>9, <3>1 DEF TestBatch, Go, Moves, Busy, Queue, TaskPC, Follows, Appending
    <3>2. CASE batch # None
      BY <2>1, <2>9, <3>2 DEF TestBatch, Go, Moves, Busy, Queue, TaskPC, Follows, Appending
    <3> QED
      BY <3>1, <3>2
  <2>10. CASE TakePart(t) /\ batch = None
    BY <2>1, <2>10 DEF TakePart, Go, Moves, Busy, Queue, TaskPC, Follows, Appending
  <2>11. CASE LoadBatch(t)
    <3>1. CASE batch = None
      BY <2>1, <2>11, <3>1 DEF LoadBatch, Go, Moves, Busy, Queue, TaskPC, Follows, Appending
    <3>2. CASE batch # None
      BY <2>1, <2>11, <3>2 DEF LoadBatch, Go, Moves, Busy, Queue, TaskPC, Follows, Appending
    <3> QED
      BY <3>1, <3>2
  <2>12. CASE LengthOfBatch(t)
    <3>1. pc[t] = "length" /\ UNCHANGED <<mode, main, todo, batch, held, part, rest, attempts, log, installed, lost>>
      BY <2>12 DEF LengthOfBatch
    <3>2. CASE batch = None
      BY <2>1, <2>12, <3>1, <3>2, NoList DEF LengthOfBatch, Go, Moves, Busy, Queue, TaskPC, Follows, Appending
    <3>3. CASE batch # None /\ batch = <<>>
      BY <2>1, <2>12, <3>1, <3>3 DEF LengthOfBatch, Go, Moves, Busy, Queue, TaskPC, Follows, Appending
    <3>4. CASE batch # None /\ batch # <<>>
      BY <2>1, <2>12, <3>1, <3>4 DEF LengthOfBatch, Go, Moves, Busy, Queue, TaskPC, Follows, Appending
    <3> QED
      BY <3>2, <3>3, <3>4
  <2> QED
    BY <2>2, <2>3, <2>4, <2>5, <2>6, <2>7, <2>8, <2>9, <2>10, <2>11, <2>12
<1>2. Kept' /\ Order' /\ Distinct' /\ Once'
  <2>1. Alone => \A u \in Tasks \ {t} : pc[u] \notin Appending
    BY <1>1, OthersIdle DEF Appending
  <2> QED
    BY <1>1, <2>1, QuietStep DEF Busy
<1>3. \A u \in Tasks : pc'[u] \in Appending => todo'[u] # <<>>
  BY <1>1, Moved DEF IInv, Turns
<1>4. Turns'
  BY <1>1, <1>3, TurnsKept
<1>5. TypeOK'
  <2>1. pc' \in [Tasks -> TaskPC]
    BY <1>1, Moved
  <2>2. batch' \in Seq(AllCommands) \cup {None}
    <3>1. <<>> \in Seq(AllCommands) /\ batch \in Seq(AllCommands) \cup {None}
      BY DEF IInv, TypeOK
    <3> QED
      BY <1>1, <3>1
  <2> QED
    BY <1>1, <2>1, <2>2 DEF IInv, TypeOK
<1> QED
  BY <1>2, <1>4, <1>5 DEF IInv

(* In macvlan mode a new list may take the place of that of the other task.   *)
LEMMA ReplaceIInv ==
    ASSUME IInv, NEW t \in Tasks, CreateBatch(t), batch # None
    PROVE  IInv'
<1>1. /\ Moves(t, "load") /\ pc[t] = "create" /\ Busy(t) /\ batch' = <<>> /\ Queue' = <<>>
      /\ held' = {} /\ todo[t] # <<>>
      /\ UNCHANGED <<mode, main, todo, part, rest, attempts, log, installed, lost>>
  BY DEF CreateBatch, Go, Moves, Busy, Queue, IInv, Turns, Appending
<1>2. /\ pc' \in [Tasks -> TaskPC] /\ pc'[t] = "load"
      /\ \A u \in Tasks \ {t} : pc'[u] = pc[u]
  BY <1>1, Moved DEF TaskPC
<1>3. ~Alone /\ ~Alone'
  BY <1>1 DEF IInv, Kept, OnItsWay, Alone
<1>4. TypeOK'
  <2>1. <<>> \in Seq(AllCommands)
    OBVIOUS
  <2> QED
    BY <1>1, <1>2, <2>1 DEF IInv, TypeOK
<1>5. Turns'
  <2>1. \A u \in Tasks : pc'[u] \in Appending => todo'[u] # <<>>
    BY <1>1, <1>2 DEF IInv, Turns
  <2> QED
    BY <1>1, <2>1, TurnsKept DEF TaskPC
<1>6. Kept' /\ Order'
  BY <1>3 DEF Kept, Order
<1>7. Distinct'
  BY <1>1, NoCommands DEF IInv, Distinct
<1>8. Once'
  BY <1>1, <1>2 DEF IInv, Once
<1> QED
  BY <1>4, <1>5, <1>6, <1>7, <1>8 DEF IInv

(* And what is appended to a list that is not the batch any more is lost.     *)
LEMMA LoseIInv ==
    ASSUME IInv, NEW t \in Tasks, AppendCommand(t), t \notin held
    PROVE  IInv'
<1> DEFINE s == todo[t]
<1>1. /\ Moves(t, "add") /\ pc[t] = "append" /\ Busy(t) /\ s # <<>> /\ s \in Seq(AllCommands)
      /\ todo' = [todo EXCEPT ![t] = Tail(s)] /\ Queue' = Queue
      /\ UNCHANGED <<mode, main, batch, held, part, rest, attempts, log, installed, lost>>
  BY DEF AppendCommand, Go, Moves, Busy, IInv, TypeOK, Turns, Queue, Appending
<1>2. ~Alone /\ ~Alone'
  BY <1>1 DEF IInv, Kept, OnItsWay, Alone
<1> HIDE DEF s
<1>3. /\ Tail(s) \in Seq(AllCommands)
      /\ Range(s) = {Head(s)} \cup Range(Tail(s))
      /\ IsInjective(s) => IsInjective(Tail(s))
  BY <1>1, FirstOf
<1>4. /\ pc' \in [Tasks -> TaskPC] /\ pc'[t] = "add"
      /\ \A u \in Tasks \ {t} : pc'[u] = pc[u]
  BY <1>1, Moved DEF TaskPC
<1>5. /\ todo' \in [Tasks -> Seq(AllCommands)] /\ todo'[t] = Tail(s)
      /\ \A u \in Tasks \ {t} : todo'[u] = todo[u]
  BY <1>1, <1>3 DEF IInv, TypeOK
<1>6. TypeOK'
  BY <1>1, <1>4, <1>5 DEF IInv, TypeOK
<1>7. Turns'
  <2>1. \A u \in Tasks : pc'[u] \in Appending => todo'[u] # <<>>
    BY <1>4, <1>5 DEF IInv, Turns, Appending
  <2> QED
    BY <1>1, <2>1, TurnsKept DEF TaskPC, IInv, Turns
<1>8. Kept' /\ Order'
  BY <1>2 DEF Kept, Order
<1>9. Distinct'
  <2>1. \A u \in Tasks : Range(todo'[u]) \subseteq Range(todo[u]) /\ IsInjective(todo'[u])
    BY <1>3, <1>5 DEF s, IInv, Distinct
  <2>2. Range(todo'["arp"]) \cap Range(todo'["routes"]) = {}
    BY <2>1 DEF IInv, Distinct, Tasks
  <2> QED
    BY <1>1, <2>1, <2>2 DEF IInv, Distinct
<1>10. Once'
  BY <1>1, <1>4 DEF IInv, Once
<1> QED
  BY <1>6, <1>7, <1>8, <1>9, <1>10 DEF IInv

LEMMA QueueIsSeq == ASSUME IInv PROVE Queue \in Seq(AllCommands)
  BY DEF IInv, TypeOK, Queue

LEMMA AppendIInv ==
    ASSUME IInv, NEW t \in Tasks, AppendCommand(t), t \in held
    PROVE  IInv'
<1> DEFINE s == todo[t]
           h == <<Head(s)>>
<1>1. /\ Moves(t, "add") /\ pc[t] = "append" /\ Busy(t) /\ s # <<>> /\ s \in Seq(AllCommands)
      /\ batch' = Append(batch, Head(s)) /\ todo' = [todo EXCEPT ![t] = Tail(s)]
      /\ Queue = batch /\ batch \in Seq(AllCommands) /\ held' = held \ {t} /\ held \subseteq Tasks
      /\ UNCHANGED <<mode, main, part, rest, attempts, log, installed, lost>>
  BY DEF AppendCommand, Go, Moves, Busy, IInv, TypeOK, Turns, Queue, Appending
<1> HIDE DEF s
<1>2. /\ h \in Seq(AllCommands) /\ Tail(s) \in Seq(AllCommands)
      /\ Range(h) = {Head(s)} /\ IsInjective(h) /\ Increasing(h)
      /\ Range(s) = {Head(s)} \cup Range(Tail(s))
      /\ IsInjective(s) => IsInjective(Tail(s)) /\ Head(s) \notin Range(Tail(s))
      /\ Increasing(s) => Increasing(Tail(s)) /\ Before(h, Tail(s))
      /\ \A x : (Before(x, s) => Before(x, Tail(s)) /\ Before(x, h))
                /\ (Before(s, x) => Before(Tail(s), x) /\ Before(h, x))
  BY <1>1, FirstOf
<1>3. Head(s) \in AllCommands
  BY <1>1
<1>4. /\ batch' = batch \o h /\ batch' \in Seq(AllCommands)
      /\ Queue' = Queue \o h
  <2>1. batch' = batch \o h /\ batch' \in Seq(AllCommands)
    BY <1>1, <1>3, AppendIsConcat, AppendProperties
  <2>2. batch' # None
    BY <2>1, BatchesAssumption
  <2> QED
    BY <1>1, <2>1, <2>2 DEF Queue
<1> HIDE DEF h
<1>5. /\ Range(Queue') = Range(Queue) \cup Range(h)
      /\ IsInjective(Queue) /\ IsInjective(h) /\ Range(Queue) \cap Range(h) = {} => IsInjective(Queue')
      /\ Increasing(Queue) /\ Increasing(h) /\ Before(Queue, h) => Increasing(Queue')
      /\ \A x : Before(Queue, x) /\ Before(h, x) => Before(Queue', x)
      /\ \A x : Before(x, Queue) /\ Before(x, h) => Before(x, Queue')
  BY <1>1, <1>2, <1>4, Joined
<1>6. /\ pc' \in [Tasks -> TaskPC] /\ pc'[t] = "add"
      /\ \A u \in Tasks \ {t} : pc'[u] = pc[u]
  BY <1>1, Moved DEF TaskPC
<1>7. /\ todo' \in [Tasks -> Seq(AllCommands)] /\ todo'[t] = Tail(s)
      /\ \A u \in Tasks \ {t} : todo'[u] = todo[u]
  BY <1>1, <1>2 DEF IInv, TypeOK
<1>8. TypeOK'
  BY <1>1, <1>4, <1>6, <1>7 DEF IInv, TypeOK
<1>9. Turns'
  <2>1. \A u \in Tasks : pc'[u] \in Appending => todo'[u] # <<>>
    BY <1>6, <1>7 DEF IInv, Turns, Appending
  <2>2. batch' # None
    BY <1>4, BatchesAssumption
  <2> QED
    BY <1>1, <2>1, <2>2, TurnsKept DEF TaskPC
<1>10. Alone => \A u \in Tasks \ {t} : OnItsWay(u)' /\ OrderOf(u)'
  BY <1>1, <1>7, OthersWait DEF TaskPC
<1>11. Kept'
  <2> SUFFICES ASSUME Alone
               PROVE  \A u \in Tasks : OnItsWay(u)'
    BY <1>1 DEF Kept, Alone
  <2>1. CommandsOf(t) \subseteq installed \cup Range(Queue) \cup Range(s)
    BY <1>1 DEF IInv, Kept, OnItsWay, Appending, s
  <2>2. CommandsOf(t) \subseteq installed' \cup Range(Queue') \cup Range(todo'[t])
    BY <1>1, <1>2, <1>5, <1>7, <2>1
  <2>3. OnItsWay(t)'
    BY <1>6, <2>2 DEF OnItsWay, Appending
  <2> QED
    BY <1>10, <2>3
<1>12. Order'
  <2> SUFFICES ASSUME Alone, ~lost
               PROVE  Order'
    BY <1>1 DEF Order, Alone
  <2>1. /\ Increasing(log) /\ Increasing(Queue) /\ Before(log, Queue)
        /\ Increasing(s) /\ Before(log, s) /\ Before(Queue, s)
        /\ RoutesLater
    BY <1>1 DEF IInv, Order, OrderOf, Appending, s
  <2>2. Increasing(Queue') /\ Before(log', Queue')
    BY <1>1, <1>2, <1>5, <2>1
  <2>3. OrderOf(t)'
    <3>1. Increasing(todo'[t]) /\ Before(log', todo'[t]) /\ Before(Queue', todo'[t])
      BY <1>1, <1>2, <1>5, <1>7, <2>1
    <3> QED
      BY <1>6, <3>1 DEF OrderOf, Appending
  <2>4. RoutesLater'
    <3> SUFFICES ASSUME pc'["routes"] = "idle"
                 PROVE  RoutesLater'
      BY DEF RoutesLater
    <3>1. t = "arp" /\ pc["routes"] = "idle" /\ todo'["routes"] = todo["routes"]
      BY <1>6, <1>7 DEF Tasks
    <3>2. /\ Increasing(todo["routes"]) /\ Before(log, todo["routes"])
          /\ Before(Queue, todo["routes"]) /\ Before(s, todo["routes"])
      BY <1>1, <2>1, <3>1 DEF RoutesLater, Appending, s
    <3>3. Before(Queue', todo["routes"]) /\ Before(todo'["arp"], todo["routes"])
      BY <1>2, <1>5, <1>7, <3>1, <3>2
    <3> QED
      BY <1>1, <1>6, <3>1, <3>2, <3>3 DEF RoutesLater, Appending
  <2> QED
    BY <1>1, <1>10, <2>1, <2>2, <2>3, <2>4 DEF Order
<1>13. Distinct'
  <2>1. /\ IsInjective(Queue) /\ IsInjective(s) /\ Range(s) \cap Range(Queue) = {}
        /\ \A u \in Tasks : Range(s) \cap Range(rest[u]) = {}
        /\ \A u \in Tasks \ {t} : Range(todo[u]) \cap Range(s) = {}
    BY DEF IInv, Distinct, s, Tasks
  <2>2. IsInjective(Queue')
    BY <1>2, <1>5, <2>1
  <2>3. IsInjective(todo'[t]) /\ Range(todo'[t]) \cap Range(Queue') = {}
    BY <1>2, <1>5, <1>7, <2>1
  <2>4. ASSUME NEW u \in Tasks \ {t}
        PROVE  IsInjective(todo'[u]) /\ Range(todo'[u]) \cap Range(Queue') = {}
    BY <1>2, <1>5, <1>7, <2>1 DEF IInv, Distinct
  <2>5. \A u \in Tasks : Range(todo'[u]) \subseteq Range(todo[u])
    BY <1>2, <1>7 DEF s
  <2>6. \A u, w \in Tasks : Range(todo'[u]) \cap Range(rest'[w]) = {}
    BY <1>1, <2>5 DEF IInv, Distinct
  <2>7. Range(todo'["arp"]) \cap Range(todo'["routes"]) = {}
    BY <2>5 DEF IInv, Distinct, Tasks
  <2>8. \A u \in Tasks : IsInjective(part'[u]) /\ IsInjective(rest'[u])
    BY <1>1 DEF IInv, Distinct
  <2> QED
    BY <2>2, <2>3, <2>4, <2>6, <2>7, <2>8 DEF Distinct
<1>14. Once'
  BY <1>1, <1>6 DEF IInv, Once
<1> QED
  BY <1>8, <1>9, <1>11, <1>12, <1>13, <1>14 DEF IInv

LEMMA TakeIInv ==
    ASSUME IInv, NEW t \in Tasks, TakePart(t), batch # None
    PROVE  IInv'
<1> DEFINE p == JoinTake(batch)[1]
           r == JoinTake(batch)[2]
<1>1. /\ Moves(t, "store") /\ pc[t] = "take" /\ Busy(t)
      /\ part' = [part EXCEPT ![t] = p] /\ rest' = [rest EXCEPT ![t] = r]
      /\ Queue' = Queue /\ Queue = batch /\ batch \in Seq(AllCommands)
      /\ UNCHANGED <<mode, main, todo, batch, held, attempts, log, installed, lost>>
  BY DEF TakePart, Go, Moves, Busy, IInv, TypeOK, Queue
<1>2. /\ p \in Seq(AllCommands) /\ r \in Seq(AllCommands) /\ Range(batch) = Range(p) \cup Range(r)
      /\ IsInjective(batch) => IsInjective(p) /\ IsInjective(r)
      /\ Increasing(batch) => Increasing(p) /\ Increasing(r) /\ Before(p, r)
      /\ \A x : (Before(x, batch) => Before(x, p) /\ Before(x, r))
                /\ (Before(batch, x) => Before(p, x) /\ Before(r, x))
  BY <1>1, JoinTakeSplits
<1> HIDE DEF p, r
<1>3. /\ pc' \in [Tasks -> TaskPC] /\ pc'[t] = "store"
      /\ \A u \in Tasks \ {t} : pc'[u] = pc[u]
  BY <1>1, Moved DEF TaskPC
<1>4. /\ part' \in [Tasks -> Seq(AllCommands)] /\ part'[t] = p
      /\ rest' \in [Tasks -> Seq(AllCommands)] /\ rest'[t] = r
      /\ \A u \in Tasks \ {t} : part'[u] = part[u] /\ rest'[u] = rest[u]
  BY <1>1, <1>2 DEF IInv, TypeOK
<1>5. TypeOK'
  BY <1>1, <1>3, <1>4 DEF IInv, TypeOK
<1>6. Turns'
  <2>1. \A u \in Tasks : pc'[u] \in Appending => todo'[u] # <<>>
    BY <1>1, <1>3 DEF IInv, Turns, Appending
  <2> QED
    BY <1>1, <2>1, TurnsKept DEF TaskPC, IInv, Turns
<1>7. Alone => \A u \in Tasks \ {t} : OnItsWay(u)' /\ OrderOf(u)'
  BY <1>1, OthersWait DEF TaskPC
<1>8. Kept'
  <2> SUFFICES ASSUME Alone
               PROVE  \A u \in Tasks : OnItsWay(u)'
    BY <1>1 DEF Kept, Alone
  <2>1. CommandsOf(t) \subseteq installed \cup Range(batch)
    BY <1>1 DEF IInv, Kept, OnItsWay
  <2>2. OnItsWay(t)'
    BY <1>1, <1>2, <1>3, <1>4, <2>1 DEF OnItsWay, Appending
  <2> QED
    BY <1>7, <2>2
<1>9. Order'
  <2> SUFFICES ASSUME Alone, ~lost
               PROVE  Order'
    BY <1>1 DEF Order, Alone
  <2>1. Increasing(log) /\ Increasing(batch) /\ Before(log, batch) /\ RoutesLater
    BY <1>1 DEF IInv, Order
  <2>2. OrderOf(t)'
    BY <1>1, <1>2, <1>3, <1>4, <2>1 DEF OrderOf, Appending
  <2>3. RoutesLater'
    BY <1>1, <1>2, <1>3, <1>4, <2>1 DEF RoutesLater, Tasks, Appending
  <2> QED
    BY <1>1, <1>7, <2>1, <2>2, <2>3 DEF Order
<1>10. Distinct'
  <2>1. \A u \in Tasks : IsInjective(part'[u]) /\ IsInjective(rest'[u])
    BY <1>1, <1>2, <1>4 DEF IInv, Distinct
  <2>2. \A u, w \in Tasks : Range(todo[u]) \cap Range(rest'[w]) = {}
    <3>1. Range(r) \subseteq Range(batch)
      BY <1>2
    <3> QED
      BY <1>1, <1>4, <3>1 DEF IInv, Distinct
  <2> QED
    BY <1>1, <2>1, <2>2 DEF IInv, Distinct
<1>11. Once'
  BY <1>1, <1>3 DEF IInv, Once
<1> QED
  BY <1>5, <1>6, <1>8, <1>9, <1>10, <1>11 DEF IInv

LEMMA StoreIInv ==
    ASSUME IInv, NEW t \in Tasks, StoreRest(t)
    PROVE  IInv'
<1>1. /\ Moves(t, "run") /\ pc[t] = "store" /\ Busy(t) /\ batch' = rest[t] /\ held' = {}
      /\ rest[t] \in Seq(AllCommands) /\ Queue' = rest[t]
      /\ attempts' \in [Tasks -> 0 .. MaxAttempts]
      /\ UNCHANGED <<mode, main, todo, part, rest, log, installed, lost>>
  <2>1. rest[t] \in Seq(AllCommands) /\ batch' = rest[t]
    BY DEF StoreRest, IInv, TypeOK
  <2>2. Queue' = rest[t]
    BY <2>1, BatchesAssumption DEF Queue
  <2>3. attempts' \in [Tasks -> 0 .. MaxAttempts]
    BY BatchesAssumption DEF StoreRest, IInv, TypeOK
  <2> QED
    BY <2>1, <2>2, <2>3 DEF StoreRest, Go, Moves, Busy
<1>2. /\ pc' \in [Tasks -> TaskPC] /\ pc'[t] = "run"
      /\ \A u \in Tasks \ {t} : pc'[u] = pc[u]
  BY <1>1, Moved DEF TaskPC
<1>3. TypeOK'
  BY <1>1, <1>2 DEF IInv, TypeOK
<1>4. Turns'
  <2>1. \A u \in Tasks : pc'[u] \in Appending => todo'[u] # <<>>
    BY <1>1, <1>2 DEF IInv, Turns, Appending
  <2> QED
    BY <1>1, <2>1, TurnsKept DEF TaskPC
<1>5. Alone => \A u \in Tasks \ {t} : OnItsWay(u)' /\ OrderOf(u)'
  BY <1>1, OthersWait DEF TaskPC
<1>6. Kept'
  <2> SUFFICES ASSUME Alone
               PROVE  \A u \in Tasks : OnItsWay(u)'
    BY <1>1 DEF Kept, Alone
  <2>1. CommandsOf(t) \subseteq installed \cup Range(part[t]) \cup Range(rest[t])
    BY <1>1 DEF IInv, Kept, OnItsWay
  <2>2. OnItsWay(t)'
    BY <1>1, <1>2, <2>1 DEF OnItsWay, Appending
  <2> QED
    BY <1>5, <2>2
<1>7. Order'
  <2> SUFFICES ASSUME Alone, ~lost
               PROVE  Order'
    BY <1>1 DEF Order, Alone
  <2>1. OrderOf(t) /\ Increasing(log) /\ RoutesLater
    BY DEF IInv, Order
  <2>2. OrderOf(t)'
    BY <1>1, <1>2, <2>1 DEF OrderOf, Appending
  <2>3. RoutesLater'
    BY <1>1, <1>2, <2>1 DEF RoutesLater, Tasks, Appending
  <2>4. Increasing(Queue') /\ Before(log, Queue')
    BY <1>1, <2>1 DEF OrderOf, Appending
  <2> QED
    BY <1>1, <1>5, <2>1, <2>2, <2>3, <2>4 DEF Order
<1>8. Distinct'
  BY <1>1 DEF IInv, Distinct
<1>9. Once'
  BY <1>1, <1>2 DEF IInv, Once
<1> QED
  BY <1>3, <1>4, <1>6, <1>7, <1>8, <1>9 DEF IInv

LEMMA ResetIInv ==
    ASSUME IInv, NEW t \in Tasks, ResetBatch(t)
    PROVE  IInv'
<1>1. /\ Moves(t, "ok") /\ pc[t] = "reset" /\ Busy(t) /\ batch' = None /\ Queue' = <<>> /\ held' = {}
      /\ UNCHANGED <<mode, main, todo, part, rest, attempts, log, installed, lost>>
  BY DEF ResetBatch, Go, Moves, Busy, Queue
<1>2. /\ pc' \in [Tasks -> TaskPC] /\ pc'[t] = "ok"
      /\ \A u \in Tasks \ {t} : pc'[u] = pc[u]
  BY <1>1, Moved DEF TaskPC
<1>3. TypeOK'
  BY <1>1, <1>2 DEF IInv, TypeOK
<1>4. Turns'
  <2>1. \A u \in Tasks : pc'[u] \in Appending => todo'[u] # <<>>
    BY <1>1, <1>2 DEF IInv, Turns, Appending
  <2> QED
    BY <1>1, <2>1, TurnsKept DEF TaskPC
<1>5. Alone => \A u \in Tasks \ {t} : OnItsWay(u)' /\ OrderOf(u)'
  BY <1>1, OthersWait DEF TaskPC
<1>6. Kept'
  <2> SUFFICES ASSUME Alone
               PROVE  \A u \in Tasks : OnItsWay(u)'
    BY <1>1 DEF Kept, Alone
  <2>1. CommandsOf(t) \subseteq installed
    BY <1>1 DEF IInv, Kept, OnItsWay
  <2>2. OnItsWay(t)'
    BY <1>1, <1>2, <2>1 DEF OnItsWay, Appending
  <2> QED
    BY <1>5, <2>2
<1>7. Order'
  <2> SUFFICES ASSUME Alone, ~lost
               PROVE  Order'
    BY <1>1 DEF Order, Alone
  <2>1. Increasing(log) /\ RoutesLater
    BY DEF IInv, Order
  <2>2. OrderOf(t)'
    BY <1>2 DEF OrderOf, Appending
  <2>3. RoutesLater'
    BY <1>1, <1>2, <2>1, NoCommands DEF RoutesLater, Tasks, Appending
  <2> QED
    BY <1>1, <1>5, <2>1, <2>2, <2>3, NoCommands DEF Order
<1>8. Distinct'
  BY <1>1, NoCommands DEF IInv, Distinct
<1>9. Once'
  BY <1>1, <1>2 DEF IInv, Once
<1> QED
  BY <1>3, <1>4, <1>6, <1>7, <1>8, <1>9 DEF IInv

(* A part reaches the real host, and its answer comes or is lost.             *)
LEMMA RunIInv ==
    ASSUME IInv, NEW t \in Tasks, RunLost(t) \/ ReadBreaks(t) \/ RunAnswered(t)
    PROVE  IInv'
<1>1. PICK refused \in Refusals(t), k \in Nat :
        /\ k <= Len(part[t])
        /\ Executed(SubSeq(part[t], 1, k), refused)
        /\ RunAnswered(t) => k = Len(part[t]) /\ Go(t, IF refused = {} THEN "loop" ELSE "failed")
  <2>1. part[t] \in Seq(AllCommands) /\ Len(part[t]) \in Nat
    BY DEF IInv, TypeOK
  <2>2. SubSeq(part[t], 1, Len(part[t])) = part[t]
    BY <2>1
  <2>3. CASE RunAnswered(t)
    <3>1. PICK refused \in Refusals(t) :
            Executed(part[t], refused) /\ Go(t, IF refused = {} THEN "loop" ELSE "failed")
      BY <2>3 DEF RunAnswered
    <3>2. Executed(SubSeq(part[t], 1, Len(part[t])), refused)
      BY <2>2, <3>1
    <3> WITNESS refused \in Refusals(t), Len(part[t]) \in Nat
    <3> QED
      BY <2>1, <3>1, <3>2
  <2>4. CASE ~RunAnswered(t)
    BY <2>1, <2>4 DEF RunLost, ReadBreaks, Interrupted
  <2> QED
    BY <2>3, <2>4
<1>2. PICK p \in {"loop", "run", "failed"} :
        /\ Moves(t, p) /\ pc[t] = "run" /\ Busy(t)
        /\ p = "loop" => refused = {} /\ k = Len(part[t])
        /\ p = "run" => lost' = TRUE
        /\ lost' \in BOOLEAN /\ (lost => lost')
        /\ attempts' \in [Tasks -> 0 .. MaxAttempts]
        /\ UNCHANGED <<mode, main, todo, batch, held, part, rest>>
  <2>1. pc \in [Tasks -> TaskPC] /\ attempts \in [Tasks -> 0 .. MaxAttempts] /\ lost \in BOOLEAN
    BY DEF IInv, TypeOK
  <2>2. CASE RunAnswered(t)
    <3>1. pc[t] = "run" /\ UNCHANGED <<mode, main, todo, batch, held, part, rest, attempts, lost>>
      BY <2>2 DEF RunAnswered
    <3>2. CASE refused = {}
      BY <1>1, <2>1, <2>2, <3>1, <3>2 DEF Go, Moves, Busy
    <3>3. CASE refused # {}
      BY <1>1, <2>1, <2>2, <3>1, <3>3 DEF Go, Moves, Busy
    <3> QED
      BY <3>2, <3>3
  <2>3. CASE RunLost(t)
    <3>1. pc[t] = "run" /\ lost' = TRUE /\ UNCHANGED <<mode, main, todo, batch, held, part, rest>>
      BY <2>3 DEF RunLost, Interrupted
    <3>2. CASE attempts[t] < MaxAttempts
      <4>1. attempts' \in [Tasks -> 0 .. MaxAttempts] /\ Moves(t, "run")
        BY <2>1, <2>3, <3>1, <3>2, BatchesAssumption DEF RunLost, TryAgain, Moves
      <4> QED
        BY <3>1, <4>1 DEF Busy
    <3>3. CASE ~(attempts[t] < MaxAttempts)
      <4>1. attempts' = attempts /\ Moves(t, "failed")
        BY <2>3, <3>3 DEF RunLost, TryAgain, Go, Moves
      <4> QED
        BY <2>1, <3>1, <4>1 DEF Busy
    <3> QED
      BY <3>2, <3>3
  <2>4. CASE ReadBreaks(t)
    BY <2>1, <2>4 DEF ReadBreaks, Interrupted, Go, Moves, Busy
  <2> QED
    BY <2>2, <2>3, <2>4
<1> DEFINE w == part[t]
           s == SubSeq(part[t], 1, k)
<1>3. /\ s \in Seq(AllCommands) /\ log \in Seq(AllCommands) /\ log' = log \o s
      /\ w \in Seq(AllCommands) /\ Range(s) \subseteq Range(w) /\ Range(w) \subseteq AllCommands
      /\ installed' = installed \cup (Range(s) \ refused)
      /\ installed \cap Range(s) \subseteq refused
      /\ Queue' = Queue
      /\ k = Len(w) => s = w
      /\ IsInjective(w) => IsInjective(s)
      /\ Increasing(w) => Increasing(s)
      /\ \A x : (Before(x, w) => Before(x, s)) /\ (Before(w, x) => Before(s, x))
  <2>1. w \in Seq(AllCommands) /\ log \in Seq(AllCommands) /\ Len(w) \in Nat
    BY DEF IInv, TypeOK
  <2>2. s \in Seq(AllCommands) /\ DOMAIN s = 1 .. k /\ \A i \in 1 .. k : s[i] = w[i]
    BY <1>1, <2>1
  <2>3. Within(s, w, 0)
    BY <1>1, <2>1, <2>2 DEF Within
  <2>4. /\ Range(s) \subseteq Range(w)
        /\ IsInjective(w) => IsInjective(s)
        /\ Increasing(w) => Increasing(s)
        /\ \A x : (Before(x, w) => Before(x, s)) /\ (Before(w, x) => Before(s, x))
    <3>1. 0 \in Nat
      OBVIOUS
    <3> HIDE DEF s, w
    <3> QED
      BY <2>1, <2>2, <2>3, <3>1, Piece
  <2>5. Range(w) \subseteq AllCommands
    BY <2>1, RangeOfSeq
  <2>6. k = Len(w) => s = w
    BY <2>1
  <2>7. installed \cap Range(s) \subseteq refused
    BY <1>1, <2>4 DEF Refusals
  <2>8. log' = log \o s /\ installed' = installed \cup (Range(s) \ refused)
    BY <1>1 DEF Executed
  <2>9. Queue' = Queue
    BY <1>2 DEF Queue
  <2> QED
    BY <2>1, <2>2, <2>4, <2>5, <2>6, <2>7, <2>8, <2>9
<1> HIDE DEF s, w
<1>4. /\ log' \in Seq(AllCommands) /\ Range(log') = Range(log) \cup Range(s)
      /\ IsInjective(log) /\ IsInjective(s) /\ Range(log) \cap Range(s) = {} => IsInjective(log')
      /\ Increasing(log) /\ Increasing(s) /\ Before(log, s) => Increasing(log')
      /\ \A x : Before(log, x) /\ Before(s, x) => Before(log', x)
  BY <1>3, Joined
<1>5. /\ pc' \in [Tasks -> TaskPC] /\ pc'[t] = p
      /\ \A u \in Tasks \ {t} : pc'[u] = pc[u]
  BY <1>2, Moved DEF TaskPC
<1>6. TypeOK'
  <2>1. installed' \subseteq AllCommands
    BY <1>3 DEF IInv, TypeOK
  <2> QED
    BY <1>2, <1>4, <1>5, <2>1 DEF IInv, TypeOK
<1>7. Turns'
  <2>1. \A u \in Tasks : pc'[u] \in Appending => todo'[u] # <<>>
    BY <1>2, <1>5 DEF IInv, Turns, Appending
  <2> QED
    BY <1>2, <2>1, TurnsKept DEF TaskPC, IInv, Turns
<1>8. Alone => \A u \in Tasks \ {t} : OnItsWay(u)' /\ OrderOf(u)'
  BY <1>2, <1>3, OthersWait DEF TaskPC
<1>9. Kept'
  <2> SUFFICES ASSUME Alone
               PROVE  \A u \in Tasks : OnItsWay(u)'
    BY <1>2 DEF Kept, Alone
  <2>1. CommandsOf(t) \subseteq installed \cup Range(w) \cup Range(Queue)
    BY <1>2 DEF IInv, Kept, OnItsWay, w
  <2>2. CommandsOf(t) \subseteq installed' \cup Range(w) \cup Range(Queue')
    BY <1>3, <2>1
  <2>3. p = "loop" => CommandsOf(t) \subseteq installed' \cup Range(Queue')
    BY <1>2, <1>3, <2>2 DEF w
  <2>4. OnItsWay(t)'
    BY <1>2, <1>5, <2>2, <2>3 DEF OnItsWay, Appending, w
  <2> QED
    BY <1>8, <2>4
<1>10. Order'
  <2> SUFFICES ASSUME Alone, ~lost'
               PROVE  Order'
    BY <1>2 DEF Order, Alone
  <2>1. /\ Increasing(log) /\ Increasing(Queue) /\ Before(log, Queue)
        /\ Increasing(w) /\ Before(log, w) /\ Before(w, Queue)
        /\ RoutesLater
    BY <1>2 DEF IInv, Order, OrderOf, w
  <2>2. Increasing(log') /\ Before(log', Queue')
    <3>1. Increasing(s) /\ Before(log, s) /\ Before(s, Queue)
      BY <1>3, <2>1
    <3> QED
      BY <1>3, <1>4, <2>1, <3>1
  <2>3. OrderOf(t)'
    BY <1>2, <1>5 DEF OrderOf, Appending
  <2>4. RoutesLater'
    <3> SUFFICES ASSUME pc'["routes"] = "idle"
                 PROVE  RoutesLater'
      BY DEF RoutesLater
    <3>1. t = "arp" /\ pc["routes"] = "idle"
      BY <1>2, <1>5 DEF Tasks
    <3>2. /\ Increasing(todo["routes"]) /\ Before(log, todo["routes"])
          /\ Before(Queue, todo["routes"]) /\ Before(w, todo["routes"])
      BY <1>2, <2>1, <3>1 DEF RoutesLater, w
    <3>3. Before(log', todo["routes"])
      BY <1>3, <1>4, <3>2
    <3> QED
      BY <1>2, <1>3, <1>5, <3>1, <3>2, <3>3 DEF RoutesLater, Appending
  <2> QED
    BY <1>3, <1>8, <2>1, <2>2, <2>3, <2>4 DEF Order
<1>11. Distinct'
  BY <1>2, <1>3 DEF IInv, Distinct
<1>12. Once'
  <2> SUFFICES ASSUME ~lost', \A u \in Tasks : pc'[u] # "failed"
               PROVE  IsInjective(log') /\ Range(log') \subseteq installed'
    BY DEF Once
  <2>1. p = "loop" /\ refused = {} /\ ~lost /\ \A u \in Tasks : pc[u] # "failed"
    BY <1>2, <1>5
  <2>2. IsInjective(log) /\ Range(log) \subseteq installed
    BY <2>1 DEF IInv, Once
  <2>3. IsInjective(s) /\ Range(log) \cap Range(s) = {}
    BY <1>2, <1>3, <2>1, <2>2 DEF IInv, Distinct, w
  <2> QED
    BY <1>3, <1>4, <2>1, <2>2, <2>3
<1> QED
  BY <1>6, <1>7, <1>9, <1>10, <1>11, <1>12 DEF IInv

--------------------------------------------------------------------------------
(* Steps of build_network *)

LEMMA JoinIInv ==
    ASSUME IInv, JoinArp
    PROVE  IInv'
<1>1. /\ mode = "serial" /\ pc["routes"] = "idle" /\ Moves("routes", "add")
      /\ Ended("arp") /\ main' = "routes" /\ Queue' = Queue
      /\ UNCHANGED <<mode, todo, batch, held, part, rest, attempts, log, installed, lost>>
  BY DEF JoinArp, IInv, TypeOK, Turns, Modes, Go, Moves, Queue
<1>2. "routes" \in Tasks /\ "arp" \in Tasks \ {"routes"} /\ "add" \in TaskPC
  BY DEF Tasks, TaskPC
<1>3. /\ pc' \in [Tasks -> TaskPC] /\ pc'["routes"] = "add"
      /\ \A u \in Tasks \ {"routes"} : pc'[u] = pc[u]
  BY <1>1, <1>2, Moved
<1>4. Kept' /\ Order' /\ Distinct' /\ Once'
  <2>1. Follows("routes", "add") /\ \A u \in Tasks \ {"routes"} : pc[u] \notin Appending
    BY <1>1 DEF Follows, Appending, Ended, Tasks
  <2> QED
    BY <1>1, <1>2, <2>1, QuietStep
<1>5. TypeOK'
  BY <1>1, <1>3 DEF IInv, TypeOK
<1>6. Turns'
  BY <1>1, <1>2, <1>3 DEF IInv, Turns, Ended, Appending
<1> QED
  BY <1>4, <1>5, <1>6 DEF IInv

(* The steps that leave tasks and lists alone. *)
LEMMA UnchangedKept ==
    ASSUME IInv,
           UNCHANGED <<mode, pc, todo, batch, held, part, rest, attempts, log, installed, lost>>
    PROVE  Kept' /\ Order' /\ Distinct' /\ Once'
<1>1. Queue' = Queue
  BY DEF Queue
<1>2. Kept'
  BY <1>1 DEF IInv, Kept, Alone, OnItsWay
<1>3. Order'
  BY <1>1 DEF IInv, Order, Alone, OrderOf, RoutesLater
<1>4. Distinct' /\ Once'
  BY <1>1 DEF IInv, Distinct, Once
<1> QED
  BY <1>2, <1>3, <1>4

LEMMA AllDoneIInv ==
    ASSUME IInv, AllDone
    PROVE  IInv'
<1>1. Kept' /\ Order' /\ Distinct' /\ Once'
  BY UnchangedKept DEF AllDone
<1>2. TypeOK'
  BY DEF IInv, TypeOK, AllDone
<1>3. Turns'
  <2>1. mode = "serial" => Ended("arp")
    BY DEF IInv, Turns, AllDone
  <2>2. main' \in {"built", "raised"} /\ UNCHANGED <<mode, pc, todo, batch, held>>
    BY DEF AllDone
  <2>3. mode # "serial" /\ main' = "built" => \A t \in Tasks : pc[t] \in {"idle", "ok"}
    BY DEF AllDone, Ended
  <2> QED
    BY <2>1, <2>2, <2>3 DEF IInv, Turns, Ended
<1> QED
  BY <1>1, <1>2, <1>3 DEF IInv

LEMMA NextIInv == IInv /\ [Next]_vars => IInv'
<1> SUFFICES ASSUME IInv, [Next]_vars PROVE IInv'
  OBVIOUS
<1>1. CASE JoinArp
  BY <1>1, JoinIInv
<1>2. CASE AllDone
  BY <1>2, AllDoneIInv
<1>3. CASE LookupFails
  BY <1>3, QuietIInv DEF Tasks
<1>4. ASSUME NEW t \in Tasks, TaskStep(t)
      PROVE  IInv'
  <2>1. CASE \/ TestBatch(t) \/ LoadBatch(t) \/ Commit(t) \/ LogBatch(t)
             \/ CommitLoop(t) \/ LengthOfBatch(t) \/ RunRefused(t) \/ RunBreaks(t)
    BY <2>1, QuietIInv
  <2>2. CASE CreateBatch(t)
    BY <2>2, QuietIInv, ReplaceIInv
  <2>3. CASE AppendCommand(t)
    BY <2>3, AppendIInv, LoseIInv
  <2>4. CASE TakePart(t)
    BY <2>4, QuietIInv, TakeIInv
  <2>5. CASE StoreRest(t)
    BY <2>5, StoreIInv
  <2>6. CASE ResetBatch(t)
    BY <2>6, ResetIInv
  <2>7. CASE RunLost(t) \/ ReadBreaks(t) \/ RunAnswered(t)
    BY <2>7, RunIInv
  <2> QED
    BY <1>4, <2>1, <2>2, <2>3, <2>4, <2>5, <2>6, <2>7 DEF TaskStep
<1>5. CASE UNCHANGED vars
  <2>1. Kept' /\ Order' /\ Distinct' /\ Once'
    BY <1>5, UnchangedKept DEF vars
  <2>2. TypeOK' /\ Turns'
    BY <1>5 DEF vars, IInv, TypeOK, Turns, Ended
  <2> QED
    BY <2>1, <2>2 DEF IInv
<1> QED
  BY <1>1, <1>2, <1>3, <1>4, <1>5 DEF Next, Done

--------------------------------------------------------------------------------
(* Theorems *)

(* The invariant holds in every behavior. *)
THEOREM Inductive == Spec => []IInv
<1>1. IInv /\ [Next]_vars => IInv'
  BY NextIInv
<1> QED
  BY <1>1, InitIInv, PTL DEF Spec

(* Every variable keeps its type: the batch stays a list of commands or None. *)
THEOREM TypeCorrect == Spec => []TypeOK
<1>1. IInv => TypeOK
  BY DEF IInv
<1> QED
  BY <1>1, Inductive, PTL

(* A task that ends without an exception has installed every command that it  *)
(* passed to exec_batch, however run cut the batch and sent it again.         *)
THEOREM NothingLost == Spec => []OkMeansInstalled
<1>1. IInv => OkMeansInstalled
  BY DEF IInv, Kept, OnItsWay, OkMeansInstalled
<1> QED
  BY <1>1, Inductive, PTL

(* As long as no answer was lost, the host executes the commands of its tasks *)
(* in the order of the calls of exec_batch, each at most once.                *)
THEOREM OrderKept == Spec => []RunInOrder
<1>1. IInv => RunInOrder
  BY DEF IInv, Order, Increasing, Place, Asked, RunInOrder
<1> QED
  BY <1>1, Inductive, PTL

(* In parallel mode BUILT means that no command was executed twice, whatever  *)
(* the two tasks of the host took from the batch that they share.             *)
THEOREM ExecutedOnce == Spec => []BuiltOnce
<1>1. IInv => BuiltOnce
  BY DEF IInv, Turns, Once, BuiltOnce
<1> QED
  BY <1>1, Inductive, PTL

(* With tunnels, BUILT means that every route of the host is installed: what  *)
(* waitall raises for the future of the routing task is not dropped.          *)
THEOREM BuiltMeansConfigured == Spec => []BuiltConfigured
<1>1. IInv => BuiltConfigured
  <2> SUFFICES ASSUME IInv, mode = "tunnels", main = "built"
               PROVE  CommandsOf("routes") \subseteq installed
    BY DEF BuiltConfigured
  <2>1. pc["routes"] = "ok" /\ Alone /\ "routes" \in Tasks
    BY DEF IInv, Turns, Tasks, Alone
  <2> QED
    BY <2>1 DEF IInv, Kept, OnItsWay
<1> QED
  BY <1>1, Inductive, PTL
================================================================================
