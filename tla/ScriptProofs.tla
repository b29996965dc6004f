------------------------------ MODULE ScriptProofs ------------------------------
(* For scripts of any length, loops in loops to any depth, and any file that  *)
(* they include: the level of nesting is that of the lines that are queued.   *)
EXTENDS Script, FiniteSetTheorems, SequenceTheorems, TLAPS

(* An environment by itself: inside a for it counts the lines it queues.      *)
Sound(e) ==
    /\ e \in Environment
    /\ e.nest >= 1 /\ e.nest = 1 + CountOf(e.queue, "for") - CountOf(e.queue, "end")
    /\ e.inside <=> e.setup # None
    /\ ~e.inside => e.queue = <<>> /\ e.loop = None
    /\ e.loop # None => e.nest = 1 /\ e.loop.next <= e.setup.to

(* The environment at the given depth and the dict of the loop variables,     *)
(* which is None outside of loops: only the outermost one can have found it   *)
(* so, and has to restore it.                                                 *)
Placed(e, depth, dict) ==
    /\ e.loop # None => dict # None
    /\ depth > 1 =>
        /\ \A k \in DOMAIN e.lines : e.lines[k] # Unbind
        /\ e.loop # None => ~e.loop.fresh

Stacked ==
    /\ stack \in Seq(Environment) /\ stack # <<>>
    /\ \A k \in DOMAIN stack : Sound(stack[k]) /\ Placed(stack[k], k, vars)
    /\ \A k \in DOMAIN stack : k < Len(stack) => stack[k].loop # None

IInv == TypeOK /\ Stacked

--------------------------------------------------------------------------------
(* Lines and their counts *)

LEMMA LineKinds ==
    /\ Commands \subseteq Lines /\ Lines \subseteq Steps /\ Unbind \in Steps /\ EndFor \in Lines
    /\ \A x \in Names, n \in 0..MaxValue : Bind(x, n) \in Steps /\ Bind(x, n) # Unbind
    /\ \A l \in Lines : l # Unbind
    /\ \A l \in Steps :
        /\ l.op \notin {"bind", "unbind"} => l \in Lines
        /\ l.op = "end" <=> l = EndFor
        /\ l.op = "for" => l.var \in Names /\ l.to \in Expressions
        /\ l.op = "one" => l.var \in Names /\ l.to \in Expressions /\ l.cmd \in Commands
        /\ l.op = "let" => l.var \in Names /\ l.val \in Expressions
        /\ l.op = "run" => l.name \in Names
        /\ l.op = "bind" => l.var \in Names /\ l.val \in 0..MaxValue
        /\ l.op = "unbind" <=> l = Unbind
<1>1. \A l \in Lines : l.op \notin {"bind", "unbind"}
  BY DEF Lines, Commands, Run, Let, For, OneLiner, EndFor, Include
<1>2. Commands \subseteq Lines /\ Lines \subseteq Steps /\ Unbind \in Steps /\ EndFor \in Lines
  BY DEF Lines, Steps
<1>3. Unbind.op = "unbind" /\ \A x, n : Bind(x, n).op = "bind"
  BY DEF Unbind, Bind
<1>4. \A x \in Names, n \in 0..MaxValue : Bind(x, n) \in Steps /\ Bind(x, n) # Unbind
  BY <1>3 DEF Steps
<1>5. \A l \in Lines : l # Unbind
  BY <1>1, <1>3
<1>6. ASSUME NEW l \in Steps
      PROVE  /\ l.op \notin {"bind", "unbind"} => l \in Lines
             /\ l.op = "bind" => l.var \in Names /\ l.val \in 0..MaxValue
             /\ l.op = "unbind" <=> l = Unbind
  BY <1>1, <1>3 DEF Steps, Bind, Unbind
<1>7. ASSUME NEW l \in Lines
      PROVE  /\ l.op = "end" <=> l = EndFor
             /\ l.op = "for" => l.var \in Names /\ l.to \in Expressions
             /\ l.op = "one" => l.var \in Names /\ l.to \in Expressions /\ l.cmd \in Commands
             /\ l.op = "let" => l.var \in Names /\ l.val \in Expressions
             /\ l.op = "run" => l.name \in Names
  <2>1. CASE l \in Commands
    BY <2>1 DEF Commands, Run, Let, Include, EndFor
  <2>2. CASE l = EndFor
    BY <2>2 DEF EndFor
  <2>3. CASE l \in {For(x, e) : x \in Names, e \in Expressions}
    BY <2>3 DEF For, EndFor
  <2>4. CASE l \in {OneLiner(x, e, c) : x \in Names, e \in Expressions, c \in Commands}
    BY <2>4 DEF OneLiner, EndFor
  <2> QED
    BY <2>1, <2>2, <2>3, <2>4 DEF Lines
<1>8. EndFor.op = "end"
  BY DEF EndFor
<1> QED
  BY <1>1, <1>2, <1>4, <1>5, <1>6, <1>7, <1>8

LEMMA NothingCounted == \A op : CountOf(<<>>, op) = 0
<1>1. \A op : {k \in DOMAIN <<>> : <<>>[k].op = op} = {}
  OBVIOUS
<1> QED
  BY <1>1, FS_EmptySet DEF CountOf

LEMMA CountAppended ==
    ASSUME NEW q \in Seq(Lines), NEW l \in Lines, NEW op
    PROVE  /\ CountOf(q, op) \in Nat
           /\ CountOf(Append(q, l), op) = CountOf(q, op) + (IF l.op = op THEN 1 ELSE 0)
<1> DEFINE r == Append(q, l)
           Q == {k \in DOMAIN q : q[k].op = op}
           R == {k \in DOMAIN r : r[k].op = op}
<1>1. /\ DOMAIN q = 1 .. Len(q) /\ DOMAIN r = 1 .. Len(q) + 1 /\ Len(q) \in Nat
      /\ \A k \in 1 .. Len(q) : r[k] = q[k]
      /\ r[Len(q) + 1] = l
  BY AppendProperties
<1> HIDE DEF r
<1>2. IsFiniteSet(Q)
  <2>1. 1 \in Int /\ Len(q) \in Int
    BY <1>1
  <2>2. IsFiniteSet(1 .. Len(q))
    BY <2>1, FS_Interval
  <2> QED
    BY <1>1, <2>2, FS_Subset
<1>3. Len(q) + 1 \notin Q
  BY <1>1
<1>4. /\ CountOf(q, op) = Cardinality(Q) /\ CountOf(Append(q, l), op) = Cardinality(R)
      /\ Cardinality(Q) \in Nat
  BY <1>2, FS_CardinalityType DEF CountOf, r
<1>5. CASE l.op = op
  <2>1. R = Q \cup {Len(q) + 1}
    BY <1>1, <1>5
  <2>2. Cardinality(R) = Cardinality(Q) + 1
    BY <1>2, <1>3, <2>1, FS_AddElement
  <2> HIDE DEF Q, R
  <2> QED
    BY <1>4, <1>5, <2>2
<1>6. CASE l.op # op
  <2>1. R = Q
    BY <1>1, <1>6
  <2> HIDE DEF Q, R
  <2> QED
    BY <1>4, <1>6, <2>1
<1> QED
  BY <1>5, <1>6

--------------------------------------------------------------------------------
(* Environments *)

LEMMA TopFacts ==
    ASSUME IInv
    PROVE  /\ Len(stack) \in Nat \ {0} /\ Len(stack) \in DOMAIN stack /\ 1 \in DOMAIN stack
           /\ Top \in Environment /\ Sound(Top) /\ Placed(Top, Len(stack), vars)
           /\ Len(stack) > 1 => vars # None
           /\ Len(stack) = 1 \/ Len(stack) > 1
<1>1. /\ Len(stack) \in Nat \ {0} /\ (Len(stack) = 1 \/ Len(stack) > 1)
      /\ DOMAIN stack = 1 .. Len(stack)
  BY DEF IInv, Stacked
<1>2. Sound(Top) /\ Placed(Top, Len(stack), vars)
  BY <1>1 DEF IInv, Stacked, Top
<1>3. Len(stack) > 1 => vars # None
  BY <1>1 DEF IInv, Stacked, Placed
<1> QED
  BY <1>1, <1>2, <1>3 DEF Sound

LEMMA VisibleIsValue ==
    ASSUME IInv, NEW y \in Names
    PROVE  Visible(y) \in Number \cup {Unbound}
<1>1. Top.locals \in Scope /\ vars \in Scope \cup {None}
  BY TopFacts DEF IInv, TypeOK, Environment
<1> QED
  BY <1>1 DEF Visible, Scope

LEMMA EvalIsNumber ==
    ASSUME IInv, NEW x \in Expressions, \A y \in NamesIn(x) : Visible(y) # Unbound
    PROVE  Eval(x) \in Number
<1>1. CASE x \in {Lit(n) : n \in 0..MaxValue}
  BY <1>1 DEF Eval, Lit, Number
<1>2. CASE x \in {Ref(y) : y \in Names}
  <2>1. PICK y \in Names : x = Ref(y)
    BY <1>2
  <2>2. x[1] # "lit" /\ x[2] = y /\ y \in NamesIn(x)
    BY <2>1 DEF Ref, NamesIn
  <2> QED
    BY <2>2, VisibleIsValue DEF Eval
<1> QED
  BY <1>1, <1>2 DEF Expressions

LEMMA RestFacts ==
    ASSUME IInv, Executing
    PROVE  /\ Line \in Steps /\ (Len(stack) > 1 => Line # Unbind)
           /\ Rest \in Environment /\ Sound(Rest) /\ Placed(Rest, Len(stack), vars)
           /\ Rest.loop = None /\ Rest.inside = Top.inside /\ Rest.nest = Top.nest
           /\ Rest.setup = Top.setup /\ Rest.queue = Top.queue /\ Rest.locals = Top.locals
           /\ Rest.lines = Tail(Top.lines)
<1>1. Top \in Environment /\ Top.lines \in Seq(Steps) /\ Top.lines # <<>> /\ Top.loop = None
  BY TopFacts DEF Executing, Environment
<1>2. /\ Head(Top.lines) \in Steps /\ Tail(Top.lines) \in Seq(Steps)
      /\ 1 \in DOMAIN Top.lines /\ Head(Top.lines) = Top.lines[1]
      /\ \A k \in DOMAIN Tail(Top.lines) :
            k + 1 \in DOMAIN Top.lines /\ Tail(Top.lines)[k] = Top.lines[k + 1]
  BY <1>1
<1>3. /\ Rest \in Environment
      /\ Rest.loop = None /\ Rest.inside = Top.inside /\ Rest.nest = Top.nest
      /\ Rest.setup = Top.setup /\ Rest.queue = Top.queue /\ Rest.locals = Top.locals
      /\ Rest.lines = Tail(Top.lines)
  BY <1>1, <1>2 DEF Rest, Environment
<1>4. Sound(Rest)
  BY <1>3, TopFacts DEF Sound
<1>5. Placed(Rest, Len(stack), vars)
  BY <1>2, <1>3, TopFacts DEF Placed
<1>6. Len(stack) > 1 => Line # Unbind
  BY <1>2, TopFacts DEF Placed, Line
<1> QED
  BY <1>2, <1>3, <1>4, <1>5, <1>6 DEF Line

(* The environment on top is replaced. *)
LEMMA UpdateKeeps ==
    ASSUME IInv, NEW e, stack' = [stack EXCEPT ![Len(stack)] = e],
           Sound(e), Placed(e, Len(stack), vars'),
           vars' = vars \/ vars' # None \/ Len(stack) = 1
    PROVE  Stacked'
<1>1. /\ stack \in Seq(Environment) /\ Len(stack) \in Nat \ {0} /\ DOMAIN stack = 1 .. Len(stack)
      /\ e \in Environment
  BY TopFacts DEF IInv, Stacked, Sound
<1>2. /\ stack' \in Seq(Environment) /\ Len(stack') = Len(stack) /\ DOMAIN stack' = DOMAIN stack
      /\ \A k \in DOMAIN stack : stack'[k] = IF k = Len(stack) THEN e ELSE stack[k]
  BY <1>1
<1>3. stack' # <<>>
  BY <1>1, <1>2
<1>4. ASSUME NEW k \in DOMAIN stack, k # Len(stack)
      PROVE  Sound(stack[k]) /\ Placed(stack[k], k, vars') /\ stack[k].loop # None
  <2>1. Sound(stack[k]) /\ Placed(stack[k], k, vars) /\ k < Len(stack) /\ k \in 1 .. Len(stack)
    BY <1>1, <1>4 DEF IInv, Stacked
  <2>2. stack[k].loop # None /\ vars # None /\ Len(stack) # 1
    BY <1>1, <2>1 DEF IInv, Stacked, Placed
  <2>3. vars' # None
    BY <2>2
  <2> QED
    BY <2>1, <2>2, <2>3 DEF Placed
<1>5. \A k \in DOMAIN stack' : Sound(stack'[k]) /\ Placed(stack'[k], k, vars')
  BY <1>2, <1>4
<1>6. \A k \in DOMAIN stack' : k < Len(stack') => stack'[k].loop # None
  BY <1>1, <1>2, <1>4
<1> QED
  BY <1>2, <1>3, <1>5, <1>6 DEF Stacked

LEMMA Nones ==
    /\ \A s \in Scope : s # None
    /\ \A s \in Setup : s # None
    /\ \A s \in Loop : s # None
    /\ MaxValue \in Nat /\ Unbound \notin Nat
<1>1. Scope \subseteq [Names -> Nat \cup {Unbound}]
  BY ScriptAssumption DEF Scope, Number
<1>2. Setup \subseteq [var : Names, to : Nat]
  BY ScriptAssumption DEF Setup, Number
<1>3. Loop \subseteq [next : Nat, fresh : BOOLEAN]
  BY ScriptAssumption DEF Loop, Number
<1> QED
  BY <1>1, <1>2, <1>3, ScriptAssumption

NoUnbind(lines) == \A k \in DOMAIN lines : lines[k] # Unbind

LEMMA JoinedLines ==
    ASSUME NEW s \in Seq(Steps), NEW u \in Seq(Steps)
    PROVE  s \o u \in Seq(Steps) /\ (NoUnbind(s) /\ NoUnbind(u) => NoUnbind(s \o u))
<1>1. /\ s \o u \in Seq(Steps) /\ DOMAIN s = 1 .. Len(s) /\ DOMAIN u = 1 .. Len(u)
      /\ DOMAIN (s \o u) = 1 .. Len(s) + Len(u) /\ Len(s) \in Nat /\ Len(u) \in Nat
      /\ \A i \in 1 .. Len(s) + Len(u) : (s \o u)[i] = IF i <= Len(s) THEN s[i] ELSE u[i - Len(s)]
  BY ConcatProperties
<1>2. ASSUME NEW i \in DOMAIN (s \o u)
      PROVE  \/ i \in DOMAIN s /\ (s \o u)[i] = s[i]
             \/ i - Len(s) \in DOMAIN u /\ (s \o u)[i] = u[i - Len(s)]
  BY <1>1
<1>3. NoUnbind(s) /\ NoUnbind(u) => NoUnbind(s \o u)
  BY <1>2 DEF NoUnbind
<1> QED
  BY <1>1, <1>3

LEMMA LinesHaveNone ==
    ASSUME NEW s \in Seq(Lines)
    PROVE  s \in Seq(Steps) /\ NoUnbind(s)
<1>1. s \in Seq(Steps)
  BY LineKinds, SeqMonotonic
<1>2. \A k \in DOMAIN s : s[k] \in Lines
  OBVIOUS
<1> QED
  BY <1>1, <1>2, LineKinds DEF NoUnbind

--------------------------------------------------------------------------------
(* Inside a multi-line for *)

LEMMA QueueIInv == ASSUME IInv, Queue PROVE IInv'
<1> DEFINE q == Append(Rest.queue, Line)
           n == IF Line = EndFor THEN Rest.nest - 1 ELSE Rest.nest + Nesting(Line)
<1>1. /\ Line \in Lines /\ Top.inside /\ Executing /\ ~ (Line = EndFor /\ Rest.nest = 1)
      /\ UNCHANGED <<script, vars, out, failed>>
  BY RestFacts, LineKinds DEF Queue
<1>2. /\ Rest \in Environment /\ Sound(Rest) /\ Placed(Rest, Len(stack), vars)
      /\ Rest.loop = None /\ Rest.inside = Top.inside
  BY <1>1, RestFacts
<1>3. Rest.queue \in Seq(Lines) /\ Rest.nest \in Nat
  BY <1>2 DEF Environment
<1>4. /\ CountOf(Rest.queue, "for") \in Nat /\ CountOf(Rest.queue, "end") \in Nat
      /\ CountOf(q, "for") = CountOf(Rest.queue, "for") + (IF Line.op = "for" THEN 1 ELSE 0)
      /\ CountOf(q, "end") = CountOf(Rest.queue, "end") + (IF Line.op = "end" THEN 1 ELSE 0)
      /\ q \in Seq(Lines)
  BY <1>1, <1>3, CountAppended
<1> HIDE DEF q
<1>5. n \in Nat /\ n >= 1 /\ n = 1 + CountOf(q, "for") - CountOf(q, "end")
  <2>1. Rest.nest >= 1 /\ Rest.nest = 1 + CountOf(Rest.queue, "for") - CountOf(Rest.queue, "end")
    BY <1>2 DEF Sound
  <2>2. Line.op = "end" <=> Line = EndFor
    BY <1>1, LineKinds
  <2>3. CASE Line = EndFor
    BY <1>1, <1>3, <1>4, <2>1, <2>2, <2>3
  <2>4. CASE Line # EndFor
    BY <1>3, <1>4, <2>1, <2>2, <2>4 DEF Nesting
  <2> QED
    BY <2>3, <2>4
<1> HIDE DEF n
<1> DEFINE e == [Rest EXCEPT !.queue = q, !.nest = n]
<1>6. stack' = [stack EXCEPT ![Len(stack)] = e]
  BY DEF Queue, Update, q, n
<1>7. /\ e \in Environment /\ e.queue = q /\ e.nest = n /\ e.loop = None /\ e.inside = Rest.inside
      /\ e.setup = Rest.setup /\ e.lines = Rest.lines
  BY <1>2, <1>4, <1>5 DEF Environment
<1> HIDE DEF e
<1>8. Sound(e)
  BY <1>1, <1>2, <1>5, <1>7 DEF Sound
<1>9. Placed(e, Len(stack), vars')
  BY <1>1, <1>2, <1>7 DEF Placed
<1>10. Stacked'
  BY <1>1, <1>6, <1>8, <1>9, UpdateKeeps
<1> QED
  BY <1>1, <1>10 DEF IInv, TypeOK, Stacked

LEMMA StartLoopIInv == ASSUME IInv, StartLoop PROVE IInv'
<1> DEFINE loop == [next |-> 0, fresh |-> vars = None]
           e == [Rest EXCEPT !.loop = loop]
<1>1. /\ Executing /\ Top.inside /\ Top.nest = 1
      /\ vars' = (IF vars = None THEN NoNames ELSE vars)
      /\ stack' = [stack EXCEPT ![Len(stack)] = e]
      /\ UNCHANGED <<script, out, failed>>
  BY DEF StartLoop, Update
<1>2. /\ Rest \in Environment /\ Sound(Rest) /\ Placed(Rest, Len(stack), vars)
      /\ Rest.inside /\ Rest.nest = 1
  BY <1>1, RestFacts
<1>3. vars' \in Scope /\ vars' # None
  <2>1. NoNames \in Scope
    BY DEF NoNames, Scope, Number
  <2> QED
    BY <1>1, <2>1, Nones DEF IInv, TypeOK
<1>4. loop \in Loop /\ loop.next = 0 /\ (vars # None => ~loop.fresh)
  <2>1. 0 \in 0 .. MaxValue
    BY Nones
  <2>2. PICK b \in BOOLEAN : b = (vars = None)
    OBVIOUS
  <2>3. loop = [next |-> 0, fresh |-> b]
    BY <2>2
  <2> HIDE DEF loop
  <2>4. loop \in Loop /\ loop.next = 0 /\ loop.fresh = b
    BY <2>1, <2>2, <2>3 DEF Loop, Number
  <2>5. vars # None => ~b
    BY <2>2
  <2> QED
    BY <2>4, <2>5
<1> HIDE DEF loop
<1>5. /\ e \in Environment /\ e.loop = loop /\ e.inside = Rest.inside /\ e.nest = Rest.nest
      /\ e.setup = Rest.setup /\ e.queue = Rest.queue /\ e.lines = Rest.lines
  BY <1>2, <1>4 DEF Environment
<1> HIDE DEF e
<1>6. Rest.setup.to \in Nat
  BY <1>2, Nones DEF Sound, Environment, Setup, Number
<1>7. Sound(e)
  BY <1>2, <1>4, <1>5, <1>6 DEF Sound
<1>8. Placed(e, Len(stack), vars')
  BY <1>2, <1>3, <1>4, <1>5, TopFacts DEF Placed
<1>9. Stacked'
  BY <1>1, <1>3, <1>7, <1>8, UpdateKeeps
<1> QED
  BY <1>1, <1>3, <1>9 DEF IInv, TypeOK, Stacked

LEMMA IterateIInv == ASSUME IInv, Iterate PROVE IInv'
<1>0. PICK n \in Nat : n = Len(stack)
  BY TopFacts
<1> DEFINE loop == [Top.loop EXCEPT !.next = @ + 1]
           e == [Top EXCEPT !.loop = loop]
           new == NewEnvironment(Top.locals, Top.queue)
           middle == [stack EXCEPT ![n] = e]
<1>1. /\ Top.loop # None /\ Top.loop.next < Top.setup.to
      /\ vars' = [vars EXCEPT ![Top.setup.var] = Top.loop.next]
      /\ stack' = Append(middle, new)
      /\ UNCHANGED <<script, out, failed>>
  BY <1>0 DEF Iterate, Top
<1>2. /\ Top \in Environment /\ Sound(Top) /\ Placed(Top, n, vars) /\ n >= 1
      /\ stack \in Seq(Environment) /\ DOMAIN stack = 1 .. n
  BY <1>0, TopFacts DEF IInv, Stacked
<1>3. /\ Top.loop \in Loop /\ Top.setup \in Setup /\ Top.setup.var \in Names
      /\ Top.setup.to \in 0 .. MaxValue /\ Top.inside
  <2>1. Top.loop \in Loop /\ Top.setup # None /\ Top.inside
    BY <1>1, <1>2 DEF Sound, Environment
  <2>2. Top.setup \in Setup
    BY <1>2, <2>1 DEF Environment
  <2> QED
    BY <2>1, <2>2 DEF Setup, Number
<1>4. vars' \in Scope /\ vars' # None
  <2>1. vars \in Scope
    BY <1>1, <1>2 DEF Placed, IInv, TypeOK
  <2>2. Top.loop.next \in Number
    BY <1>3 DEF Loop, Number
  <2>3. vars' \in Scope
    BY <1>1, <2>1, <2>2 DEF Scope
  <2> QED
    BY <2>3, Nones
<1>5. loop \in Loop /\ loop # None /\ loop.next <= Top.setup.to /\ loop.fresh = Top.loop.fresh
  <2>1. Top.loop.next \in 0 .. MaxValue /\ Top.loop.next + 1 \in 0 .. MaxValue
    BY <1>1, <1>3, Nones DEF Loop, Number
  <2>2. loop \in Loop
    BY <1>3, <2>1 DEF Loop, Number
  <2> QED
    BY <1>1, <1>3, <2>1, <2>2, Nones DEF Loop, Number
<1> HIDE DEF loop
<1>6. /\ e \in Environment /\ e.loop = loop /\ e.inside = Top.inside /\ e.nest = Top.nest
      /\ e.setup = Top.setup /\ e.queue = Top.queue /\ e.lines = Top.lines
  BY <1>2, <1>5 DEF Environment
<1> HIDE DEF e
<1>7. Sound(e)
  BY <1>1, <1>2, <1>5, <1>6 DEF Sound
<1>8. Placed(e, n, vars')
  BY <1>1, <1>2, <1>4, <1>5, <1>6 DEF Placed
<1>9. /\ new \in Environment /\ new.lines = Top.queue /\ new.inside = FALSE /\ new.nest = 1
      /\ new.setup = None /\ new.queue = <<>> /\ new.loop = None
      /\ Top.queue \in Seq(Lines)
  <2>1. Top.queue \in Seq(Lines) /\ Top.locals \in Scope
    BY <1>2 DEF Environment
  <2>2. Top.queue \in Seq(Steps) /\ <<>> \in Seq(Lines)
    BY <2>1, LinesHaveNone
  <2> QED
    BY <2>1, <2>2 DEF NewEnvironment, Environment
<1> HIDE DEF new
<1>10. Sound(new)
  BY <1>9, NothingCounted DEF Sound
<1>11. Placed(new, n + 1, vars')
  BY <1>9, LinesHaveNone DEF Placed, NoUnbind
<1>12. /\ middle \in Seq(Environment) /\ Len(middle) = n
       /\ \A k \in 1 .. n : middle[k] = IF k = n THEN e ELSE stack[k]
  BY <1>0, <1>2, <1>6
<1> HIDE DEF middle
<1>13. /\ stack' \in Seq(Environment) /\ stack' # <<>> /\ Len(stack') = n + 1
       /\ DOMAIN stack' = 1 .. n + 1
       /\ \A k \in 1 .. n + 1 :
            stack'[k] = IF k = n + 1 THEN new ELSE IF k = n THEN e ELSE stack[k]
  <2>1. /\ Append(middle, new) \in Seq(Environment) /\ Len(Append(middle, new)) = n + 1
        /\ Append(middle, new) # <<>> /\ DOMAIN Append(middle, new) = 1 .. n + 1
    BY <1>2, <1>9, <1>12
  <2>2. Append(middle, new)[n + 1] = new /\ \A k \in 1 .. n : Append(middle, new)[k] = middle[k]
    BY <1>2, <1>9, <1>12, AppendProperties
  <2>3. \A k \in 1 .. n + 1 : k # n + 1 => k \in 1 .. n
    BY <1>2
  <2> QED
    BY <1>1, <1>12, <2>1, <2>2, <2>3
<1>14. ASSUME NEW k \in 1 .. n, k # n
       PROVE  Sound(stack[k]) /\ Placed(stack[k], k, vars') /\ stack[k].loop # None
  <2>1. k \in DOMAIN stack /\ k < Len(stack)
    BY <1>0, <1>2, <1>14
  <2>2. Sound(stack[k]) /\ Placed(stack[k], k, vars) /\ stack[k].loop # None
    BY <2>1 DEF IInv, Stacked
  <2> QED
    BY <1>4, <2>2 DEF Placed
<1>15. ASSUME NEW k \in 1 .. n + 1
       PROVE  Sound(stack'[k]) /\ Placed(stack'[k], k, vars')
  <2>1. CASE k = n + 1
    BY <1>10, <1>11, <1>13, <2>1
  <2>2. CASE k = n
    BY <1>2, <1>7, <1>8, <1>13, <2>2
  <2>3. CASE k \in 1 .. n /\ k # n
    BY <1>2, <1>13, <1>14, <2>3
  <2> QED
    BY <1>2, <2>1, <2>2, <2>3
<1>16. ASSUME NEW k \in 1 .. n + 1, k < n + 1
       PROVE  stack'[k].loop # None
  <2>1. CASE k = n
    BY <1>5, <1>6, <1>13, <2>1
  <2>2. CASE k # n
    <3>1. k \in 1 .. n
      BY <1>2, <1>16
    <3>2. k # n + 1
      BY <1>2, <1>16
    <3> QED
      BY <1>13, <1>14, <2>2, <3>1, <3>2
  <2> QED
    BY <2>1, <2>2
<1>17. Stacked'
  <2>1. \A k \in DOMAIN stack' : Sound(stack'[k]) /\ Placed(stack'[k], k, vars')
    BY <1>13, <1>15
  <2>2. \A k \in DOMAIN stack' : k < Len(stack') => stack'[k].loop # None
    BY <1>13, <1>16
  <2> QED
    BY <1>13, <2>1, <2>2 DEF Stacked
<1> QED
  BY <1>1, <1>4, <1>17 DEF IInv, TypeOK, Stacked

LEMMA ReturnIInv == ASSUME IInv, Return PROVE IInv'
<1>1. /\ stack \in Seq(Environment) /\ Len(stack) \in Nat /\ Len(stack) > 1
      /\ DOMAIN stack = 1 .. Len(stack) /\ stack' = SubSeq(stack, 1, Len(stack) - 1)
      /\ UNCHANGED <<script, vars, out, failed>>
  BY DEF IInv, Stacked, Return, Pop
<1>2. /\ stack' \in Seq(Environment) /\ Len(stack') = Len(stack) - 1
      /\ DOMAIN stack' = 1 .. Len(stack) - 1
      /\ \A k \in 1 .. Len(stack) - 1 : stack'[k] = stack[k]
  <2> DEFINE m == Len(stack) - 1
  <2>1. m \in 1 .. Len(stack) /\ 1 \in 1 .. Len(stack) + 1 /\ m - 1 + 1 = m
        /\ \A k \in 1 .. m : 1 + k - 1 = k
    BY <1>1
  <2>2. /\ SubSeq(stack, 1, m) \in Seq(Environment)
        /\ Len(SubSeq(stack, 1, m)) = m
        /\ \A k \in 1 .. m : SubSeq(stack, 1, m)[k] = stack[k]
    <3>1. \A k \in 1 .. m : k \in DOMAIN stack /\ stack[k] \in Environment
      BY <1>1
    <3> QED
      BY <1>1, <2>1, <3>1, SubSeqProperties
  <2> HIDE DEF m
  <2>3. DOMAIN SubSeq(stack, 1, m) = 1 .. m
    BY <2>2
  <2> QED
    BY <1>1, <2>2, <2>3 DEF m
<1>3. stack' # <<>>
  <2>1. Len(stack') # 0
    BY <1>1, <1>2
  <2> QED
    BY <2>1
<1>4. \A k \in DOMAIN stack' : Sound(stack'[k]) /\ Placed(stack'[k], k, vars)
  BY <1>1, <1>2 DEF IInv, Stacked
<1>5. \A k \in DOMAIN stack' : k < Len(stack') => stack'[k].loop # None
  BY <1>1, <1>2 DEF IInv, Stacked
<1>6. Stacked'
  BY <1>1, <1>2, <1>3, <1>4, <1>5 DEF Stacked
<1> QED
  BY <1>1, <1>6 DEF IInv, TypeOK, Stacked

LEMMA EndLoopIInv == ASSUME IInv, EndLoop PROVE IInv'
<1> DEFINE e == [Top EXCEPT !.queue = <<>>, !.setup = None, !.inside = FALSE, !.loop = None]
<1>1. /\ Top.loop # None /\ vars' = (IF Top.loop.fresh THEN None ELSE vars)
      /\ stack' = [stack EXCEPT ![Len(stack)] = e]
      /\ UNCHANGED <<script, out, failed>>
  BY DEF EndLoop, Update
<1>2. /\ Top \in Environment /\ Sound(Top) /\ Placed(Top, Len(stack), vars)
      /\ Len(stack) \in Nat \ {0} /\ Top.nest = 1
  BY <1>1, TopFacts DEF Sound
<1>3. /\ e \in Environment /\ e.queue = <<>> /\ e.setup = None /\ e.inside = FALSE /\ e.loop = None
      /\ e.nest = Top.nest /\ e.lines = Top.lines
  <2>1. <<>> \in Seq(Lines)
    OBVIOUS
  <2> QED
    BY <1>2, <2>1 DEF Environment
<1> HIDE DEF e
<1>4. Sound(e)
  BY <1>2, <1>3, NothingCounted DEF Sound
<1>5. Placed(e, Len(stack), vars')
  BY <1>2, <1>3 DEF Placed
<1>6. vars' = vars \/ Len(stack) = 1
  <2>1. CASE Top.loop.fresh
    <3>1. ~ (Len(stack) > 1)
      BY <1>1, <1>2, <2>1, Zenon DEF Placed
    <3>2. Len(stack) = 1
      BY <3>1, TopFacts
    <3> QED
      BY <3>2
  <2>2. CASE ~Top.loop.fresh
    BY <1>1, <2>2
  <2> QED
    BY <2>1, <2>2
<1>7. Stacked'
  BY <1>1, <1>4, <1>5, <1>6, UpdateKeeps
<1> QED
  BY <1>1, <1>7 DEF IInv, TypeOK, Stacked

--------------------------------------------------------------------------------
(* Outside *)

LEMMA StartForIInv == ASSUME IInv, StartFor PROVE IInv'
<1> DEFINE s == [var |-> Line.var, to |-> Eval(Line.to)]
           e == [Rest EXCEPT !.setup = s, !.inside = TRUE]
<1>1. /\ Executing /\ ~Top.inside /\ Line.op = "for" /\ Bound(Line)
      /\ stack' = [stack EXCEPT ![Len(stack)] = e]
      /\ UNCHANGED <<script, vars, out, failed>>
  BY DEF StartFor, Command, Update
<1>2. /\ Rest \in Environment /\ Sound(Rest) /\ Placed(Rest, Len(stack), vars)
      /\ Rest.loop = None /\ ~Rest.inside /\ Line \in Steps
  BY <1>1, RestFacts
<1>3. s \in Setup /\ s # None
  <2>1. Line.var \in Names /\ Line.to \in Expressions
    BY <1>1, <1>2, LineKinds
  <2>2. Eval(Line.to) \in Number
    BY <1>1, <2>1, EvalIsNumber DEF Bound, Substituted
  <2>3. s \in Setup
    BY <2>1, <2>2 DEF Setup
  <2> QED
    BY <2>3, Nones
<1> HIDE DEF s
<1>4. /\ e \in Environment /\ e.setup = s /\ e.inside = TRUE /\ e.loop = None
      /\ e.nest = Rest.nest /\ e.queue = Rest.queue /\ e.lines = Rest.lines
  BY <1>2, <1>3 DEF Environment
<1> HIDE DEF e
<1>5. Sound(e)
  BY <1>2, <1>3, <1>4 DEF Sound
<1>6. Placed(e, Len(stack), vars')
  BY <1>1, <1>2, <1>4 DEF Placed
<1>7. Stacked'
  BY <1>1, <1>5, <1>6, UpdateKeeps
<1> QED
  BY <1>1, <1>7 DEF IInv, TypeOK, Stacked

LEMMA StartOneLinerIInv == ASSUME IInv, StartOneLiner PROVE IInv'
<1> DEFINE to == Eval(Line.to)
           step(k) == IF k % 2 = 1 THEN Bind(Line.var, k \div 2) ELSE Line.cmd
           steps == [k \in 1..(2 * to) |-> step(k)]
           last == IF vars = None THEN <<Unbind>> ELSE <<>>
           lines == steps \o last \o Tail(Top.lines)
           e == [Top EXCEPT !.lines = lines]
<1>1. /\ Executing /\ ~Top.inside /\ Line.op = "one" /\ Bound(Line)
      /\ stack' = [stack EXCEPT ![Len(stack)] = e]
      /\ UNCHANGED <<script, vars, out, failed>>
  BY DEF StartOneLiner, Command, Update
<1>2. /\ Top \in Environment /\ Sound(Top) /\ Placed(Top, Len(stack), vars)
      /\ Top.loop = None /\ ~Top.inside /\ (Len(stack) > 1 => vars # None)
  BY <1>1, TopFacts DEF Executing
<1>3. /\ Line.var \in Names /\ Line.cmd \in Steps /\ Line.cmd # Unbind
      /\ to \in 0 .. MaxValue
  <2>1. Line.var \in Names /\ Line.to \in Expressions /\ Line.cmd \in Commands
    BY <1>1, RestFacts, LineKinds
  <2>2. to \in Number
    BY <1>1, <2>1, EvalIsNumber DEF Bound, Substituted
  <2> QED
    BY <1>1, <2>1, <2>2, LineKinds DEF Number
<1>4. steps \in Seq(Steps) /\ NoUnbind(steps)
  <2>1. to \in Nat /\ 2 * to \in Nat
    BY <1>3, Nones
  <2>2. ASSUME NEW k \in 1 .. (2 * to)
        PROVE  step(k) \in Steps /\ step(k) # Unbind
    <3>1. CASE k % 2 = 1
      <4>1. k \div 2 \in 0 .. MaxValue
        BY <1>3, <2>1, <3>1, Nones
      <4> QED
        BY <1>3, <3>1, <4>1, LineKinds
    <3>2. CASE k % 2 # 1
      BY <1>3, <3>2
    <3> QED
      BY <3>1, <3>2
  <2> HIDE DEF step, to
  <2> QED
    BY <2>1, <2>2 DEF NoUnbind
<1>5. last \in Seq(Steps) /\ (vars # None => NoUnbind(last))
  <2>1. <<Unbind>> \in Seq(Steps) /\ <<>> \in Seq(Steps) /\ NoUnbind(<<>>)
    BY LineKinds DEF NoUnbind
  <2> QED
    BY <2>1
<1>6. Tail(Top.lines) \in Seq(Steps) /\ (Len(stack) > 1 => NoUnbind(Tail(Top.lines)))
  <2>1. Rest.lines = Tail(Top.lines) /\ Rest \in Environment /\ Placed(Rest, Len(stack), vars)
    BY <1>1, RestFacts
  <2> QED
    BY <2>1 DEF Environment, Placed, NoUnbind
<1> HIDE DEF steps, last
<1>7. lines \in Seq(Steps) /\ (Len(stack) > 1 => NoUnbind(lines))
  <2>1. steps \o last \in Seq(Steps) /\ (Len(stack) > 1 => NoUnbind(steps \o last))
    BY <1>2, <1>4, <1>5, JoinedLines
  <2> QED
    BY <1>6, <2>1, JoinedLines
<1> HIDE DEF lines
<1>8. /\ e \in Environment /\ e.lines = lines /\ e.inside = Top.inside /\ e.loop = Top.loop
      /\ e.nest = Top.nest /\ e.queue = Top.queue /\ e.setup = Top.setup
  BY <1>2, <1>7 DEF Environment
<1> HIDE DEF e
<1>9. Sound(e)
  BY <1>2, <1>8 DEF Sound
<1>10. Placed(e, Len(stack), vars')
  BY <1>1, <1>2, <1>7, <1>8 DEF Placed, NoUnbind
<1>11. Stacked'
  BY <1>1, <1>9, <1>10, UpdateKeeps
<1> QED
  BY <1>1, <1>11 DEF IInv, TypeOK, Stacked

LEMMA BindVariableIInv == ASSUME IInv, BindVariable PROVE IInv'
<1> DEFINE dict == IF vars = None THEN NoNames ELSE vars
<1>1. /\ Executing /\ stack' = [stack EXCEPT ![Len(stack)] = Rest]
      /\ UNCHANGED <<script, out, failed>>
  BY DEF BindVariable, Update
<1>2. /\ Line \in Steps /\ (Len(stack) > 1 => Line # Unbind)
      /\ Sound(Rest) /\ Placed(Rest, Len(stack), vars) /\ Rest.loop = None
  BY <1>1, RestFacts
<1>3. \/ vars' \in Scope /\ vars' # None
      \/ vars' = None /\ Len(stack) = 1
  <2>1. CASE Line.op = "bind" /\ vars' = [dict EXCEPT ![Line.var] = Line.val]
    <3>1. dict \in Scope
      BY DEF IInv, TypeOK, NoNames, Scope, Number
    <3> HIDE DEF dict
    <3>2. Line.var \in Names /\ Line.val \in Number
      BY <1>2, <2>1, LineKinds DEF Number
    <3>3. vars' \in Scope
      BY <2>1, <3>1, <3>2 DEF Scope
    <3> QED
      BY <3>3, Nones
  <2>2. CASE Line.op = "unbind" /\ vars' = None
    <3>1. Line = Unbind
      BY <1>2, <2>2, LineKinds
    <3>2. ~ (Len(stack) > 1)
      BY <1>2, <3>1
    <3>3. Len(stack) = 1
      BY <3>2, TopFacts
    <3> QED
      BY <2>2, <3>3
  <2> QED
    BY <2>1, <2>2 DEF BindVariable
<1>4. Placed(Rest, Len(stack), vars')
  BY <1>2 DEF Placed
<1>5. Stacked'
  BY <1>1, <1>2, <1>3, <1>4, UpdateKeeps
<1> QED
  BY <1>1, <1>3, <1>5 DEF IInv, TypeOK, Stacked

LEMMA CmdLetIInv == ASSUME IInv, CmdLet PROVE IInv'
<1> DEFINE locals == [Rest.locals EXCEPT ![Line.var] = Eval(Line.val)]
           e == [Rest EXCEPT !.locals = locals]
<1>1. /\ Executing /\ Line.op = "let" /\ Bound(Line) /\ stack' = [stack EXCEPT ![Len(stack)] = e]
      /\ UNCHANGED <<script, vars, out, failed>>
  BY DEF CmdLet, Command, Update
<1>2. /\ Rest \in Environment /\ Sound(Rest) /\ Placed(Rest, Len(stack), vars) /\ Line \in Steps
  BY <1>1, RestFacts
<1>3. locals \in Scope
  <2>1. Line.var \in Names /\ Line.val \in Expressions
    BY <1>1, <1>2, LineKinds
  <2>2. Eval(Line.val) \in Number
    BY <1>1, <2>1, EvalIsNumber DEF Bound, Substituted
  <2>3. Rest.locals \in Scope
    BY <1>2 DEF Environment
  <2> QED
    BY <2>1, <2>2, <2>3 DEF Scope
<1> HIDE DEF locals
<1>4. /\ e \in Environment /\ e.lines = Rest.lines /\ e.inside = Rest.inside /\ e.loop = Rest.loop
      /\ e.nest = Rest.nest /\ e.queue = Rest.queue /\ e.setup = Rest.setup
  BY <1>2, <1>3 DEF Environment
<1> HIDE DEF e
<1>5. Sound(e)
  BY <1>2, <1>4 DEF Sound
<1>6. Placed(e, Len(stack), vars')
  BY <1>1, <1>2, <1>4 DEF Placed
<1>7. Stacked'
  BY <1>1, <1>5, <1>6, UpdateKeeps
<1> QED
  BY <1>1, <1>7 DEF IInv, TypeOK, Stacked

LEMMA CmdIncludeIInv == ASSUME IInv, CmdInclude PROVE IInv'
<1> DEFINE lines == File \o Rest.lines
           e == [Rest EXCEPT !.lines = lines]
<1>1. /\ Executing /\ stack' = [stack EXCEPT ![Len(stack)] = e]
      /\ UNCHANGED <<script, vars, out, failed>>
  BY DEF CmdInclude, Command, Update
<1>2. Rest \in Environment /\ Sound(Rest) /\ Placed(Rest, Len(stack), vars)
  BY <1>1, RestFacts
<1>3. lines \in Seq(Steps) /\ (Len(stack) > 1 => NoUnbind(lines))
  <2>1. File \in Seq(Lines)
    BY ScriptAssumption, SeqMonotonic
  <2>2. File \in Seq(Steps) /\ NoUnbind(File)
    BY <2>1, LinesHaveNone
  <2>3. Rest.lines \in Seq(Steps) /\ (Len(stack) > 1 => NoUnbind(Rest.lines))
    BY <1>2 DEF Environment, Placed, NoUnbind
  <2> QED
    BY <2>2, <2>3, JoinedLines
<1> HIDE DEF lines
<1>4. /\ e \in Environment /\ e.lines = lines /\ e.inside = Rest.inside /\ e.loop = Rest.loop
      /\ e.nest = Rest.nest /\ e.queue = Rest.queue /\ e.setup = Rest.setup
  BY <1>2, <1>3 DEF Environment
<1> HIDE DEF e
<1>5. Sound(e)
  BY <1>2, <1>4 DEF Sound
<1>6. Placed(e, Len(stack), vars')
  BY <1>1, <1>2, <1>3, <1>4 DEF Placed, NoUnbind
<1>7. Stacked'
  BY <1>1, <1>5, <1>6, UpdateKeeps
<1> QED
  BY <1>1, <1>7 DEF IInv, TypeOK, Stacked

LEMMA CmdRunIInv == ASSUME IInv, CmdRun PROVE IInv'
<1>1. /\ Executing /\ Line.op = "run" /\ Bound(Line) /\ stack' = [stack EXCEPT ![Len(stack)] = Rest]
      /\ out' = Append(out, Visible(Line.name))
      /\ UNCHANGED <<script, vars, failed>>
  BY DEF CmdRun, Command, Update
<1>2. Line \in Steps /\ Sound(Rest) /\ Placed(Rest, Len(stack), vars)
  BY <1>1, RestFacts
<1>3. Line.name \in Names
  BY <1>1, <1>2, LineKinds
<1>4. Visible(Line.name) \in Number
  BY <1>1, <1>3, VisibleIsValue DEF Bound, Substituted
<1>5. out' \in Seq(Number)
  BY <1>1, <1>4 DEF IInv, TypeOK
<1>6. Stacked'
  BY <1>1, <1>2, UpdateKeeps
<1> QED
  BY <1>1, <1>5, <1>6 DEF IInv, TypeOK, Stacked

(* The program reads the next line when the last one has been executed.       *)
LEMMA ReadIInv == ASSUME IInv, NEW l \in Input, Read(l) PROVE IInv'
<1> DEFINE e == [Top EXCEPT !.lines = <<l>>]
<1>1. /\ Len(stack) = 1 /\ Len(script) < MaxLines /\ script' = Append(script, l)
      /\ stack' = [stack EXCEPT ![Len(stack)] = e]
      /\ UNCHANGED <<vars, out, failed>>
  BY DEF Read, Idle, Update
<1>2. Top \in Environment /\ Sound(Top) /\ Placed(Top, Len(stack), vars)
  BY TopFacts
<1>3. l \in Lines /\ <<l>> \in Seq(Steps)
  BY ScriptAssumption, LineKinds
<1>4. /\ e \in Environment /\ e.inside = Top.inside /\ e.loop = Top.loop
      /\ e.nest = Top.nest /\ e.queue = Top.queue /\ e.setup = Top.setup
  BY <1>2, <1>3 DEF Environment
<1> HIDE DEF e
<1>5. Sound(e)
  BY <1>2, <1>4 DEF Sound
<1>6. Placed(e, Len(stack), vars')
  BY <1>1, <1>2, <1>4 DEF Placed
<1>7. Stacked'
  BY <1>1, <1>5, <1>6, UpdateKeeps
<1>8. script' \in Seq(Lines) /\ Len(script') <= MaxLines
  <2>1. script \in Seq(Lines) /\ Len(script) \in Nat /\ MaxLines \in Nat
    BY ScriptAssumption DEF IInv, TypeOK
  <2>2. Append(script, l) \in Seq(Lines) /\ Len(Append(script, l)) = Len(script) + 1
    BY <1>3, <2>1
  <2> QED
    BY <1>1, <2>1, <2>2
<1> QED
  BY <1>1, <1>7, <1>8 DEF IInv, TypeOK, Stacked

--------------------------------------------------------------------------------
(* The theorems *)

LEMMA InitIInv == Init => IInv
<1> SUFFICES ASSUME Init PROVE IInv
  OBVIOUS
<1> DEFINE e == NewEnvironment(NoNames, <<>>)
<1>1. NoNames \in Scope
  BY DEF NoNames, Scope, Number
<1>2. <<>> \in Seq(Steps) /\ <<>> \in Seq(Lines) /\ <<>> \in Seq(Number) /\ Len(<<>>) = 0
  OBVIOUS
<1>3. /\ e \in Environment /\ e.inside = FALSE /\ e.nest = 1 /\ e.setup = None
      /\ e.queue = <<>> /\ e.loop = None
  BY <1>1, <1>2 DEF NewEnvironment, Environment
<1> HIDE DEF e
<1>4. Sound(e) /\ Placed(e, 1, vars)
  BY <1>3, NothingCounted DEF Sound, Placed
<1>5. stack = <<e>>
  BY DEF Init, e
<1>6. /\ stack \in Seq(Environment) /\ stack # <<>> /\ Len(stack) = 1
      /\ DOMAIN stack = {1} /\ stack[1] = e
  BY <1>3, <1>5
<1>7. Stacked
  BY <1>3, <1>4, <1>6 DEF Stacked
<1>8. script \in Seq(Lines) /\ Len(script) <= MaxLines
  BY <1>2, ScriptAssumption DEF Init
<1> QED
  BY <1>2, <1>6, <1>7, <1>8 DEF Init, IInv, TypeOK

LEMMA NextIInv == IInv /\ [Next]_variables => IInv'
<1> SUFFICES ASSUME IInv, [Next]_variables PROVE IInv'
  OBVIOUS
<1>1. CASE Queue
  BY <1>1, QueueIInv
<1>2. CASE StartLoop
  BY <1>2, StartLoopIInv
<1>3. CASE Iterate
  BY <1>3, IterateIInv
<1>4. CASE Return
  BY <1>4, ReturnIInv
<1>5. CASE EndLoop
  BY <1>5, EndLoopIInv
<1>6. CASE StartFor
  BY <1>6, StartForIInv
<1>7. CASE StartOneLiner
  BY <1>7, StartOneLinerIInv
<1>8. CASE BindVariable
  BY <1>8, BindVariableIInv
<1>9. CASE CmdLet
  BY <1>9, CmdLetIInv
<1>10. CASE CmdInclude
  BY <1>10, CmdIncludeIInv
<1>11. CASE CmdRun
  BY <1>11, CmdRunIInv
<1>12. CASE Fail
  BY <1>12 DEF Fail, IInv, TypeOK, Stacked
<1>13. ASSUME NEW l \in Input, Read(l) PROVE IInv'
  BY <1>13, ReadIInv
<1>14. CASE UNCHANGED variables
  BY <1>14 DEF variables, IInv, TypeOK, Stacked
<1> QED
  BY <1>1, <1>2, <1>3, <1>4, <1>5, <1>6, <1>7, <1>8, <1>9, <1>10, <1>11, <1>12, <1>13, <1>14
  DEF Next, Step

(* The inductive invariant: each environment under way counts what it queues, *)
(* and only the outermost loop restores the dict of the loop variables.       *)
THEOREM Inductive == Spec => []IInv
  BY InitIInv, NextIInv, PTL DEF Spec

(* Every variable keeps its type. *)
THEOREM TypeCorrect == Spec => []TypeOK
<1>1. IInv => TypeOK
  BY DEF IInv
<1> QED
  BY <1>1, Inductive, PTL

(* The level of nesting is that of the lines queued so far, so the end that   *)
(* starts a loop is its own, whatever the script and the file it includes.    *)
THEOREM NestsCounted == Spec => []NestCounts
<1>1. IInv => NestCounts
  <2> SUFFICES ASSUME IInv, NEW k \in DOMAIN stack
               PROVE  LET e == stack[k] IN
                      /\ e.nest = 1 + CountOf(e.queue, "for") - CountOf(e.queue, "end")
                      /\ e.inside <=> e.setup # None
                      /\ ~e.inside => e.queue = <<>> /\ e.loop = None
                      /\ e.loop # None => e.nest = 1
                      /\ k < Len(stack) => e.loop # None
    BY DEF NestCounts
  <2>1. Sound(stack[k]) /\ (k < Len(stack) => stack[k].loop # None)
    BY DEF IInv, Stacked
  <2> QED
    BY <2>1 DEF Sound
<1> QED
  BY <1>1, Inductive, PTL
================================================================================
