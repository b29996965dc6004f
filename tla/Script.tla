--------------------------------- MODULE Script ---------------------------------
(* The topology language: ExecutionEnvironment.exec_ is given the lines of a  *)
(* script one at a time.  The lines of a multi-line for are queued until its  *)
(* end, then executed once per value, each time by a new environment with a   *)
(* copy of the locals; loop variables are in one dict that all share.         *)
(* Commands stand for `let', `include', and `run', for every other one.       *)
EXTENDS Naturals, Sequences, FiniteSets

CONSTANTS
    Names,        \* names of variables, for loops and for let
    Input,        \* the lines that scripts are made of
    File,         \* the lines of a file that the script may include
    MaxLines,     \* bound: lines of a script
    MaxValue,     \* bound on the literals
    Unbound,      \* the value of a name that is not defined
    None

--------------------------------------------------------------------------------
(* Lines *)

Lit(n) == <<"lit", n>>
Ref(x) == <<"ref", x>>
Expressions == {Lit(n) : n \in 0..MaxValue} \cup {Ref(x) : x \in Names}

Run(x) == [op |-> "run", name |-> x]
Let(x, e) == [op |-> "let", var |-> x, val |-> e]
For(x, e) == [op |-> "for", var |-> x, to |-> e]           \* for x in 0..e do
OneLiner(x, e, c) == [op |-> "one", var |-> x, to |-> e, cmd |-> c]
EndFor == [op |-> "end"]
Include == [op |-> "include"]

Commands ==
    {Run(x) : x \in Names} \cup {Let(x, e) : x \in Names, e \in Expressions} \cup {Include}
Lines ==
    Commands \cup {EndFor}
    \cup {For(x, e) : x \in Names, e \in Expressions}
    \cup {OneLiner(x, e, c) : x \in Names, e \in Expressions, c \in Commands}

(* What exec_ does around the command of a one-liner. *)
Bind(x, n) == [op |-> "bind", var |-> x, val |-> n]
Unbind == [op |-> "unbind"]
Steps == Lines \cup {Unbind} \cup {Bind(x, n) : x \in Names, n \in 0..MaxValue}

ASSUME ScriptAssumption ==
    /\ IsFiniteSet(Names)
    /\ MaxLines \in Nat /\ MaxValue \in Nat
    /\ Input \subseteq Lines /\ File \in Seq(Lines \ {Include})
    /\ Unbound \notin Nat
    /\ None \notin [Names -> Nat \cup {Unbound}]
    /\ None \notin [var : Names, to : Nat] \cup [next : Nat, fresh : BOOLEAN]

VARIABLES
    script,     \* the lines read so far
    stack,      \* the environments whose exec_ is under way, the script's first
    vars,       \* the dict of the loop variables, None outside loops
    out,        \* what the commands saw: the value of the variable they name
    failed      \* exec_ raised an exception

variables == <<script, stack, vars, out, failed>>

Number == 0..MaxValue
Scope == [Names -> Number \cup {Unbound}]
NoNames == [x \in Names |-> Unbound]

--------------------------------------------------------------------------------
(* Environments: loop is the for that an environment executes. *)

Setup == [var : Names, to : Number]
Loop == [next : Number, fresh : BOOLEAN]
Environment ==
    [locals : Scope, lines : Seq(Steps), inside : BOOLEAN, nest : Nat,
     setup : Setup \cup {None}, queue : Seq(Lines), loop : Loop \cup {None}]

NewEnvironment(locals, lines) ==
    [locals |-> locals, lines |-> lines, inside |-> FALSE, nest |-> 1,
     setup |-> None, queue |-> <<>>, loop |-> None]

Top == stack[Len(stack)]
Update(e) == stack' = [stack EXCEPT ![Len(stack)] = e]
Pop == SubSeq(stack, 1, Len(stack) - 1)

(* HostPoolSubstitutionDict: loop variables hide locals.  A name that neither *)
(* defines is taken for that of a host, and find_host raises RuntimeError:    *)
(* no host has the name of a variable here.                                   *)
Visible(x) == IF vars # None /\ vars[x] # Unbound THEN vars[x] ELSE Top.locals[x]
Eval(e) == IF e[1] = "lit" THEN e[2] ELSE Visible(e[2])

(* The names that exec_ substitutes when it meets the line. *)
NamesIn(e) == IF e[1] = "ref" THEN {e[2]} ELSE {}
Substituted(l) ==
    CASE l.op = "run" -> {l.name}
      [] l.op = "let" -> NamesIn(l.val)
      [] l.op \in {"for", "one"} -> NamesIn(l.to)
      [] OTHER -> {}
Bound(l) == \A x \in Substituted(l) : Visible(x) # Unbound

Executing == ~failed /\ Top.lines # <<>> /\ Top.loop = None
Line == Head(Top.lines)
Rest == [Top EXCEPT !.lines = Tail(@)]
Command(op) == Executing /\ ~Top.inside /\ Line.op = op
Idle == Len(stack) = 1 /\ Top.lines = <<>> /\ Top.loop = None

Init ==
    /\ script = <<>>
    /\ stack = <<NewEnvironment(NoNames, <<>>)>>
    /\ vars = None
    /\ out = <<>>
    /\ failed = FALSE

(* The loop of the main program over the lines of the file. *)
Read(l) ==
    /\ Idle /\ ~failed
    /\ Len(script) < MaxLines
    /\ script' = Append(script, l)
    /\ Update([Top EXCEPT !.lines = <<l>>])
    /\ UNCHANGED <<vars, out, failed>>

--------------------------------------------------------------------------------
(* Inside a multi-line for *)

(* Mutant: the for of a one-liner is counted too. *)
Nesting_OneLiners(l) == IF l.op \in {"for", "one"} THEN 1 ELSE 0

Nesting(l) == IF l.op = "for" THEN 1 ELSE 0

Queue ==
    /\ Executing /\ Top.inside
    /\ Line.op \notin {"bind", "unbind"}
    /\ ~ (Line = EndFor /\ Top.nest = 1)
    /\ Update([Rest EXCEPT !.queue = Append(@, Line),
                           !.nest = IF Line = EndFor THEN @ - 1 ELSE @ + Nesting(Line)])
    /\ UNCHANGED <<script, vars, out, failed>>

(* The end of the outermost one: the loop is executed. *)
StartLoop ==
    /\ Executing /\ Top.inside
    /\ Line = EndFor /\ Top.nest = 1
    /\ vars' = IF vars = None THEN NoNames ELSE vars
    /\ Update([Rest EXCEPT !.loop = [next |-> 0, fresh |-> vars = None]])
    /\ UNCHANGED <<script, out, failed>>

Iterate ==
    /\ ~failed /\ Top.loop # None
    /\ Top.loop.next < Top.setup.to
    /\ vars' = [vars EXCEPT ![Top.setup.var] = Top.loop.next]
    /\ stack' = Append([stack EXCEPT ![Len(stack)].loop.next = @ + 1],
                       NewEnvironment(Top.locals, Top.queue))
    /\ UNCHANGED <<script, out, failed>>

(* Mutant: the environments of a loop share the locals of the outer one. *)
Return_SharedLocals ==
    /\ ~failed /\ Len(stack) > 1
    /\ Top.lines = <<>> /\ Top.loop = None
    /\ stack' = [Pop EXCEPT ![Len(stack) - 1].locals = Top.locals]
    /\ UNCHANGED <<script, vars, out, failed>>

(* The environment of one value has executed its lines. *)
Return ==
    /\ ~failed /\ Len(stack) > 1
    /\ Top.lines = <<>> /\ Top.loop = None
    /\ stack' = Pop
    /\ UNCHANGED <<script, vars, out, failed>>

EndLoop ==
    /\ ~failed /\ Top.loop # None
    /\ Top.loop.next >= Top.setup.to
    /\ vars' = IF Top.loop.fresh THEN None ELSE vars
    /\ Update([Top EXCEPT !.queue = <<>>, !.setup = None, !.inside = FALSE, !.loop = None])
    /\ UNCHANGED <<script, out, failed>>

--------------------------------------------------------------------------------
(* Outside *)

(* The range may depend on variables: they are replaced here. *)
StartFor ==
    /\ Command("for") /\ Bound(Line)
    /\ Update([Rest EXCEPT !.setup = [var |-> Line.var, to |-> Eval(Line.to)], !.inside = TRUE])
    /\ UNCHANGED <<script, vars, out, failed>>

(* A for on one line: its command is executed by this environment. *)
StartOneLiner ==
    /\ Command("one") /\ Bound(Line)
    /\ LET to == Eval(Line.to)
           step(k) == IF k % 2 = 1 THEN Bind(Line.var, k \div 2) ELSE Line.cmd
       IN  Update([Top EXCEPT !.lines = [k \in 1..(2 * to) |-> step(k)]
                                        \o (IF vars = None THEN <<Unbind>> ELSE <<>>)
                                        \o Tail(@)])
    /\ UNCHANGED <<script, vars, out, failed>>

(* vars.update, and the end of a one-liner that no loop contains. *)
BindVariable ==
    /\ Executing
    /\ \/ /\ Line.op = "bind"
          /\ vars' = [(IF vars = None THEN NoNames ELSE vars) EXCEPT ![Line.var] = Line.val]
       \/ Line.op = "unbind" /\ vars' = None
    /\ Update(Rest)
    /\ UNCHANGED <<script, out, failed>>

CmdLet ==
    /\ Command("let") /\ Bound(Line)
    /\ Update([Rest EXCEPT !.locals[Line.var] = Eval(Line.val)])
    /\ UNCHANGED <<script, vars, out, failed>>

CmdInclude ==
    /\ Command("include")
    /\ Update([Rest EXCEPT !.lines = File \o @])
    /\ UNCHANGED <<script, vars, out, failed>>

CmdRun ==
    /\ Command("run") /\ Bound(Line)
    /\ out' = Append(out, Visible(Line.name))
    /\ Update(Rest)
    /\ UNCHANGED <<script, vars, failed>>

(* An end without a for, or a name that nothing defines: the exception leaves *)
(* every exec_ under way, and the script ends.                                *)
Fail ==
    /\ Executing /\ ~Top.inside
    /\ Line = EndFor \/ ~Bound(Line)
    /\ failed' = TRUE
    /\ UNCHANGED <<script, stack, vars, out>>

Step ==
    \/ Queue \/ StartLoop \/ Iterate \/ Return \/ EndLoop
    \/ StartFor \/ StartOneLiner \/ BindVariable
    \/ CmdLet \/ CmdInclude \/ CmdRun \/ Fail

Next == Step \/ \E l \in Input : Read(l)

Spec == Init /\ [][Next]_variables

--------------------------------------------------------------------------------
(* Properties *)

(* Every variable keeps its type. *)
TypeOK ==
    /\ script \in Seq(Lines) /\ Len(script) <= MaxLines
    /\ stack \in Seq(Environment) /\ stack # <<>>
    /\ vars \in Scope \cup {None}
    /\ out \in Seq(Number)
    /\ failed \in BOOLEAN

CountOf(lines, op) == Cardinality({k \in DOMAIN lines : lines[k].op = op})

(* The level of nesting is that of the lines queued so far, so the end that   *)
(* starts the loop is its own; nothing is queued outside a loop; and a new    *)
(* environment never starts in the middle of a nested one.                    *)
NestCounts ==
    \A k \in DOMAIN stack : LET e == stack[k] IN
        /\ e.nest = 1 + CountOf(e.queue, "for") - CountOf(e.queue, "end")
        /\ e.inside <=> e.setup # None
        /\ ~e.inside => e.queue = <<>> /\ e.loop = None
        /\ e.loop # None => e.nest = 1
        /\ k < Len(stack) => e.loop # None
================================================================================
