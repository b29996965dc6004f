------------------------------ MODULE ScriptMeaning ------------------------------
(* What a script means, as README.md:483-535 describes the language: blocks   *)
(* nest, a loop variable is replaced by each value of its range in the block, *)
(* and let holds from its line to the end of its block.  That a range may name*)
(* variables is said in src/sherlockfog.py:3040 and 3050, and used by scripts *)
(* of src/test/test_exps; README.md:579 rules it out.                         *)
EXTENDS Script, SequencesExt

(* A file that is included is read in the context of the include. *)
Expanded(lines) ==
    FlattenSeq([k \in DOMAIN lines |->
        IF lines[k] = Include THEN File ELSE <<lines[k]>>])

(* The line that ends the for that lines[k] starts; none if it is not there. *)
Balanced(lines, i, j) ==
    CountOf(SubSeq(lines, i, j), "for") = CountOf(SubSeq(lines, i, j), "end")
EndOf(lines, k) ==
    {j \in k..Len(lines) : Balanced(lines, k, j) /\ \A i \in k..(j - 1) : ~Balanced(lines, k, i)}

ValueIn(scope, e) == IF e[1] = "lit" THEN e[2] ELSE scope[e[2]]

(* Syntactic replacement of a loop variable in the command of a one-liner. *)
Shown(n) == [op |-> "show", val |-> n]
Replaced(c, x, n) ==
    CASE c.op = "run" /\ c.name = x -> <<Shown(n)>>
      [] c.op = "let" /\ c.val = Ref(x) -> <<Let(c.var, Lit(n))>>
      [] OTHER -> <<c>>

(* What the commands see.  Unbound stands where the script means nothing: a   *)
(* name that is not defined, an end without its for.                          *)
Unless(v, seen) == IF v = Unbound THEN <<Unbound>> ELSE seen

RECURSIVE Meaning(_, _)
Meaning(lines, scope) ==
    IF lines = <<>> THEN <<>>
    ELSE LET l == Head(lines)
             rest == Tail(lines)
             With(x, v) == [scope EXCEPT ![x] = v]
         IN  CASE l.op = "show" -> <<l.val>> \o Meaning(rest, scope)
               [] l.op = "end" -> <<Unbound>>
               [] l.op = "run" -> Unless(scope[l.name], <<scope[l.name]>> \o Meaning(rest, scope))
               [] l.op = "let" ->
                    LET v == ValueIn(scope, l.val)
                    IN  Unless(v, Meaning(rest, With(l.var, v)))
               [] l.op = "one" ->
                    LET to == ValueIn(scope, l.to)
                    IN  Unless(to, Meaning(FlattenSeq([n \in 1..to |->
                            Expanded(Replaced(l.cmd, l.var, n - 1))]) \o rest, scope))
               [] l.op = "for" ->
                    LET to == ValueIn(scope, l.to)
                        end == CHOOSE j \in EndOf(lines, 1) : TRUE
                        block == SubSeq(lines, 2, end - 1)
                    IN  Unless(to,
                            IF EndOf(lines, 1) = {} THEN <<>>
                            ELSE FlattenSeq([n \in 1..to |-> Meaning(block, With(l.var, n - 1))])
                                 \o Meaning(SubSeq(lines, end + 1, Len(lines)), scope))

(* The variables of the loops around line k. *)
LoopsAround(lines, k) ==
    {lines[i].var : i \in {j \in 1..(k - 1) :
        lines[j].op = "for" /\ \A e \in EndOf(lines, j) : e >= k}}
LoopNames(lines) == {lines[k].var : k \in {j \in DOMAIN lines : lines[j].op \in {"for", "one"}}}
LetNames(lines) ==
    {lines[k].var : k \in {j \in DOMAIN lines : lines[j].op = "let"}}
    \cup {lines[k].cmd.var : k \in {j \in DOMAIN lines : lines[j].op = "one" /\ lines[j].cmd.op = "let"}}

Uses(l) ==
    Substituted(l) \cup (IF l.op = "one" THEN Substituted(l.cmd) \ {l.var} ELSE {})

(* Names are used one way: a variable of a loop is no variable of a let, not  *)
(* that of a loop inside; and inside a loop only the variables of the loops   *)
(* around are read.  Outside of loops any name may be read, defined or not.   *)
WellScoped(lines) ==
    /\ LoopNames(lines) \cap LetNames(lines) = {}
    /\ \A k \in DOMAIN lines :
        /\ lines[k].op \in {"for", "one"} => lines[k].var \notin LoopsAround(lines, k)
        /\ LoopsAround(lines, k) # {} =>
            Uses(lines[k]) \cap LoopNames(lines) \subseteq LoopsAround(lines, k)

(* Between two lines of the script, its commands have seen what the script    *)
(* means, if it uses names one way; and when an exception ends it, its        *)
(* commands have seen what it means up to the first place without meaning,    *)
(* where the exception is.  A for without its end means nothing.              *)
MeansAsWritten ==
    WellScoped(Expanded(script)) =>
        LET meaning == Meaning(Expanded(script), NoNames)
        IN  /\ Idle => out = meaning
            /\ failed => IsPrefix(Append(out, Unbound), meaning)
================================================================================
