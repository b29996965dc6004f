------------------------------- MODULE MCShaper --------------------------------
(* Instances of Shaper: one or two threads that shape the link, two values.   *)
EXTENDS Shaper

CONSTANTS main, pipe, v1, v2

(* The script alone; two threads whose calls only meet each other; and two    *)
(* with timers and errors of tc and of the link task.                         *)
Executions ==
    {[callers |-> {main}, calls |-> 4, at |-> FALSE, errors |-> FALSE],
     [callers |-> {main, pipe}, calls |-> 3, at |-> FALSE, errors |-> FALSE],
     [callers |-> {main, pipe}, calls |-> 2, at |-> TRUE, errors |-> TRUE]}
================================================================================
