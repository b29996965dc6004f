-------------------------------- MODULE Batches --------------------------------
(* How build-network configures one host: the ARP task and the routing task   *)
(* append commands to the batch of the host, a list that both share, and      *)
(* commit it; RealHost.run sends the batch, joined in parts, and tries again  *)
(* when the connection fails.  In serial mode each task is a thread that main *)
(* joins before it starts the next one; with --geneve-tunnels there is no ARP *)
(* task; in parallel macvlan mode both tasks are in the pool at once.         *)
EXTENDS Naturals, Sequences, Functions

CONSTANTS
    Commands,      \* Commands[t]: what the task t appends, all different
    PerPart,       \* commands that fit in a command line (max_cmdline)
    MaxAttempts,   \* bound: attempts of run until its timeout
    None

Tasks == {"arp", "routes"}
Modes == {"serial", "tunnels", "macvlan"}
CommandsOf(t) == {Commands[t][k] : k \in DOMAIN Commands[t]}
AllCommands == UNION {CommandsOf(t) : t \in Tasks}

ASSUME BatchesAssumption ==
    /\ Commands \in [Tasks -> Seq(AllCommands)]
    /\ IsInjective(Commands["arp"] \o Commands["routes"])
    /\ PerPart \in Nat \ {0} /\ MaxAttempts \in Nat \ {0}
    /\ None \notin Seq(AllCommands)

VARIABLES
    mode,        \* one of Modes, which never changes
    main,        \* the stage of build_network
    pc,          \* pc[t]: where the task t is
    todo,        \* todo[t]: what it has not appended yet
    batch,       \* current_exec_batch
    held,        \* the tasks about to append to the list that is still the batch
    part,        \* part[t]: the commands that jointake returned to it
    rest,        \* rest[t]: the other ones
    attempts,    \* attempts[t]: attempts of its run that failed
    log,         \* the commands that the real host executed
    installed,   \* those that took effect
    lost         \* a command was executed and its answer was lost

vars == <<mode, main, pc, todo, batch, held, part, rest, attempts, log, installed, lost>>

TaskPC ==
    {"idle", "add", "create", "load", "append", "log", "loop", "length", "take", "store",
     "run", "reset", "ok", "failed"}
Ended(t) == pc[t] \in {"ok", "failed"}
Go(t, next) == pc' = [pc EXCEPT ![t] = next]

Init ==
    /\ mode \in Modes
    /\ main = IF mode = "serial" THEN "arp" ELSE "routes"
    /\ pc = [t \in Tasks |->
                IF (t = "arp" /\ mode = "tunnels") \/ (t = "routes" /\ mode = "serial")
                THEN "idle" ELSE "add"]
    /\ todo = Commands
    /\ batch = None
    /\ held = {}
    /\ part = [t \in Tasks |-> <<>>]
    /\ rest = [t \in Tasks |-> <<>>]
    /\ attempts = [t \in Tasks |-> 0]
    /\ log = <<>>
    /\ installed = {}
    /\ lost = FALSE

--------------------------------------------------------------------------------
(* exec_batch and exec_batch_commit.  Each use of current_exec_batch reads it *)
(* again: an exception if the other task has set it to None in between.       *)

TestBatch(t) ==
    /\ pc[t] = "add" /\ todo[t] # <<>>
    /\ Go(t, IF batch = None THEN "create" ELSE "load")
    /\ UNCHANGED <<mode, main, todo, batch, held, part, rest, attempts, log, installed, lost>>

(* A new list takes the place of one that the other task may have made since. *)
CreateBatch(t) ==
    /\ pc[t] = "create"
    /\ batch' = <<>> /\ held' = {}
    /\ Go(t, "load")
    /\ UNCHANGED <<mode, main, todo, part, rest, attempts, log, installed, lost>>

LoadBatch(t) ==
    /\ pc[t] = "load"
    /\ IF batch = None
       THEN Go(t, "failed") /\ UNCHANGED held
       ELSE Go(t, "append") /\ held' = held \cup {t}
    /\ UNCHANGED <<mode, main, todo, batch, part, rest, attempts, log, installed, lost>>

(* Nobody sends what is appended to a list that another one has replaced.     *)
AppendCommand(t) ==
    /\ pc[t] = "append"
    /\ batch' = IF t \in held THEN Append(batch, Head(todo[t])) ELSE batch
    /\ held' = held \ {t}
    /\ todo' = [todo EXCEPT ![t] = Tail(@)]
    /\ Go(t, "add")
    /\ UNCHANGED <<mode, main, part, rest, attempts, log, installed, lost>>

(* arp asks the host for a device before each entry: an error ends the task,  *)
(* and the list stays.                                                        *)
LookupFails ==
    /\ pc["arp"] = "add" /\ todo["arp"] # <<>>
    /\ Go("arp", "failed")
    /\ UNCHANGED <<mode, main, todo, batch, held, part, rest, attempts, log, installed, lost>>

(* exec_batch_commit has nothing to do without a list. *)
Commit(t) ==
    /\ pc[t] = "add" /\ todo[t] = <<>>
    /\ Go(t, IF batch = None THEN "ok" ELSE "log")
    /\ UNCHANGED <<mode, main, todo, batch, held, part, rest, attempts, log, installed, lost>>

LogBatch(t) ==
    /\ pc[t] = "log"
    /\ Go(t, IF batch = None THEN "failed" ELSE "loop")
    /\ UNCHANGED <<mode, main, todo, batch, held, part, rest, attempts, log, installed, lost>>

(* The condition of the loop reads the list twice. *)
CommitLoop(t) ==
    /\ pc[t] = "loop"
    /\ Go(t, IF batch = None THEN "reset" ELSE "length")
    /\ UNCHANGED <<mode, main, todo, batch, held, part, rest, attempts, log, installed, lost>>

LengthOfBatch(t) ==
    /\ pc[t] = "length"
    /\ Go(t, CASE batch = None -> "failed" [] batch = <<>> -> "reset" [] OTHER -> "take")
    /\ UNCHANGED <<mode, main, todo, batch, held, part, rest, attempts, log, installed, lost>>

Lesser(a, b) == IF a < b THEN a ELSE b

(* Mutant: the remainder starts one command too late. *)
JoinTake_Skips(commands) ==
    LET k == Lesser(PerPart, Len(commands)) IN
    <<SubSeq(commands, 1, k), SubSeq(commands, k + 2, Len(commands))>>

(* jointake: the commands that fit, and the remainder. *)
JoinTake(commands) ==
    LET k == Lesser(PerPart, Len(commands)) IN
    <<SubSeq(commands, 1, k), SubSeq(commands, k + 1, Len(commands))>>

TakePart(t) ==
    /\ pc[t] = "take"
    /\ IF batch = None
       THEN Go(t, "failed") /\ UNCHANGED <<part, rest>>
       ELSE /\ part' = [part EXCEPT ![t] = JoinTake(batch)[1]]
            /\ rest' = [rest EXCEPT ![t] = JoinTake(batch)[2]]
            /\ Go(t, "store")
    /\ UNCHANGED <<mode, main, todo, batch, held, attempts, log, installed, lost>>

StoreRest(t) ==
    /\ pc[t] = "store"
    /\ batch' = rest[t] /\ held' = {}
    /\ attempts' = [attempts EXCEPT ![t] = 0]
    /\ Go(t, "run")
    /\ UNCHANGED <<mode, main, todo, part, rest, log, installed, lost>>

ResetBatch(t) ==
    /\ pc[t] = "reset"
    /\ batch' = None /\ held' = {}
    /\ Go(t, "ok")
    /\ UNCHANGED <<mode, main, todo, part, rest, attempts, log, installed, lost>>

--------------------------------------------------------------------------------
(* RealHost.run: the shell executes the commands of the part one by one; the  *)
(* host refuses a route that it has, and may refuse any command.              *)

Refusals(t) ==
    LET sent == Range(part[t])
    IN  {refused \in SUBSET sent : installed \cap sent \subseteq refused}
Executed(commands, refused) ==
    /\ log' = log \o commands
    /\ installed' = installed \cup (Range(commands) \ refused)

(* The connection is lost while the shell executes the part. *)
Interrupted(t) ==
    /\ \E k \in 0..Len(part[t]), refused \in Refusals(t) :
        Executed(SubSeq(part[t], 1, k), refused)
    /\ lost' = TRUE

(* Until the timeout; then run raises RuntimeError. *)
TryAgain(t) ==
    IF attempts[t] < MaxAttempts
    THEN attempts' = [attempts EXCEPT ![t] = @ + 1] /\ UNCHANGED pc
    ELSE Go(t, "failed") /\ UNCHANGED attempts

(* An SSHException before the command is sent. *)
RunRefused(t) ==
    /\ pc[t] = "run"
    /\ TryAgain(t)
    /\ UNCHANGED <<mode, main, todo, batch, held, part, rest, log, installed, lost>>

(* An SSHException after it started. *)
RunLost(t) ==
    /\ pc[t] = "run"
    /\ Interrupted(t)
    /\ TryAgain(t)
    /\ UNCHANGED <<mode, main, todo, batch, held, part, rest>>

(* Another exception: run gives up. *)
RunBreaks(t) ==
    /\ pc[t] = "run"
    /\ Go(t, "failed")
    /\ UNCHANGED <<mode, main, todo, batch, held, part, rest, attempts, log, installed, lost>>

(* The connection is lost once run has returned: no exit code, an IOError.    *)
ReadBreaks(t) ==
    /\ pc[t] = "run"
    /\ Interrupted(t)
    /\ Go(t, "failed")
    /\ UNCHANGED <<mode, main, todo, batch, held, part, rest, attempts>>

(* Mutant: commands that exit with an error are sent again. *)
RunAnswered_Retries(t) ==
    /\ pc[t] = "run"
    /\ \E refused \in Refusals(t) :
        /\ Executed(part[t], refused)
        /\ IF refused = {} THEN Go(t, "loop") /\ UNCHANGED attempts ELSE TryAgain(t)
    /\ UNCHANGED <<mode, main, todo, batch, held, part, rest, lost>>

(* Mutant: stderr and the exit code are ignored. *)
RunAnswered_Ignores(t) ==
    /\ pc[t] = "run"
    /\ \E refused \in Refusals(t) : Executed(part[t], refused)
    /\ Go(t, "loop")
    /\ UNCHANGED <<mode, main, todo, batch, held, part, rest, attempts, lost>>

(* The exit code and stderr of the part: an error raises IOError, and what    *)
(* follows in the batch stays there.                                          *)
RunAnswered(t) ==
    /\ pc[t] = "run"
    /\ \E refused \in Refusals(t) :
        /\ Executed(part[t], refused)
        /\ Go(t, IF refused = {} THEN "loop" ELSE "failed")
    /\ UNCHANGED <<mode, main, todo, batch, held, part, rest, attempts, lost>>

--------------------------------------------------------------------------------
(* build_network *)

(* Serial mode: join returns whether or not the thread ended in an exception. *)
JoinArp ==
    /\ main = "arp" /\ Ended("arp")
    /\ main' = "routes"
    /\ Go("routes", "add")
    /\ UNCHANGED <<mode, todo, batch, held, part, rest, attempts, log, installed, lost>>

(* Mutant: the results of the futures are not looked at. *)
AllDone_NoResults ==
    /\ main = "routes"
    /\ \A t \in Tasks : pc[t] # "idle" => Ended(t)
    /\ main' = "built"
    /\ UNCHANGED <<mode, pc, todo, batch, held, part, rest, attempts, log, installed, lost>>

(* The second waitall, or join in serial mode. *)
AllDone ==
    /\ main = "routes"
    /\ \A t \in Tasks : pc[t] # "idle" => Ended(t)
    /\ main' = IF mode # "serial" /\ \E t \in Tasks : pc[t] = "failed" THEN "raised" ELSE "built"
    /\ UNCHANGED <<mode, pc, todo, batch, held, part, rest, attempts, log, installed, lost>>

TaskStep(t) ==
    \/ TestBatch(t) \/ CreateBatch(t) \/ LoadBatch(t) \/ AppendCommand(t)
    \/ Commit(t) \/ LogBatch(t) \/ CommitLoop(t) \/ LengthOfBatch(t)
    \/ TakePart(t) \/ StoreRest(t) \/ ResetBatch(t)
    \/ RunRefused(t) \/ RunLost(t) \/ RunBreaks(t) \/ ReadBreaks(t) \/ RunAnswered(t)
Done == main \in {"built", "raised"} /\ UNCHANGED vars

Next == JoinArp \/ AllDone \/ LookupFails \/ (\E t \in Tasks : TaskStep(t)) \/ Done

Spec == Init /\ [][Next]_vars

--------------------------------------------------------------------------------
(* Properties *)

(* Every variable keeps its type. *)
TypeOK ==
    /\ mode \in Modes
    /\ main \in {"arp", "routes", "built", "raised"}
    /\ pc \in [Tasks -> TaskPC]
    /\ todo \in [Tasks -> Seq(AllCommands)]
    /\ batch \in Seq(AllCommands) \cup {None}
    /\ held \subseteq Tasks
    /\ part \in [Tasks -> Seq(AllCommands)] /\ rest \in [Tasks -> Seq(AllCommands)]
    /\ attempts \in [Tasks -> 0..MaxAttempts]
    /\ log \in Seq(AllCommands)
    /\ installed \subseteq AllCommands
    /\ lost \in BOOLEAN

(* One task of the host at a time. *)
Alone == mode # "macvlan"

(* A task that ends without an exception has configured all that it had to,   *)
(* whatever run had to send again; the ARP task too, whose commands the       *)
(* routing task may find in the batch if the ARP task failed.                 *)
OkMeansInstalled ==
    Alone => \A t \in Tasks : pc[t] = "ok" => CommandsOf(t) \subseteq installed

(* Unless an answer was lost, the host executes the commands of its tasks at  *)
(* most once and in the order in which they were appended.                    *)
RunInOrder ==
    Alone /\ ~lost =>
        LET asked == Commands["arp"] \o Commands["routes"]
            At(c) == CHOOSE k \in DOMAIN asked : asked[k] = c
        IN  \A i, j \in DOMAIN log : i < j => At(log[i]) < At(log[j])

(* If BUILT follows in parallel mode and no answer was lost, no command was   *)
(* executed twice: the two tasks of macvlan mode may both take the same ones  *)
(* from the list, but the host refuses the second time, and a task fails.     *)
BuiltOnce ==
    main = "built" /\ mode # "serial" /\ ~lost => IsInjective(log)

(* BUILT follows only if every route is there, where futures keep exceptions. *)
BuiltConfigured ==
    mode = "tunnels" /\ main = "built" => CommandsOf("routes") \subseteq installed
================================================================================
