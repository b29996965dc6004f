-------------------------------- MODULE HostLife --------------------------------
(* The life of one virtual host on its real host: the steps of Host.__init__, *)
(* each of which makes things on the real host and then schedules the         *)
(* commands that undo them, the thread of its pipe, close, cleanup and the    *)
(* destructor.  Any command may fail.  With docker the processes of the host  *)
(* run in a container and not in a cgroup.  A sysctl of the script, or of a   *)
(* remote command that may come while the host is closed, is undone too.      *)
(* Names that Cores has too begin with Life here: HostProofs extends both.     *)
EXTENDS Naturals, Sequences, Functions

CONSTANTS
    CoreErrors,     \* the exceptions get_unused_core may raise
    CommandErrors,  \* what a command may raise: "io" (exit code), "ssh" (no answer)
    Values,         \* the values of a sysctl variable; one is "original"
    MaxCalls        \* bound: sysctl calls

Things == {"helpers", "netns", "etc", "cgroup", "container", "sshd", "nc", "socket"}
(* Mutant: netcat runs outside of the namespace. *)
Processes_Outside == {"sshd"}
(* What runs in the namespace, where cleanup finds it. *)
Processes == {"sshd", "nc"}

ASSUME HostLifeAssumption ==
    /\ CoreErrors \subseteq {"StopIteration", "RuntimeError"}
    /\ CommandErrors \subseteq {"io", "ssh"}
    /\ "original" \in Values
    /\ Values \cap (Things \cup {"kill", "sync", "stop", "nothing"}) = {}
    /\ MaxCalls \in Nat

VARIABLES
    stage,      \* where the host is in its life
    todo,       \* the steps of __init__ that remain
    real,       \* what exists on the real host because of this host
    del_cmds,   \* the cleanup commands, in the order they will run
    next,       \* position of cleanup in del_cmds
    back,       \* the stage that follows cleanup
    pipe,       \* the thread of the pipe
    channels,   \* pipe_handler.channels
    setting,    \* a sysctl variable of the real host, as the last call left it
    calls,      \* how many sysctl calls there were
    remote,     \* what a remote sysctl has read and not yet scheduled to restore
    excused     \* what a failure makes impossible to undo

hostVars == <<todo, pipe, channels>>
sysctlVars == <<setting, calls, remote>>
lifeVars == <<stage, real, del_cmds, next, back, excused, hostVars, sysctlVars>>

Steps == <<"real_host", "helpers", "netns", "cgroup", "sysctl", "sshd", "pipe">>
DockerSteps == <<"real_host", "helpers", "netns", "docker", "pipe">>

(* What a step of __init__ makes.  Its commands run one by one: a failure     *)
(* leaves any part of it.                                                     *)
Makes(s) ==
    CASE s = "helpers" -> {"helpers"}
      [] s = "netns"   -> {"netns", "etc"}
      [] s = "cgroup"  -> {"cgroup"}
      [] s = "sshd"    -> {"sshd"}
      [] s = "docker"  -> {"container", "sshd"}
      [] OTHER         -> {}

(* Mutant: the commands of the namespace run in the order they were given. *)
Schedule_Append(s) ==
    CASE s = "helpers" -> del_cmds \o <<"helpers">>
      [] s = "netns"   -> del_cmds \o <<"etc", "netns", "kill">>
      [] s = "cgroup"  -> del_cmds \o <<"sync", "cgroup">>
      [] s = "docker"  -> del_cmds \o <<"container", "stop">>
      [] s = "pipe"    -> del_cmds \o <<"socket">>
      [] OTHER         -> del_cmds

(* Mutant: the cgroup is scheduled when its cores are set, not when it exists. *)
Schedule_CgroupLater(s) ==
    CASE s = "helpers" -> <<"helpers">> \o del_cmds
      [] s = "netns"   -> <<"kill", "netns", "etc">> \o del_cmds
      [] s = "sysctl"  -> del_cmds \o <<"sync", "cgroup">>
      [] s = "docker"  -> <<"stop", "container">> \o del_cmds
      [] s = "pipe"    -> del_cmds \o <<"socket">>
      [] OTHER         -> del_cmds

(* The cleanup commands after step s: schedule_cleanup_command puts a command *)
(* first; the cgroup and the pipe append theirs at the end.  The container is *)
(* stopped and then removed.                                                  *)
Schedule(s) ==
    CASE s = "helpers" -> <<"helpers">> \o del_cmds
      [] s = "netns"   -> <<"kill", "netns", "etc">> \o del_cmds
      [] s = "cgroup"  -> del_cmds \o <<"sync", "cgroup">>
      [] s = "docker"  -> <<"stop", "container">> \o del_cmds
      [] s = "pipe"    -> del_cmds \o <<"socket">>
      [] OTHER         -> del_cmds

(* What a cleanup command is there for. *)
Undoes(c) ==
    CASE c = "kill" -> Processes
      [] c = "stop" -> {"sshd"}
      [] c = "sync" -> {}
      [] OTHER      -> {c}

(* What it removes.  The processes of the namespace can only be listed while  *)
(* it has its name, and no container is removed that runs.                    *)
Removes(c) ==
    IF \/ c = "kill" /\ "netns" \notin real
       \/ c = "container" /\ "sshd" \in real
    THEN {} ELSE Undoes(c)

(* The command that restores a value has its name. *)
Restored(c) == IF c \in Values THEN c ELSE setting

(* What stays because a cleanup command failed. *)
Spoiled(c) ==
    CASE c = "stop"    -> {"sshd", "container"}
      [] c \in Values -> {"setting"}
      [] OTHER         -> Removes(c)

LifeInit ==
    /\ stage = "init"
    /\ todo \in {Steps, DockerSteps}
    /\ real = {}
    /\ del_cmds = <<>> /\ next = 0 /\ back = "failed"
    /\ pipe = "none" /\ channels = "none"
    /\ setting = "original" /\ calls = 0 /\ remote = "nothing"
    /\ excused = {}

--------------------------------------------------------------------------------
(* Host.__init__ *)

(* setup_pipe starts a timer thread and returns. *)
StepOk ==
    /\ stage = "init"
    /\ todo # <<>>
    /\ real' = real \cup Makes(Head(todo))
    /\ del_cmds' = Schedule(Head(todo))
    /\ pipe' = IF Head(todo) = "pipe" THEN "armed" ELSE pipe
    /\ todo' = Tail(todo)
    /\ stage' = IF Tail(todo) = <<>> THEN "ready" ELSE "init"
    /\ UNCHANGED <<next, back, channels, excused, sysctlVars>>

(* A command of the step fails before its cleanup is scheduled: __init__      *)
(* raises.  What the step made is left for good unless a command that another *)
(* step has scheduled removes it, as that of the namespace does for processes.*)
StepFails ==
    /\ stage = "init"
    /\ todo # <<>> /\ Head(todo) # "pipe"
    /\ CommandErrors # {}
    /\ \E part \in SUBSET Makes(Head(todo)) :
        /\ Head(todo) = "docker" /\ "sshd" \in part => "container" \in part
        /\ real' = real \cup part
        /\ excused' = excused \cup (part \ UNION {Undoes(c) : c \in Range(del_cmds)})
    /\ stage' = "failed"
    /\ UNCHANGED <<del_cmds, next, back, hostVars, sysctlVars>>

StartCleanup(then) ==
    /\ stage' = "cleanup"
    /\ next' = 0
    /\ back' = then

(* There is no core.  The group exists by then and its removal is scheduled;  *)
(* a container does not.  Only StopIteration is caught, for emergency_close.  *)
NoCoreLeft ==
    /\ stage = "init"
    /\ todo # <<>>
    /\ \/ /\ Head(todo) = "cgroup"
          /\ real' = real \cup Makes("cgroup")
          /\ del_cmds' = Schedule("cgroup")
       \/ Head(todo) = "docker" /\ UNCHANGED <<real, del_cmds>>
    /\ \/ "StopIteration" \in CoreErrors /\ StartCleanup("failed")
       \/ /\ "RuntimeError" \in CoreErrors \/ CommandErrors # {}
          /\ stage' = "failed"
          /\ UNCHANGED <<next, back>>
    /\ UNCHANGED <<excused, hostVars, sysctlVars>>

--------------------------------------------------------------------------------
(* BaseHost.sysctl without ns: read, write, schedule the command that restores *)

CanCall == calls < MaxCalls /\ remote = "nothing"

NextSetting ==
    /\ calls' = calls + 1
    /\ setting' \in Values

(* Mutant: the value of the first call is restored before that of the second. *)
SysctlOk_Append ==
    /\ stage = "ready" /\ CanCall
    /\ NextSetting
    /\ del_cmds' = del_cmds \o <<setting>>
    /\ UNCHANGED <<stage, real, next, back, remote, excused, hostVars>>

(* A sysctl of the script. *)
SysctlOk ==
    /\ stage = "ready" /\ CanCall
    /\ NextSetting
    /\ del_cmds' = <<setting>> \o del_cmds
    /\ UNCHANGED <<stage, real, next, back, remote, excused, hostVars>>

(* The command that writes raises: nothing is scheduled. *)
SysctlFails ==
    /\ stage = "ready" /\ CanCall
    /\ CommandErrors # {}
    /\ NextSetting
    /\ excused' = excused \cup {"setting"}
    /\ UNCHANGED <<stage, real, del_cmds, next, back, remote, hostVars>>

(* A remote command on the pipe of another host reads and writes ...          *)
RemoteWrite ==
    /\ \/ stage \in {"ready", "closed"}
       \/ stage = "cleanup" /\ back = "closed"
    /\ CanCall
    /\ NextSetting
    /\ remote' = setting
    /\ UNCHANGED <<stage, real, del_cmds, next, back, excused, hostVars>>

(* ... and calls schedule_cleanup_command: the loop of a cleanup under way is *)
(* left by a RuntimeError, unless it has just ended and the command is lost,  *)
(* and the list of a closed host has no appendleft.                           *)
RemoteSchedule ==
    /\ remote # "nothing"
    /\ remote' = "nothing"
    /\ \/ /\ \/ stage = "ready"
             \/ stage = "closed" /\ del_cmds # <<>>
             \/ stage = "cleanup" /\ next = 0
          /\ del_cmds' = <<remote>> \o del_cmds
          /\ UNCHANGED <<stage, next, excused>>
       \/ /\ stage = "cleanup" /\ next > 0
          /\ del_cmds' = <<remote>> \o del_cmds
          /\ stage' = back
          /\ UNCHANGED <<next, excused>>
       \/ /\ stage = "cleanup" /\ next > Len(del_cmds)
          /\ del_cmds' = <<remote>> \o del_cmds
          /\ next' = next + 1
          /\ excused' = excused \cup {"setting"}
          /\ UNCHANGED stage
       \/ /\ stage = "closed" /\ del_cmds = <<>>
          /\ excused' = excused \cup {"setting"}
          /\ UNCHANGED <<stage, del_cmds, next>>
    /\ UNCHANGED <<real, back, setting, calls, hostVars>>

--------------------------------------------------------------------------------
(* The pipe thread: run the command, publish the channels, read lines *)

(* netcat starts in the namespace, if it still has its name. *)
PipeRun ==
    /\ pipe = "armed"
    /\ pipe' = "running"
    /\ real' = IF "netns" \in real THEN real \cup {"nc", "socket"} ELSE real
    /\ UNCHANGED <<stage, todo, del_cmds, next, back, channels, excused, sysctlVars>>

PipeSet ==
    /\ pipe = "running"
    /\ pipe' = "reading"
    /\ channels' = "open"
    /\ UNCHANGED <<stage, todo, real, del_cmds, next, back, excused, sysctlVars>>

(* readline ends with netcat only: what cleanup closes are the files of the   *)
(* channel, and whoever finds them closed waits for the exit code of netcat.  *)
PipeEnds ==
    /\ pipe = "reading"
    /\ "nc" \notin real
    /\ pipe' = "ended"
    /\ UNCHANGED <<stage, todo, real, del_cmds, next, back, channels, excused, sysctlVars>>

--------------------------------------------------------------------------------
(* close, cleanup and the destructor *)

Close ==
    /\ stage = "ready"
    /\ StartCleanup("closed")
    /\ UNCHANGED <<real, del_cmds, excused, hostVars, sysctlVars>>

(* PipeHandler.cleanup: there is nothing to close before PipeSet. *)
CloseChannels ==
    /\ stage = "cleanup" /\ next = 0
    /\ channels' = IF channels = "open" THEN "closed" ELSE channels
    /\ next' = 1
    /\ UNCHANGED <<stage, todo, real, del_cmds, back, pipe, excused, sysctlVars>>

Cleaning == stage = "cleanup" /\ next \in 1..Len(del_cmds)

CleanupOk ==
    /\ Cleaning
    /\ real' = real \ Removes(del_cmds[next])
    /\ setting' = Restored(del_cmds[next])
    /\ next' = next + 1
    /\ UNCHANGED <<stage, del_cmds, back, calls, remote, excused, hostVars>>

(* An IOError is ignored: what the command should have removed stays. *)
CleanupIgnored ==
    /\ Cleaning
    /\ "io" \in CommandErrors
    /\ excused' = excused \cup Spoiled(del_cmds[next])
    /\ next' = next + 1
    /\ UNCHANGED <<stage, real, del_cmds, back, hostVars, sysctlVars>>

(* Any other exception leaves cleanup, and del_cmds as it was; its callers    *)
(* ignore it.  The destructor may run the commands again.                     *)
CleanupAborts ==
    /\ Cleaning
    /\ "ssh" \in CommandErrors
    /\ stage' = back
    /\ excused' = IF back = "gone" THEN Things \cup {"setting"} ELSE excused
    /\ UNCHANGED <<real, del_cmds, next, back, hostVars, sysctlVars>>

CleanupDone ==
    /\ stage = "cleanup" /\ next > Len(del_cmds)
    /\ del_cmds' = <<>> /\ next' = 0
    /\ stage' = back
    /\ UNCHANGED <<real, back, excused, hostVars, sysctlVars>>

(* __del__: the threads of pipes hold references to the host. *)
Destroy ==
    /\ stage \in {"failed", "closed"}
    /\ pipe \in {"none", "ended"} /\ remote = "nothing"
    /\ StartCleanup("gone")
    /\ UNCHANGED <<real, del_cmds, excused, hostVars, sysctlVars>>

(* The host is gone, or the thread of its pipe keeps it alive for ever. *)
Over ==
    \/ stage = "gone"
    \/ stage = "closed" /\ pipe = "reading" /\ "nc" \in real

LifeTerminated == Over /\ UNCHANGED lifeVars

LifeNext ==
    \/ StepOk \/ StepFails \/ NoCoreLeft
    \/ SysctlOk \/ SysctlFails \/ RemoteWrite \/ RemoteSchedule
    \/ PipeRun \/ PipeSet \/ PipeEnds
    \/ Close \/ CloseChannels
    \/ CleanupOk \/ CleanupIgnored \/ CleanupAborts \/ CleanupDone
    \/ Destroy
    \/ LifeTerminated

LifeSpec == LifeInit /\ [][LifeNext]_lifeVars

LifeFairSpec ==
    /\ LifeSpec
    /\ WF_lifeVars(StepOk \/ Close \/ CloseChannels \/ CleanupOk \/ CleanupDone \/ Destroy)
    /\ WF_lifeVars(PipeRun \/ PipeSet \/ PipeEnds)
    /\ WF_lifeVars(RemoteSchedule)

--------------------------------------------------------------------------------
(* Properties *)

Commands == Things \cup {"kill", "sync", "stop"} \cup Values

LifeTypeOK ==
    /\ stage \in {"init", "ready", "cleanup", "closed", "failed", "gone"}
    /\ todo \in Seq(Range(Steps) \cup Range(DockerSteps))
    /\ real \subseteq Things
    /\ del_cmds \in Seq(Commands)
    /\ next \in 0..(Len(del_cmds) + 1)
    /\ back \in {"closed", "failed", "gone"}
    /\ pipe \in {"none", "armed", "running", "reading", "ended"}
    /\ channels \in {"none", "open", "closed"}
    /\ setting \in Values /\ calls \in 0..MaxCalls
    /\ remote \in Values \cup {"nothing"}
    /\ excused \subseteq Things \cup {"setting"}

(* Whatever step of __init__ failed and wherever a cleanup was interrupted:   *)
(* once the host object is gone nothing of it is left on the real host but    *)
(* what a failing command makes impossible to undo; and the sysctl variable   *)
(* has its first value again, whatever calls there were and also when one     *)
(* came while the commands ran, unless its own command was lost.  When close  *)
(* has run its commands the same is left, and a netcat that started after the *)
(* processes of the namespace were killed: its thread keeps the host object.  *)
Undone ==
    /\ stage = "gone" =>
        real \ excused = {} /\ (setting = "original" \/ "setting" \in excused)
    /\ stage = "closed" /\ del_cmds = <<>> =>
        real \ excused \subseteq
            IF pipe \in {"running", "reading"} /\ channels # "closed" THEN {"nc", "socket"} ELSE {}

(* Cleanup undoes things in an order that works: the namespace keeps its name *)
(* and the cgroup, or the container, exists as long as the sshd that runs in  *)
(* both of them.                                                              *)
OrderedCleanup ==
    "sshd" \in real \ excused => "netns" \in real /\ {"cgroup", "container"} \cap real # {}

(* A host whose close has run its commands is released in the end: only a     *)
(* netcat keeps the thread of its pipe, and with it the host object, and that *)
(* is one that could not be killed, or one that started when cleanup had      *)
(* already looked for channels to close and the namespace still had its name. *)
PipeReleasesHost ==
    stage = "closed" /\ del_cmds = <<>> ~>
        \/ stage = "gone"
        \/ "nc" \in real /\ ("nc" \in excused \/ channels = "open")
================================================================================
