------------------------------- MODULE MCSSHPool -------------------------------
(* Instances of SSHPool.  ssh_pool is the serial mode, where a foreach starts *)
(* a thread per virtual host on max_parallel_workers + 1 = 2 slots: main, two *)
(* such threads, a timer and the pipe of a virtual host.  ssh_foreign_pipe is *)
(* the parallel mode: main and two workers on 3 slots, and the pipe thread of *)
(* a virtual host of another real host, which has no wrapper to share here.   *)
EXTENDS SSHPool

CONSTANTS main, w1, w2, f1, f2, foreign, t1, pipe1
================================================================================
