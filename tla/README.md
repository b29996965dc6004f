# A TLA+ model of SherlockFog

SherlockFog (`src/sherlockfog.py`, one program of some 3300 lines) reads a
topology script and deploys a virtual network: virtual hosts in network
namespaces of real hosts it reaches over SSH, links between them, delays and
bandwidths, routes and hosts files.  By default it works in parallel: the main
thread interprets the script and a `ThreadPoolExecutor` creates hosts and links.
Line numbers below are those of `src/sherlockfog.py`.

This directory models the core of the program - its concurrency, the language of
its scripts, the life of its hosts, the cores it hands out, the routes it computes
and the batches of commands that configure them -, checks it with TLC on small
instances and proves with TLAPS, for every value of the constants, the safety
properties of ten of its modules.

## Inventory

| component | state | operations | interacts with | what makes it correct |
|---|---|---|---|---|
| SSH pool of a real host: `SSHConnectionManager`, `SSHConnectionWrapper`, `RealHost` (1462-1608) | semaphore, lock, deque of clients; a wrapper per thread in thread-local storage | `take`, `release`, `__del__`, `get_connection`, `set_connection`, `get_channel`, `run` | every thread that runs a command | no client in two hands, no slot lost, nobody waits for ever |
| `HostPool` (587-1137) and `schedule_maybe_parallel_task` (2535-2550) | `hosts_dict` of hosts or futures, `pending_tasks`, `network_built` | `def`, `connect`, `build-network`, `waitall`, `close` | executor, hosts, bridges, topology graph | BUILT means built; routes after links; every host stopped |
| `Interface` (1174-1279) | a lock that starts locked, qdisc flag, endpoint | `init_shaper`, `shape_delay`, `shape_bandwidth` | link tasks, script, pipes, timers | no shaping before configuration; both ends agree |
| `Bridge`, `BridgeManager` (349-468) | names of bridges and tunnels, two counters, topo namespaces | `get_bridge`, `get_tunnel`, `add_to_bridge` | link tasks | every link isolated and joined |
| `BaseHost`, `Host` (1696-2275, 2390-2465) | interfaces, timers, cleanup commands, batch of commands, last output | `exec_`, `exec_batch`, `setup_timer`, `setup_pipe`, `close`, `cleanup` | `RealHost` | commands run once, in order; cleanup complete |
| Pipes, `PipeHandler`, `exec_remote` (1681-1695, 1983-2009, 2110-2145) | a thread and its channels per virtual host | script commands, `fatal`, REST over a pipe | the interpreter, the pool | no command blocks for ever |
| Cores: `CGroup`, `Range`, `CoreRange`, `RealHostTopo` (1281-1460, 1545-1562) | generators of cores per NUMA node | `get_unused_core`, `reset_iter` | `Host` creation by workers | exclusive cores are exclusive |
| Routing and `Topo` (254-324, 855-1091, 2192-2236) | the graph with delays | shortest paths, compressed routes, ARP | `HostPool` | compressed routes equal plain routes |
| `IPPool`, `IPUtil` (220-347) | generator of subnets | `next_subnet`, `ips` | `connect`, adm interfaces | no address twice |
| Topology language: `ExecutionEnvironment` (2466-3068) | queue of bound commands, nest level, locals | `exec_`, nested `for`, commands | `HostPool` | loops run every body for every value, names mean what the blocks say |
| `RealHostPool`, dry-run stand-ins (1346-1408, 1610-1658) | dictionary of real hosts | `get_real_host` | `Host` creation | one `RealHost` per name |
| `LocalHost`, `AdminHost` (2276-2388) | administrative network | `add_host`, `ns_hosts` | bridges, hosts file | every host reachable |
| REST API, logging, command line, helpers, monitoring | - | - | - | not modelled: reports of other state, text, options, scripts |

Hard behaviours: preemption of threads between two statements; callbacks that
run in a worker or in the main thread; futures that wake a thread up before
their callbacks ran; destructors that run in whichever thread drops the last
reference; tasks that fail while others run; SIGINT at any statement; timers in
any order; locks that an exception leaves taken; a command sent again because its
answer was lost; two threads that close the same pool.  `PROJECT.json` lists them as
hazards, each at its line.

## Modules

| module | models | main correspondences |
|---|---|---|
| `ConnectionSlots` | what a pool promises: leases of clients to threads, at most one each, never more than slots | abstract |
| `SSHPool` | the pool in full, one action per statement between which threads interleave | `sem`, `lock`, `idle` are the semaphore, the lock and the deque; `wrap`/`conn` the wrappers; `share` the closures of timers and pipes |
| `SSHPoolProofs`, `HostPoolProofs`, `ShutdownProofs`, `BatchesProofs`, `BridgeManagerProofs`, `ScriptProofs` | theorems about `SSHPool`, `HostPool`, `Shutdown`, `Batches`, `BridgeManager` and `Script` | - |
| `NetworkProofs` | theorems about `Shaper` and `Routing`, the network of the virtual hosts | - |
| `HostProofs` | theorems about `Cores` and `HostLife`, a virtual host and what it takes from its real host | - |
| `HostPool` | a deployment in parallel mode | `dict`/`order` are `hosts_dict`; `cb` the progress of `add_host`; `fut` the futures; `queue` the executor's queue; `main` and `ret` the program counter of the main thread; `opts` the command line and what may go wrong |
| `Shutdown` | `def` and `close` by main and by the pipe threads of hosts, over one `hosts_dict` and one executor | `pc` says where each thread is in `close`, `new` which host it has submitted and not registered; `order`, `size` and `next` are the generator over `hosts_dict`; `shut` the executor's flag; `bridges` the topo namespaces |
| `Batches` | `exec_batch`, `exec_batch_commit` and `RealHost.run` with its retries, for the ARP and the routing task of one host | `batch` is `current_exec_batch`, `held` the tasks about to append to the list that it still is; `part` and `rest` what `jointake` returned; `log` what the shell of the real host executed |
| `Script` | `ExecutionEnvironment.exec_`, one line at a time | `stack` are the environments whose `exec_` is under way, with `inside`, `nest`, `queue` and `setup` as in the code; `vars` the shared dict of loop variables; `out` what the commands saw |
| `ScriptMeaning` | what README.md:483-535 says a script means, as a recursive function | abstract |
| `Shaper` | the two interfaces of a link under concurrent shaping | `held` are the interface locks, `kernel` the qdiscs, `topo` the graph, `armed` the timers |
| `BridgeManager` | link tasks that allocate bridges and tunnels | `bridges`, `tunnels` and the counters as in the code; `veths`, `geneves` are the devices in the kernels of the real hosts; `broken` are the networks that lost a command to an error |
| `HostLife` | one virtual host, in a cgroup or in docker, from `Host.__init__` to `__del__`, any command of which may fail, with `sysctl` calls of the script and of a remote command | `todo` are the steps of `__init__`; `real` is what exists on the real host; `del_cmds` and `next` the cleanup loop; `pipe`, `channels` the thread and channels of the pipe; `setting` a sysctl variable of the real host |
| `Cores` | `get_unused_core` by several workers, generator inside generator | `generator`, `range` are `core_generator` and `numa_nodes`, named after the call that built them; `entered`, `inside` say which thread runs a generator; `num`, `taken` where it stands |
| `Routing` | connect, set-delay, the two shortest path algorithms and the tree routes, over every topology | `links` are the networks handed out, in the order of the interfaces; `delay` is the graph; `via` the first hop of each shortest path |
| `MC...` | instances of these for TLC | - |

Inside `HostPool` a task is one start and one end step: its remote commands
either all succeed or fail at some point, which only the result of the future
tells.  `BridgeManager` and `Shaper` open the link task and `SSHPool` the
connections below all of them.  Where Python code touches shared state, each
statement is a step; CPython may switch threads at these points.

`HostLife` keeps two things apart: `real`, what exists, and `excused`, what a
failed command made impossible to undo: what no command that is scheduled would
remove.  A property about cleanup that forgave any failure would say nothing, and
one that forgave none would be false of any program.

`Cores` has a step for each `next()`, for each `yield` and for each node that
`reset_iter` parses, because Python may switch threads there; a generator that is
entered a second time raises `ValueError`, as in Python.

`Routing` computes with addresses as numbers: network *i* has the numbers
4(*i*-1) to 4*i*-1, so that a prefix is an aligned block.  Which shortest path
the graph library returns is left open.  A delay is a number and a unit, of which
`__parse_delay` keeps the number: that is the weight of the edge.

`HostLife` has a remote `sysctl` in two steps, what it reads and writes, and what
it schedules, because the cleanup of `close` may go on between them.  A cleanup
command that restores a value is that value.

In `Script` a line is a record: its command, its names, a range from 0 to a number
or a variable.  `run` stands for every command that substitutes a name.  The
queue of an environment holds lines as they were read, and a new environment
executes them once per value, which is a stack of environments in the model as it
is a stack of calls in the program.  A name that nothing defines raises
`RuntimeError` where it is used, which ends the script; a range is substituted, and
may raise, at the line of the `for`.

`Batches` opens what is one step in `HostPool`: each access to `current_exec_batch`
is a step, since two workers may be in it, also the two reads of one loop condition
(2049), and the load of the list and the append to it (2041).  A route
that is there already is refused, as `ip route add` does, and any command may be.
The connection may break before a part is run, when the program tries again or gives
up, while it runs, and when its answer is read, which raises.

`Shutdown` leaves failures to `HostPool` and has what `HostPool` leaves out: more
than one thread in `close`, and pipe threads that define hosts, as a `cmd` message
may at any time (2138-2140).  Of a `def`, `submit` and `register_host` are two steps.
Each close also stops the host of the administrative network; nothing in the
model depends on it.

`SSHPool` says "owner" for a thread that allocates a wrapper (main, workers,
threads of a foreach in serial mode).  A timer or pipe thread never allocates:
it adopts the wrapper its closure captured.  `__del__` runs when the last of
these references goes, in the thread that dropped it.

## Runs

| run | instance | shows |
|---|---|---|
| `ssh_pool` | main and 2 foreach threads on 2 slots, a timer, a pipe, a reconnection | `pop` never fails, clients stay exclusive, a wrapper outlives the timers that share it, every request is served, every slot returns; refinement of `ConnectionSlots` |
| `ssh_foreign_pipe` (violated) | a fourth owner, on 3 slots | a pipe thread that executes a command on another real host allocates there and waits for ever, the deadlock the comment at 2073-2076 means to avoid |
| `pool` | 2 hosts with administrative links, a link, 2 workers, geneve, no failure; and without administrative links, with any task failing and SIGINT | without failures the order of routes, links and stops, and everything is stopped; in both, BUILT never hides a failure, `waitall` drops only administrative links, and main and the workers come to an end (after a failure, hosts that were not stopped may keep the process alive) |
| `pool_unbridged` (violated) | no fault at all | a link task may run before `add_host` set `pool` (784): the bridge is skipped (1824), against README.md:123 |
| `shaper` | one caller without `at=`; or two callers, timers, errors of tc and of the link task | ends and graph agree after calls one by one; nobody shapes an interface before it is configured, or while another does; without errors calls return |
| `bridges_serial` | 2 links across, 1 inside a real host, 2 administrative links, one task at a time, 2 commands of which may fail | links isolated, no loop between bridges; links joined where no command failed |
| `host_life` | one host, with a cgroup or docker; commands fail with an exit code or without an answer; no core, or an error of the generators; two sysctl calls, one of them remote at any time | what can be undone is, in an order that works; the pipe keeps the host only with a netcat that nobody could kill |
| `cores` | 6 hosts, 2 nodes of 1 or 2 cores, 1 to 3 workers, exclusive cores or not | no exclusive core twice or wasted; one worker never fails without exclusive cores |
| `routing` | 4 hosts, up to 4 links, without a delay, with 2 ms or with 0 us | unless an edge has delay 0, packets arrive over the least sum of the numbers, whatever their units, and tree routes in every forest; compressed routes send packets as plain ones do, and tree routes are refused only outside of forests |
| `script` | every script of up to 6 lines: loops over `i` and `j`, the second up to `i`, one-liners, `let`, `run`, an include | the nest level is that of the queued lines; commands see what the script means, and a name that nothing defines ends it |
| `batches` | 2 ARP entries and 3 routes, 2 commands to a line, 1 retry; serial, with tunnels, macvlan with 2 workers that meet between any two accesses | where the host has one task at a time, one that ends well has configured its part, in order, whatever was retried, and with tunnels BUILT means configured; in every mode nothing is run twice before BUILT |
| `shutdown` | 2 hosts, 2 workers; main and both pipes define hosts and close | the namespaces go only after every host registered before the first close was stopped; no task outlives them; every close ends |

`CHECK_DEADLOCK FALSE` is set for `SSHPool`, `Shaper`, `Routing`, `Script` and
`Shutdown` only: threads end or stop calling, a script ends, a closed pool does
nothing more, and a thread that waits for ever is what the liveness properties
look for.  The other modules have a step for the end (`Terminated`, `AllDone`,
`Done`), so that any other deadlock is reported.

### Bounds

- Two slots with three owners give every order of two takes and a release, with
  one thread that queues; `ssh_foreign_pipe` has the slots of main and two
  workers and the one owner more that the program does not count; a reconnection
  (`MaxReconnects = 1`) is enough for a returned client to differ from the one
  taken.
- Two hosts and a link are enough for a task that runs before, between and after
  the callbacks of its two hosts, two workers for two tasks at once, and a host
  that fails before or after another one in `hosts_dict`.
- Two values and two calls (`MaxCalls = 2`) let one call overtake another; the
  single caller of the other option makes four, after and before the link task.
- Two hosts and three closers let main, or the pipe of the first host, define a
  host in every stage of the close of another, cut its loop short, and let three
  threads meet in the loop of stops.
- Two commands to a line split five commands in the middle of either task's;
  one retry (`MaxAttempts = 1`) is a command that is executed twice, or sent in
  vain and then executed.
- Six lines hold a loop in a loop with a command in it, two loops one after the
  other, and a `let` before, inside and after them; `MaxValue = 2` makes ranges of
  no, one and two values.
- Two sysctl calls (`MaxCalls`) are the fewest that can be restored in a wrong
  order.
- Three links and two administrative links let every network meet one of its own
  kind and of the other; names collide with two tasks already.
  Two errors (`MaxErrors`) let one task fail and another lose a command.
- Six hosts for at most four cores: exclusive cores run out, and the others are
  given a second time; nodes of one and two cores are equal or not; three workers
  let one reset while another is inside the old generators and a third asks.
- Four hosts and four links give every tree, the triangle with a tail, the ring
  (which has two shortest paths), and parallel links; a delay of 2 ms beside the
  edges without one, which weigh 1, makes the direct way longer than, or as long as,
  the way round, and one of 0 us has another unit and no weight.  With such an edge
  the run stops at three links (`WeightlessAreFewer`).  Four networks fill a block of 16 addresses, so that `Collapsed` meets
  blocks of every size up to it.

### Fairness

- `SSHPool`: threads inside `take` or `release` go on (Python's semaphores and
  locks are not FIFO, but weak fairness per thread suffices here: a foreach
  thread asks once); a timer fires and its command ends (the same assumption as in
  `HostLife`, below); foreach threads end; main joins ended timers.  Nobody has to
  ask or to arm.
- `HostPool`: the main thread goes on, a worker takes the next task, a task ends,
  a callback runs, and the script ends
  (strongly fair, for a script may go on with `waitall` for any time).  Nothing forces
  SIGINT.
- `Shaper`: the link task ends, a caller inside a call goes on, timers fire.
- `Shutdown`: the script ends, each close goes on, a host that was submitted is
  registered, workers take and end tasks; a message on a pipe may never come.
- `HostLife`: the steps of the constructor, of close and of cleanup go on, since
  the start of a command is bounded by a timeout (1582) and commands on a real
  host are taken to end; the pipe thread goes on when it can;
  the destructor runs once the last reference is gone; a remote command that has
  written schedules its undoing.  No failure is forced.

`BridgeManager`, `Cores`, `Routing`, `Script` and `Batches` are checked for safety
only and state no fairness.

## Properties and mutants

Each checked property has a mutant, an operator beside the definition it
replaces (`Pop_Peeks` for `Pop`), that changes the code as a plausible bug would
and makes TLC find the property violated.

`TypeOK` (`LifeTypeOK` in `HostLife`) is an invariant of the runs of `SSHPool` and
`HostPool`, where a plausible bug shows up as a semaphore that leaves its range or a
host that is twice in `hosts_dict`.  In the other modules it documents the
variables and holds on the same instances; it is part of the inductive invariant,
or follows from it (in `Shutdown` that part is `Typed`).  The names of `HostLife` and
`Routing` begin with `Life` and `Routes` where `Cores` and `Shaper` have the same ones.

## Proofs

A theorem speaks of every value of the constants that the assumption of its module
allows, where a run speaks of one instance.  The assumptions say that sets of
threads, hosts and links are finite, that bounds are numbers and that values
which stand for "none" are no values of another kind; three say more:
`BatchesAssumption` that the commands of a host differ, `BridgeManagerAssumption` that administrative links
end at one host, the one of `AdminHost`, and `ScriptAssumption` that a file does not
include another one.

| module | theorems about properties of the runs | premise |
|---|---|---|
| `SSHPoolProofs` | `TypeOK`, `PopFindsClient`, `ClientsExclusive`, `SharedWrapperLive`, `ImplementsSlots` | - |
| `HostPoolProofs` | `TypeOK`, `LinksBeforeRoutes`, `NoStopWhileCreating`, `ClosedStopsAll`, `BuiltComplete`, `OnlyAdmDropped` | - |
| `ShutdownProofs` | `NoTaskWithoutBridges`, `EarlierHostsStopped` | - |
| `BatchesProofs` | `OkMeansInstalled`, `RunInOrder`, `BuiltOnce`, `BuiltConfigured` | - |
| `NetworkProofs` | of `Shaper`: `ShapersExclusive`, `ShapedAfterConfigured`, `EndsAgree`; of `Routing`: `Delivered`, `CompressedSame`, `TreeDelivered` | - |
| `BridgeManagerProofs` | `LinksIsolated`, `LinksJoined`, `OneTunnel` | `NWorkers = 1` |
| `HostProofs` | of `Cores`: `CoresExclusive`, `NoCoreWasted`, `SharedAlwaysServed`; of `HostLife`: `Undone`, `OrderedCleanup` | - |
| `ScriptProofs` | `NestCounts` | - |

Of these properties only a few are inductive.  Each module strengthens them to an
invariant (`IInv`, `LifeIInv`, `RoutesInv`), shows in one lemma per action that the
action preserves it, joins these lemmas in `Inductive`, `LifeInductive` or
`RoutesInductive`, and derives the properties.  TLC checked every such invariant
on the instance of its run, or on a smaller one, before it was proved.  What the
invariants add is the argument:

**`SSHPoolProofs`**: any number of owners, timers, slots and reconnections.

- `Balance`: the semaphore's value plus the permits in use is `PoolSize`, and the
  clients in the deque plus those held correspond to the permits;
- `OwnStage`, `DelStage`: what a thread's program counter says of its wrapper, of
  the lock and of the wrapper whose destructor it runs;
- `ClientStage`, `ShareStage`: which wrappers hold a client; a captured wrapper is
  live while its timer is armed or runs.

`PopSafe` then counts: a thread at `pop` holds a permit and no client, so the deque
cannot be empty.  `NoWait` says that nobody waits if there are at least as many
slots as owners, the sizing rule of line 1539; no run repeats it, since `ssh_pool` has
more owners than slots.  `Refines` shows that `Pop` maps to `Acquire`, `Reconnect` to
`Renew`, `AppendClient` to `Release`, and every other step to a stutter.

**`HostPoolProofs`**: any number of hosts, links and workers, any failures, SIGINT.

- `Queues`, `Entries`, `Registered`: a task is in the queue when its future says so,
  once; `hosts_dict` has every host whose future exists, except one that SIGINT cut
  off between `submit` and `register_host`;
- `Fresh`: what build-network and close have not submitted yet;
- `Kept`: a task that is not done is in `pending_tasks`, except hosts, which are
  waited for by name, and administrative links;
- `Building`, `Stopping`: what each stage of build-network and close has waited
  for.  Here the waits matter: the stage after a wait inherits that what is pending
  is done, and `BuiltHidesNothing` follows from the last of them.

**`ShutdownProofs`**: any number of hosts, workers and threads that close the pool.
`IInv` has `Ordered`: a close past the join of the executor (670) found it shut down,
and it is empty.  It stays empty because a step that submits a task needs the
executor not to be shut down.  `LInv` adds `Loops`: each close has submitted the
stop of every host it passed, although `hosts_dict` grows under it, and a close that is
through its loop has asked for the stop of every host registered before the first
close.  A new host in the dict, which any thread may define, or the executor that
another one shut down, may cut any close short, or all of them; but the namespaces are
only removed by one that was through and has joined the executor, hence
`EarlierStopped`.

**`BatchesProofs`**: any commands, any length of a line, any number of attempts.

- `Turns`: which task has its turn in each mode, and that a task about to append has a
  command left;
- `Kept`: what a task was asked for is installed, in the batch, in the part that was
  taken or rest that was put back, or not appended yet, according to its program counter;
- `Order`, `Distinct`: these lists follow each other in the order asked for, and share
  no command, which is why a part that is sent again repeats nothing of another;
- `Once`: as long as no task has failed and no answer was lost, what was executed is
  installed, and was executed once, since the host refuses a command that it has.

`Distinct` and `Once` hold in macvlan mode too, where two workers meet between any two
accesses to the list; `Kept` and `Order` need a host with one task at a time (`Alone`).

**`NetworkProofs`**, `Shaper`: any number of threads, values and calls.  `CallKnown` says what a
call under way has in `arg`, `LockFirst` that an end which the link task does not
hold any more is configured, and that whoever shapes it, at once or with a timer,
came after that first lock.  A parameter is only ever set to a value
(`SetConfigures`), so what is configured stays so, whatever fails.  `Agreement`
follows the one caller through its locks: the end it has done has the new value, the
other one the old.

`Routing`: any hosts, any sequence of `connect` and `set-delay`, any delays; that no
edge has delay 0 (`Weighed`) is a premise of `Delivered`, and of half of
`TreeDelivered`.  `RoutesInv` says that links and graph fit (`Linked`), that every host has a
first hop on a shortest path to each host it reaches, and that links lead all the way
to those hosts (`Found`).

- `FirstHopCloser`: whichever shortest path a host has found, the first hop is closer,
  so hosts that choose independently cannot send a packet round;
- `RoutedThrough`, `PlainLookup`: of the routes that fit an address, those with the
  longest prefix all lead to that first hop, for a route to one address has a longer
  prefix than the kernel's route to a network of the host;
- `TravelTime`: with n nearer hosts a packet arrives after at most n hops, over edges of
  the least sum of weights, by induction on n; `Delivered` follows;
- `FilledAddrs`, `LargeBlocks`, `CompressedLookup`: filling adds no address that a host
  has, every address is in a block that is in no other one, and an aligned block as
  large as a network holds it whole.  Such a block would hold an address of the host
  itself when the network is one of its own, and no host routes its own addresses; so
  here too the prefix is longer than that of the kernel's route, and `CompressedSame`
  follows;
- `PathFound`, `TreeFollows`: the search of `visit_neighbors` from the first hop to a host
  finds the host, so the tree has a route to its networks through that hop.  If no
  route is refused there is no other, and a neighbour is then its own first hop;
- `Circle`, `LinksAndParts`, `RefusedCircle`: two routes to a network need one beyond two
  links of a host, and then one of the two joins hosts that are connected without it.  n
  links leave at least all but n of the hosts apart, and this link joins nothing: there
  are more links than in a forest.  `TreeDelivered` follows.

These inductions need no induction theorem: `Least` takes the least counterexample, which
exists because the order of the natural numbers is well founded, and `Recursion` that
a function defined by recursion exists, in the same way.

**`BridgeManagerProofs`**: any number of links and real hosts, in serial mode.
`OneTask` is where the premise enters, and with two workers the theorems are false
(see below).  `BridgeNames` and `TunnelNames` keep the names below the counters and
apart, also between the read of a counter and its increment; `Plugs` and `Sides` say
which network everything in a bridge or a tunnel belongs to; `Progress` what each
line of `add_to_bridge` has left behind, for the end of the link it is at.  Commands
may fail at any line: a task that fails ends, and `Progress` says of a tunnel that its
sides are there only for a network that lost no command.

**`HostProofs`**, `Cores`: any topology, hosts and workers.  With exclusive cores nobody
reaches `reset_iter`, so the generators stay those of the constructor (`OneTopology`)
and a core that was given is one that its node's generator has passed (`Passed`).
`RoundInv` adds what holds between equal nodes when no reset interferes (`Orderly`: exclusive
cores, or one worker).  `RoundRobin` says how many cores each node has given: the number
of full rounds of the generator, and one more for the nodes that this round has passed.
So a generator that ends has given all cores, each of which a host has (`Accounted`),
hence `NoneWasted`.  A single worker has one call at a time, which gets a core after its
own reset at the latest (`Alone`), hence `AlwaysServed`.

`HostLife`: any number of `sysctl` calls and values, any failures, at any time.  `Undone`
and `OrderedCleanup` speak of the end, `LifeInv` of every step before:

- `Ordered`: the commands in `del_cmds` are sorted by what they undo (`Rank`), also
  after a remote call has put one in front;
- `Progress`, `Pipes`: what each step of `__init__` and each state of the pipe thread
  has made and scheduled;
- `Undoable`: what exists has its command `Ahead` of the loop of `cleanup`, or a failed
  command excuses it, or it is the netcat that came too late (`Stuck`);
- `Restorable`: the last command that restores a variable restores its first value;
- `Final`: a host that is gone has no command left, unless a failure excuses everything.

**`ScriptProofs`**: scripts of any length, any depth of loops.  `Sound` is what an
environment says by itself, with a level that never falls below 1; `Placed` relates it
to its depth and to the dict of loop variables: only the outermost loop may have
found the dict absent, and the command that drops it at the end of a one-liner is
never among the lines of an inner environment.

Only model-checked:

- liveness (`EveryRequestServed`, `SlotsReturn`, `Terminates`, `CallsReturn`,
  `ClosesEnd`, `PipeReleasesHost`), which the prover does not handle;
- `MeansAsWritten`, which compares a run of the interpreter with a recursive definition
  over whole scripts.

## What the models show beside the runs

- `register_callback` may overwrite the `Host` that the worker's callback stored
  with its `Future` (2546-2550); `host_list` then raises in every hosts task
  (1104).  In `HostPool` this is `TaskFails` on an `etc` task, guarded by
  `HostsFileReadable`, in a deployment without faults.
- SIGINT between `submit` and `register_host` leaves a host that nobody stops.
- The future of an administrative link, appended while the main thread waits, is
  dropped from `pending_tasks` (849); its failure goes unnoticed.
- `get_bridge` formats the name from `bridge_counter` before it increments it, and
  without the lock of its class (401): with `NWorkers = 2` TLC finds
  `LinksIsolated` of `bridges_serial` violated by two links that get one bridge,
  where README.md:157 promises "its own VNI for each emulated link, thus
  effectively isolating the traffic of each virtual link".
- With two workers `get_tunnel` may hand out one name, or one VNI, twice; the
  kernel refuses the second device and the error is ignored (467).  So is any other
  error of the commands of a tunnel (456-468): the task of the link ends well and its
  ends are apart, whence the premise of `LinksJoined`.  Two
  administrative links from one real host may each make a tunnel, a loop.
- `close` raises at the first host that failed (667, 1039): the hosts after it
  are not stopped, and the threads of their pipes, which are not daemons, keep
  the process alive.  `Terminates` therefore promises the end of main and of the workers,
  and that of the process (`LeftRunning`) only without failures.
- A tc error leaves the interface lock taken (1218): the next call on that
  interface hangs, where test/test_parser.py:212-219 expects an error.
- A netcat that starts between the command that kills the processes of a
  namespace and the one that deletes it survives `close`, although the comment at
  1986-1987 says the shutdown "can properly kill the nc processes"; its thread
  then waits for it in `recv_exit_status` (2002-2003), which closing the channels does
  not end.  `Undone` and `PipeReleasesHost` name this case.
- With several workers a host may fail without any lack of cores: `next()` on a
  generator that another worker is inside raises `ValueError`, and a reset that
  meets a half parsed topology ends as `RuntimeError`.
- With nodes of unequal size, `get_unused_core` raises `RuntimeError` while cores
  are free (a `StopIteration` inside a generator, PEP 479), and such a host gets no
  `emergency_close`, which only answers to `StopIteration` (2407);
  `NoCoreWasted` and `SharedAlwaysServed` therefore speak of equal nodes.
- Parallel links share one edge of the graph: it has the delay of the last call,
  while packets use the interface that comes first.
- With `at=`, timers of two calls may fire in opposite orders at the two ends.
- In macvlan mode the ARP and the routing task of a host run side by side and
  share one batch.  Between the loop test of one commit and its reset to `None`
  (2049, 2058) the other may append: without `Alone`, `OkMeansInstalled` is
  violated by a command that is lost without any error, and BUILT is announced.
  Two tasks that both find no batch (2039) make one each, and what was appended to the
  first goes; a commit that takes the remainder (2051) puts back a list that lacks what
  the other appended in between; and an append to a list loaded before (2041) reaches
  one that nobody sends.  With bad luck a task meets `None` where it needs a list, and
  fails.
- In serial mode the ARP tables are built by threads whose exceptions are lost
  (1041-1048): BUILT may follow failed entries, and the commands that a failed
  commit left in the batch are sent with the routes of the host.
- A fatal message closes the pool under a script that still runs, and a `cmd` message
  may define a host while main closes it.  A host defined after the loop of stops has
  passed is stopped by nobody, and its
  pipe thread keeps the process alive; if the executor was shut down first,
  `submit` raises, in main or in a pipe thread, where 2141 does not catch it and the
  thread ends.  If `hosts_dict` grows during the loop, the generator
  raises and that close ends without `executor.shutdown`.  Another close may do the
  rest; if there is none, or it is cut short as well, the remaining hosts and the
  namespaces stay, which is why `EarlierHostsStopped` speaks of their removal.  In serial mode there is no executor to wait for: the topo namespaces may
  go while main still creates hosts.
- `cleanup` iterates over a deque (2268) to which a remote command may add
  (2171): the loop ends with `RuntimeError`, and only the destructor runs the rest.
  A command scheduled between the end of the loop and the assignment that follows
  is lost, and after it `del_cmds` is a list, whose missing `appendleft` ends the
  pipe thread.  Two virtual hosts of one real host that change one variable restore
  it in the order in which they are stopped, which may leave the value of one.
- The language differs from its description where names are used twice.  A loop
  variable keeps its last value after a loop inside another (3015 updates the dict
  that all share), and hides a `let` of the same name, where README.md:531 speaks
  of "all bounded occurrences"; a range is substituted where the `for` stands
  without evaluating inline expressions; a script that ends inside a `for` ends
  silently, and the check for an `end for` too many (3004) lets leading blanks pass
  to a `KeyError`.  src/README.md:579 excludes identifiers from "the definition of a
  `for` command", but comments (3040, 3050) and the scripts of src/test/test_exps rely on
  them, so the model has ranges with a name.  An undefined name ends the script
  (799-804), for only `KeyError` is caught where it is used (1148-1153).  `WellScoped`
  says for which scripts `MeansAsWritten` holds.
- On a topology with a cycle of three hosts or more the tree routes (2202-2236) hold
  two routes to one network, which the kernel refuses.
- `ping` reads the exit code and the output of its command from fields that any
  other command on the host may have set since (806-815).
- `get_real_host` looks up and then creates (1648): two threads may make two pools
  for one real host, of which one is lost with its connections.
- `next_subnet` (340) raises at the end of the base network before `connect` has
  changed anything; `__parse_delay` (319-324) swaps the factors of us and ns,
  inverts others, and takes the suffix from a token that is always empty, so that
  every delay counts as milliseconds: 200us weighs 200, and 1ms weighs 1.  In
  src/README.md:178-179 "the weights are set to the link latencies"; `Delivered` speaks
  of the numbers.  A delay of 0, which is legal, leaves shortest paths on which two
  hosts send a packet back to each other, hence its premise `Weighed`.
- `ExecutionEnvironment` has a mutable default for `locals` (2567): environments of
  remote commands share their variables.

## Not modelled, and the plan

Out of reach or without behaviour of their own: logging, option parsing, version
discovery, the REST API, evaluated Python expressions, regular expressions of the
language, what `tc`, `ip` and `lscpu` print.  External code (executor, kernel
devices) is modelled from how the program uses it and marked so in the map.
SIGINT during `close` and during an inline callback is left out.

Of the routing algorithms, the two `world` ones are not modelled: they iterate
over names where they need hosts (930-1030) and fail at the first.  In `HostPool`
serial mode is left out: without an executor its calls are plain calls, and what
serial mode loses is in `Batches`; the routes of `tree_subnets`, which main computes
itself (1072-1074), are in `Routing`.  The creation of connections that
`retry_until_success` repeats is one step of `SSHPool`.  `RealHostPool`, the
stand-ins of dry-run mode and local commands keep no state beyond what was said.

Order of work:

1. `ConnectionSlots`, `SSHPool`, `HostPool`, `Shaper`, `BridgeManager` (done),
   with the proofs of `SSHPool` and `Shaper` (done).
2. `HostLife`, `Cores`, `Routing` (done).
3. `Script`, `Batches`, `Shutdown`; docker and sysctl in `HostLife`, tree routes in
   `Routing`, and the proofs of `Shutdown` (done).
4. `waitall` in `HostPool`, ignored errors in `BridgeManager`, single accesses in
   `Batches`, pipe threads that define hosts in `Shutdown`, units and zero delays in
   `Routing`, undefined names in `Script` (done).
5. Proofs of the safety properties of `HostPool`, `Cores`, `Shaper`, `Shutdown`,
   `BridgeManager`, `Batches`, `Script`, `HostLife` and `Routing` (done, but for
   `MeansAsWritten`).
