# TLA+ models of dso-fifo

The repository holds the solutions of an operating-systems lab on kernel
synchronisation: a FIFO character device (`parteB`), a linked list behind
`/proc` (`parteA`, `opcional1`), a table of named entries behind a system call
(`opcional2`, KIFS), the example modules they start from (`FicherosP3`) and the
copy of the Linux scheduler that `opcional2` patches. This directory models
that code in TLA+, checks it with TLC on small instances and proves most of the
checked invariants with TLAPS for instances of any size.

Paths below are relative to the repository's root; `fifo.c:146` is line 146 of
`parteB/fifo.c`, `sched.c` is `opcional2/kernel/sched.c`. "The assignment" is
`practicaProcSincro.pdf`. `PROJECT.json` gives, for every definition that models
code, the lines it stands for (`map`), and for every hazard of the code its line
and the properties about it (`hazards`).

## 1. The system

| component | state | operations | shared with |
|---|---|---|---|
| **FIFO device** `parteB/fifo.c` | `mutex`, `cola_prod`, `cola_cons`, `num_prod`, `num_cons`, `num_bloq_prod`, `num_bloq_cons`, `cbuffer`, the module's reference count | open, release, read, write, the macro `cond_wait`, load, unload | every process that opens the device |
| **circular buffer** `parteB/cbuffer.c` (copy in `FicherosP3`) | `data`, `head`, `size`, `max_size` | create, destroy, sizes, single and bulk insertion and removal | called by `fifo.c` under its mutex |
| **modlist** `parteA/modlist.c`; with a reader-writer lock `opcional1/modlist.c` | a list of integers and its lock | read, write (`add`, `remove`, `cleanup`), load, unload | processes through `/proc/modlist` |
| **KIFS** `opcional2/kernel/kifs.c` | entries on a used and a free list, `num_entry`, a lock; an unlocked clipboard | create, remove, `sys_kifs`, the entries `list` and `clipboard` | kernel modules and any process |
| **prodcons1, prodcons2** `FicherosP3/Ejemplos` | a buffer of pointers; semaphores `huecos`, `elementos`, `mtx`; or `mtx`, two queues and two counters of waiters | read, write, load, unload | processes through `/proc/prodcons` |
| **chardev** `FicherosP3/Ejemplos/Chardev` | `Device_Open`, `msg`, `msg_Ptr` | open, release, read, write, load, unload | any process |
| **dump_utmp** `FicherosP3/Ejemplos/DumpUTMP` | a list of records | `utmp_send`, `utmp_receive` | a client of the FIFO device |
| **scheduler** `opcional2/kernel/sched.c` | tasks, run queues, their locks, wait queues, load figures, task groups | wake-ups, `schedule`, migration, hotplug, policies, completions, accounting | every task, every CPU |

What makes this code hard: condition variables built out of a counting semaphore
and a counter, with two windows in each wait; `down_interruptible`, which lets a
signal end every sleep and makes each caller undo what it did; ends that come and
go while others sleep; values read under a lock and used after it, or read before
it and stored under it; nodes freed outside the lock; a module that may be removed
while its code sleeps; in the scheduler, wake-ups cut in two halves, masks that
change while a request waits, and locks taken in pairs.

What makes each component correct:

* FIFO: bytes come out once, in order, in whole writes; the counters of ends and of
  waiters are exact; end of file and `-EPIPE` are reported for the right reason and
  always; nobody sleeps through the event it waits for; nothing is left over from
  one conversation to the next; the module stays as long as files need it.
* circular buffer and prodcons: a first-in first-out queue; no memory is lost or
  freed twice; nobody sleeps beside a free slot or an item.
* modlist: a reader sees one state of the list; no node is reached once freed.
* KIFS: an entry is on one list; names are unique; a call runs the entry it named.
* chardev: one open at a time, a device that can be opened again once it is closed, and a
  cursor that stays in its message (none of which the code guarantees: 3.3).
* dump_utmp: records arrive whole, in order, and all of them before the end of file.
* scheduler: no wake-up and no completion is lost; counters agree with the tasks
  they count, on whatever CPU these went to sleep; a task is where its mask and its
  lock say, in the class its policy and its waiters say; load averages are conserved
  and converge; real-time groups never promise more time than they have.

## 2. Modules

| module | models | abstract specification it implements |
|---|---|---|
| `CBuffer`, `CBufferOps` | `cbuffer.c`: an operator per C function; a client that calls them | `BoundedQueue` |
| `Kernel` | semaphores and processes as the modules see them (external) | |
| `Fifo` | `fifo_open`, `fifo_release`, `fifo_read`, `fifo_write`, `cond_wait`, over `CBuffer` | `Pipe` |
| `FifoModule` | loading, unloading and references of the FIFO | |
| `DumpUtmp` | `dump_utmp.c` composed with the whole of `Fifo` | |
| `PtrBuffer` | the two copies of the buffer of pointers | |
| `ProdCons`, `ProdCons1`, `ProdCons2` | what the two versions of `/proc/prodcons` share; each of them | `ItemQueue` |
| `ModList` | both `modlist.c`, the lock a parameter | |
| `Kifs` | `kifs.c` | |
| `Chardev` | `chardev.c` | |
| `Completion` | wait queues, completions, `sleep_on` | |
| `LoadAverage` | `calc_load_*`, `update_cpu_load` | |
| `RunQueue` | `schedule`, wake-ups, fork, affinity, migration, hotplug | |
| `RqLocks` | the run queues' locks | |
| `TaskPriority` | policies, priorities, boosts, fork | |
| `RtGroups` | real-time bandwidth of groups | |
| `MC...` | the instances TLC checks | |
| `CountingProofs` | lemmas about cardinalities, sequences without repetition, sums and loops | |
| `CBufferProofs` | lemmas about the operations of `CBuffer` and the bytes a buffer holds | |
| `FifoProofs` | theorems about `Fifo` and `DumpUtmp` | |
| `ModulesProofs` | theorems about `ModList`, `Kifs`, `FifoModule`, `Chardev` and `CBufferOps` | |
| `ProdConsProofs` | theorems about both `ProdCons` modules | |
| `AccountsProofs`, `RunQueueProofs` | theorems about `Completion` and `LoadAverage`; about `RunQueue` and `RqLocks` | |
| `PolicyProofs` | theorems about `TaskPriority` and `RtGroups` | |

Operators whose comment says *Mutant* are faulty versions of the definition that
follows them; they are used only to confirm that a property can fail
(`PROJECT.json`, `mutants`).

A variable that the code does not have is marked *history* where it is declared. It
records what a property needs to know of the past and never enables or disables an
action, except as a named bound.

### 2.1 The FIFO (`CBuffer`, `Fifo`, `FifoModule`)

A `cbuffer_t` is a record with the struct's fields; `data` is indexed from 0.
`remove_items_cbuffer_t` is two operators, the buffer it leaves and the bytes it
stores. The index arithmetic is the code's: `head = max_size` belongs to the type
because `cbuffer.c:176` produces it. Where a single-byte operation then indexes past
the end of `data`, a load gives any byte and a store changes nothing inside `data`.
`create_cbuffer_t` leaves `data` uninitialised, so the initial contents are any.

*Atomicity of `Fifo`.* Everything the mutex protects is touched only under it, and
nothing inside a critical section sleeps, so the code from a `down` of the mutex to
the next `up` is one action. `Acquire` is an action of its own because
`down_interruptible(&mutex)` can only fail while somebody else holds the mutex.

| code | action |
|---|---|
| entry of each function up to its first `down` (size check, `vmalloc`, `copy_from_user`) | `OpenCall`, `ReleaseCall`, `ReadCall`, `WriteCall` |
| `down` of the mutex succeeds | `Acquire` |
| `fifo.c:138-173`, first pass of the `while`; after a wake-up | `OpenSection`; `OpenRetest` |
| `fifo.c:148-152`, `165-169`, the handler of an interrupted open | `OpenUndo` |
| `fifo.c:189-203`; `244-284`; `316-354` | `ReleaseSection`; `ReadSection`; `WriteSection` |
| `cond_wait`: `count++; up(mtx)`; the down succeeds | part of those sections; `Wake` |
| ... it ends with a signal | `InterruptWait`, then `InterruptSection` (`down; count--; up`) |
| the `down_interruptible` of the mutex ends with a signal | `InterruptEntry`, `InterruptRelock` |

`num`, `num_bloq` and `cola` are functions of the side (`"prod"`, `"cons"`), each for
two C variables. `side(p)` is the test of `FMODE_READ`: a file opened for reading and
writing is a consumer. `queue(p)` is the queue a process waits in.

*Semaphores* are external. The kernel hands a semaphore to the first sleeper; here a
process at a `down` takes the count whenever it is positive. The finite behaviours
are the same: a process at a `down` stands both for one that has not called it yet
and for one asleep in it, and the hand-over is the sleeper taking the count at once. A
broadcast from a negative `num_bloq` runs its loop around the 32-bit integers, which
adds `num_bloq` modulo `UINT` = 2^32 to the count; `WaitAccounting` shows the sum to be
small, so the modulus needs only to exceed the number of processes. `vmalloc` may fail
and fails for zero bytes; `copy_to_user` and `copy_from_user` may leave any number of
final bytes uncopied (`Faults`). After a failed open, and after a release whatever it
returns, the process has no file: that is what the VFS does. A file whose access mode
is neither reading nor writing, and two processes sharing one file, are left out.
`fifo.c:107` initialises `wait_friend`, which is declared nowhere; the line is ignored.

*`FifoModule`* keeps the reference count that `fops` leaves to open and release. Inside
it an open or a release only lasts, ends well, or is interrupted: its effect on the
module does not depend on the rest. `rmmod` is external: it starts if the count is zero,
from then on `try_module_get` fails, and it runs `cleanup_module` in its two statements.
A file whose module is gone is `"dangling"` and takes no further step: the code it would
run no longer exists.

`Pipe` has the bytes, the two counts and each process's last result, and no mutex, queue
or ring. A successful write is one append of exactly the bytes its result names; a read
takes a prefix; end of file only with no producer and no bytes; `-EPIPE` only with no
consumer; bytes vanish only when both counts are zero, or behind a fault in user memory.

### 2.2 dump_utmp (`DumpUtmp`)

The composition of the client with all of `Fifo`: a system call of the client is `Fifo`'s
`OpenCall`, `WriteCall`, `ReadCall` or `ReleaseCall`, the driver goes on by its own
actions (`Driver`), and the client continues from the result in `ret`. A process that
ends has its file closed by the kernel. A signal that would kill the client is met as the
`-EINTR` of the call it interrupts.

### 2.3 Producers and consumers (`ProdCons1`, `ProdCons2`)

A section under `mtx` is one step; each `down_interruptible` is a step that succeeds and
one that a signal ends. `heap` counts blocks of memory and `lost` (history) those that
three paths of the code forget. In `ProdCons1` the `up` of the opposite semaphore and the
return come after `mtx` is released and are a step of their own (`P1Finish`). In
`ProdCons2` `swallowed` (history) counts the wake-ups that a process takes with it when a
signal meets it at the second `mtx` (`prodcons2.c:76`).

### 2.4 modlist and KIFS (`ModList`, `Kifs`)

`ModList` walks the list one node per step, because under the reader-writer lock readers
run side by side; a writer's section excludes everybody and is one step; the nodes it
unlinks are freed one by one afterwards (`unsafe_clear_list`). `snprintf` returns the
length it would have written.

`Kifs`: a section under the spin lock is one step. `sys_kifs` releases the lock, then
tests the entry's callback (`Dispatch`), then reads it again and calls it (`CallEntry`; a
callback that has become NULL in between kills the process), `list_kifs` reads `num_entry` before
it takes the lock, and the clipboard's reads, copies and final NUL are steps without one.
Names and lines are lengths and model values; `reused` (history) marks a call whose entry
was removed after it found it.

### 2.5 chardev (`Chardev`)

Nothing in `chardev.c` is locked, so every access to shared data is a step and the steps of
any two processes come in any order, as on several processors or in a kernel that preempts:
an increment is a load and a store, and what was tested is loaded again or not, as the
compiler likes. `raced` (history) records which of the two tests, of `Device_Open` by an
open and of the cursor by a read, has been passed by a process while another stood between
its own test and its increment. What goes wrong only then is stated with this exception
(`OpensExclusive`, `CursorInside`).

### 2.6 The scheduler

* `Completion`: a region under the wait queue's lock is one step. Signals and timers
  set a task running without that lock, between any two steps. A task's state is the
  set of its state bits; `done` wraps behind `UINT_MAX`. `__wake_up_common` is `Woken` for
  the completion's exclusive waiters; the sleepers of `sleep_on` are not exclusive, and
  `wake_up` wakes them all, whatever `nr_exclusive` is.
* `LoadAverage`: folding a CPU's change (under its lock) and adding it to
  `calc_load_tasks` (an atomic) are two steps; in `calc_global_load` collecting the idle
  changes, adding them, making up for missed periods and the regular update are four
  (`updating`), each update with its own read of `calc_load_tasks`. Time is counted in periods. `update_cpu_load` keeps the
  weighted averages with the tables of `decay_load_missed`.
* `RunQueue`: a region under one run queue's lock is one step; where the code lets the
  lock go, between the halves of `try_to_wake_up` and of `wake_up_new_task` and inside
  `schedule` (`switching`), there are two. Which task of a queue runs next and where a
  class would put a task is open (the classes are in files outside the repository). The
  stop task carries out migrations; CPU hotplug runs in `StopMachine`. `stray` (history)
  names the tasks that two paths of the code leave on a CPU outside their mask. What a
  bound worker asks for itself is left out of `set_cpus_allowed_ptr`.
* `RqLocks`: the locks one `raw_spin_lock` at a time: `task_rq_lock` and its second look,
  against `__migrate_task`, `yield_to`, `this_rq_lock` and both builds of
  `double_lock_balance` (`fair`).
* `TaskPriority`: `p->pi_lock` and the run queue's lock make a change one step; what
  `__sched_setscheduler`, the rt_mutex code and `normalize_rt_tasks` read before taking them
  is a step before. `sched_fork` takes neither: the child is a copy made earlier
  (`dup_task_struct`, external, in `copied`), and line 2667 reads the parent as it is by then.
  Permissions are a choice. `SCHED_RR` goes with `FIFO`, `SCHED_BATCH` and `SCHED_IDLE`
  with `NORMAL`: they differ in nothing that is modelled. `leaked` (history) names the
  children born with a priority that is not their own: those of finding 3 below, and those
  whose parent's policy or priority was set between the copy and line 2667.
* `RtGroups`: the value read before `rt_constraints_mutex`, the check and the store are
  three steps of a call. A task turns real time by way of the test of
  `__sched_setscheduler` and, in a step of its own, the change (`TestsRuntime`,
  `RunsRealTime`): the locks held over both do not hold up who sets runtimes or attaches. Or
  it does so untested (`RunsRealTimeUntested`): for a caller in the kernel (`sched.c:5027`),
  in an autogroup (5034), by a boost (4707), or born so. An attach takes one task or the threads of a
  process, and checks and moves each by a step of its own. `slipped` (history) names
  the tasks that were untested where there was no time, or for which one of these windows
  made a difference.

## 3. What TLC checks

### 3.1 Passing runs

A run may join independent parts: its MC module then runs one part per behaviour, chosen
by a variable (`subsystem`, `part`, `version`), and the others stand still.

| run | instance | properties |
|---|---|---|
| `fifo_pipe` | 2 processes, one a reader and writer, both interruptible, 2 bytes of buffer, 2 byte values, lengths 0 to 3, faults, one lost release per side | `OpenAccounting`, `WaitAccounting`, `ImplementsPipe` |
| `fifo_pair` | one reader, one writer, no signals, 3 bytes, lengths 1 and 2, fairness, deadlock checked | `NoLostWakeup`, `EmptyWhenUnused`, `NumBloqIsWaiters`, `WriteNeedsConsumer`, `BrokenPipeReported`, `OpenReturns` |
| `prodcons` | either version, 3 interruptible processes, 2 slots, 2 values, 1 block (and 1 wake-up of a kind) lost | `MemoryAccounted`, `Permits`, `WaitersAccounted`, `WakeUpForEachGap`, `ImplementsQueue` |
| `lists` | modlist: 3 processes (2 with the spin lock), 3 nodes, either lock, numbers of 2 and 3 characters in a buffer of 4; KIFS: 2 callers, 2 slots, 3 names, a size at the limits and one above | `NodesAccounted`, `SnapshotRead`, `ReadOvershoot`; `RegistryConsistent`, `FoundEntryStands`, `BuffersHold` |
| `utmp` | 3 interruptible processes, 2 records of 2 bytes, a buffer of 3 (as 384 bytes in 512: one fits and part of a second) | `RecordsWhole`, `Delivery` |
| `devices` | FIFO module: 3 processes, 1 failed init, 2 unpaired references; buffer: 3 bytes of 2 values, a bulk and a single-byte client; chardev: 3 processes, a message of 2, a cursor followed to 4, a counter followed to 2 either way; locks: 3 CPUs, 3 queues, 1 task | `RefsAccounted`, `PinnedFileHasModule`; `ImplementsQueue`; `OpensExclusive`, `CursorInside`; `RightQueueLocked`, `NoLockCycle` |
| `sched_accounts` | completions: 3 tasks, a counter of 2 bits; load: 2 CPUs, periods missed up to 2; CPU load: 4 weights, up to 9 missed ticks | `NoLostCompletion`, `EntriesOnLiveStacks`; `LoadAccounted`, `AvenrunTracks`; `CpuLoadMoves` |
| `sched_queues` | 2 tasks, 2 CPUs, 1 migration request at a time | `QueueAccounts`, `AwakeRuns`, `AffinityPending` |
| `sched_policy` | priorities: 2 tasks, 2 real-time and 2 fair priorities, 2 calls under way; tree: 3 groups, 2 runtimes, limits on and off, a period of 0 tried; tasks: 2 groups, 2 tasks that attach alone or as threads of one process | `ClassFollowsPolicy`, `SetparamKeepsPolicy`; `RtSchedulable` |

**Bounds.** Two processes are enough for every hand-over between a producer and a
consumer; the third adds two waiters in one queue, or a bystander that holds the mutex
while signals arrive. One to three bytes make every second call block and the ring wrap
with `head` at each position, `max_size` included. The histories of lost things
(`MaxLost`, `MaxUnpaired`, `MaxStale`) are bounded by one or two: one is enough to leave a
counter wrong for ever. `UINT = 16` stands for 2^32 and `UINT_MAX = 3` for the
2^32 - 1 of `x->done`, which with the second `complete_all`, that adds half the range, wraps after a
few calls, as in the code. Three CPUs are needed for a cycle of locks longer than a pair. Two
tasks on two CPUs meet every order of the halves of a wake-up with a migration and a CPU
that dies; `MaxDrift` bounds a queue's `nr_uninterruptible` (which alone means nothing
and could drift for ever) to one either way. One real-time period suffices because only
ratios are compared; the value 0 written to the global period is the boundary case.
Three MC bounds leave out what does not interact. `sched_policy`: one call of
`sched_setscheduler` (which depends on nothing it read) and one of `sched_setparam` at a time,
and while a task forks or is normalized one of the two; calls, waiters and normalizations of
one task at a time, since tasks meet only in forks; and no attach while the global limits,
which it does not read, change. `lists`: who reads the KIFS list meets lookups, creations and
removals, but no call in the list or the clipboard, which share nothing with it; and the spin
lock, under which nothing happens that the other lock does not allow, has two processes.
Weights 0, 5, 9, 16 take each of the five averages up and down from every value they reach.

Deadlock is not checked where the code may really stop: with a lost end or two waiting
opens every process can be asleep; `RqLocks` states the absence of deadlock as
`NoLockCycle`. In `fifo_pair` it is checked, with lengths that cannot block each other (a
read of *r* and a write of *w* bytes can wait for each other only if *r* + *w* >
`BUF_LEN` + 1).

**Fairness** (`FairSpec` of `Fifo`): weak fairness of the critical section a process is in
(the kernel schedules it, it does not sleep); strong fairness of `Acquire` and `Wake`,
since `struct semaphore` serves its sleepers in order, so a semaphore that becomes free
again and again is had by each of them. Calls and signals are the environment's and are
never assumed to happen. The other modules state no liveness: their code promises none
that does not rest on another process calling again, and a lost wake-up is stated there as
an invariant (`WakeUpForEachGap`, `NoLostCompletion`, `AwakeRuns`).

### 3.2 Disagreements between the code and what the repository says of it

| run | property | what happens |
|---|---|---|
| `fifo_eof_v` | `EofReported` | 1. the last producer closes and wakes nobody: a reader asleep in the empty FIFO never gets end of file (`fifo.c:197` against `fifo.c:14`) |
| `fifo_wakeup_v` | `NoLostWakeup` | 2. with two consumers, one takes the wake-up of the other and sleeps again (`fifo.c:342` against `fifo.c:341`) |
| `sched_fork_v` | `RevertsOnFork` | 3. `sched_fork` resets policy and `normal_prio` on request and then copies the parent's real-time priority and class back (`sched.c:2667` against `sched.c:2643`) |

### 3.3 Other things the models show

Each is seen by running an instance above with the change named.

* `fifo_pair` with `Interruptible = {r, w}`, `MaxLost = 1`: `BrokenPipeReported` (an
  interrupted open takes `num_cons` to zero without waking a writer that waits for space,
  `fifo.c:150`), `WriteNeedsConsumer` (an interrupted release leaves `num_cons` counted,
  `fifo.c:187`), `EmptyWhenUnused` (an interrupted open is the last end to go and does not
  empty the buffer, `fifo.c:150`), `NumBloqIsWaiters` (a signal and a broadcast both
  subtract the same waiter, `fifo.c:65`) all fail.
* `devices` with `Apis = {{"items", "single"}}` and the property `RemovesFirst`: after a bulk
  removal that stops at the end of `data`, `remove_cbuffer_t` reads past it
  (`cbuffer.c:176`, `191`). Neither the driver nor the examples mix the two families.
* Without what they except (`raced`), `OpensExclusive` and `CursorInside` fail. Two opens on
  two processors, or in a kernel that preempts, both pass the test of `Device_Open` before
  either increments it (`chardev.c:90`, `93`) and both succeed, against "Used to prevent
  multiple access to device" (`chardev.c:30`); of their increments or decrements one may be
  lost, and the device stays busy after both have closed it (`chardev.c:106`). Two readers of
  one file can each pass the test at the last character (`chardev.c:141`), and then move
  the cursor past the terminator.
* What `RefsAccounted`, `MemoryAccounted`, `WakeUpForEachGap`, `AffinityPending`,
  `FoundEntryStands`, `ClassFollowsPolicy` and `RtSchedulable` except by name (`unput`,
  `unpaired`, `dropped`, `lost`, `swallowed`, `stray`, `reused`, `leaked`, `slipped`) are
  paths on which the code does leave a reference, a block, a wake-up, a task, an entry, a
  priority or a guarantee behind: the properties say that there is no other path. Dropping
  the exception from the property makes its run fail.
* `leaked` has two causes. The reset on fork is finding 3. The other is a race: if the parent's
  policy is set between the copy and `sched.c:2667`, a child of a task that was real time
  can be `SCHED_FIFO` in the fair class, and a child of one that becomes real time
  `SCHED_NORMAL` at a real-time `prio` in the fair class, until its priority is next set.
* Modelled without a property, because no line promises otherwise: a device left registered
  by an `init_module` that fails (`fifo.c:103`); a third `complete_all` that wraps `done`
  (`sched.c:4441`); a request for `sched_reset_on_fork` alone that the early return
  `sched.c:5018` drops; two setters of one group that undo each other's value
  (`sched.c:8891`); a global period of zero stored before it is refused (`sched.c:9010`).

## 4. What TLAPS proves

*The FIFO.* For every finite set of processes, every capacity, byte set, length set and `UINT`
larger than the number of processes (`ProcsAssumption`, `DataAssumption`,
`UINTAssumption` of `Fifo`, `KernelAssumption` of `Kernel`), with any signals and faults:

* `TypeCorrect`: `Spec => []TypeOK`;
* `EndsAreCounted`: `Spec => []OpenAccounting`;
* `WaitersAreCounted`: `Spec => []WaitAccounting`.

And if no signal arrives (`Interruptible = {}`):

* `NoStaleBytes`: `Spec => []EmptyWhenUnused`;
* `BroadcastsAreBounded`: `Spec => []NumBloqIsWaiters`;
* `WritesNeedConsumers`: `Spec => WriteNeedsConsumer`.

The last three are what signals break (3.3): the interrupt paths are the only cause.

*Argument.* The inductive invariant is `Inv == TypeOK /\ InDriver /\ OpenAccounting /\
WaitAccounting`. The parts need each other: that `num` stays a natural number when a
release or an undo subtracts one follows from `OpenAccounting` (the process is itself a
counted end); that needs `InDriver` (a process inside the driver has a file); and that
a semaphore's count stays right through the modulus of a broadcast follows from
`WaitAccounting`, which bounds the sum by the number of processes. A step changes one
process (`Local`), so each cardinality changes by whether that process moved in or out
(`CardinalityStep`, `EndsStep`, `WaitingStep`); one lemma per action then compares that
with what the action does to the counters. The last three use `Undisturbed` besides: no process is on an interrupt path, no
release was lost, no counter is negative, and the buffer is empty when unused.

*The FIFO is a pipe* (`FifoProofs`), under the first hypotheses alone, signals and faults included:

* `FifoIsAPipe`: `Spec => ImplementsPipe`.

*Argument.* `Inv` gives the buffer its type at each section, and `KbuffFilled` says that a write
asks for as many bytes as it has copied in, so that what the code tests (`length`) is what
it inserts (`kbuff`). The lemmas of `CBufferProofs` say what the ring's operations do to the sequence
the ring stands for, wherever `head` is and whether or not the copy wraps: `InsertItemsAppends`,
`RemoveItemsDrops`. With them each section that moves bytes is one step of `Pipe`
(`ReadSection`, `WriteSection`), and every other step leaves contents, counters and results
alone or is an open, a close or a failure of `Pipe`.

*No wake-up is lost* (`FifoProofs`), between one reader and one writer that no signal reaches
(`OnePerSide`, `Interruptible = {}`), for every capacity and every length each of them asks for:

* `WakeUpsReachTheirWaiter`: `Spec => []NoLostWakeup`.

*Argument.* `Inv`, `Undisturbed` and `Modes`, which says that a process reads or writes only what it opened. A
process can become ready only by what the other side does; every such section ends in a
broadcast to that side, or the waiter was ready before it (`OthersWake`). Both hypotheses are needed: the
run `fifo_wakeup_v` shows the wake-up that two processes of one side lose, and the undo of an
interrupted `open` changes `num` without a broadcast.

*dump_utmp over the driver* (`FifoProofs`), for any number of senders and receivers, any file, and any
sizes of a record and of the buffer that holds at least one (`UtmpAssumption`), with faults and signals:

* `RecordsNeverTorn`: `UtmpSpec => []RecordsWhole`;
* `SenderReachesReceiver`: `UtmpSpec => []Delivery` (for the pairs it speaks of: the only sender and the
  only receiver).

*Argument.* A step of the clients is a step of the driver or leaves it alone (`UtmpStepIsDriverStep`), so `Inv`
and `KbuffFilled` hold here as well; seen from its caller, a system call stays inside or comes back in one of
six ways (`DriverOutcomes`). `Clients` ties where a client is to its file and its call. `Whole`: the buffer
holds whole records of the file one after the other (`Made`), and so is what a read with its full length
brings back. A write adds a record and a read takes the first (`MadeAppend`, `MadeTake`): both are
of one record's size, which the driver takes or puts as a whole. `Delivered` is
what an order needs: the buffer holds the records after those the receiver has taken up to those the sender
has put. It holds because neither end gets past its `open` before the other has come to its own, so that
nothing is sent to a receiver that is not counted; because the buffer is emptied only when nobody is counted,
the reader included; and because a reader finds the end of the file only when the sender's end is gone
and the buffer is empty. A release that a signal cut short (`lost`) keeps an end counted that has gone: it can
make the other wait, but not lose a record.

*The circular buffer* (`ModulesProofs`), for every capacity and set of bytes, for clients that keep to
one family of operations (`Unmixed`):

* `CBufferIsAQueue`: `OpsSpec => ImplementsQueue`.

*Argument.* `BufInv`: the buffer is well-formed, and `head` stays below `max_size` where the single-byte
operations are used, which index with it before they reduce it. `InsertItemsOverwrites` is the
hard case, an insertion of several bytes that drops the oldest: the two copies, the wrap and the new `head`
fall in one of several arrangements (`PlacesWrap`). `InsertIsInsertItems` and `RemoveIsRemoveItems` reduce
the other family to it. The hypothesis is what the code needs: `remove_items_cbuffer_t`
leaves `head` at `max_size`, from where `remove_cbuffer_t` reads past the array (3.3).

*Run queues* (`RunQueueProofs`), for all finite sets of tasks and of CPUs and any bounds on
requests and drift (`RunQueueAssumption`):

* `CountersTellTruth`: `RQSpec => []QueueAccounts`;
* `AwakeTasksRun`: `RQSpec => []AwakeRuns`;
* `AffinityIsPending`: `RQSpec => []AffinityPending`.

*Argument.* One inductive invariant, `RQInv`, gives all three. For each task: it is on the queue of
an online CPU or on none, and between the halves of a wake-up its CPU is online and, for
`TASK_WAKING`, in its mask (`TaskPlaced`); and if it is queued *or running* outside its mask there is a
request (`Pending`: a task asleep in `schedule` while its affinity changes may be woken there).
For each CPU: what it runs is its own, and has left its queue only if `schedule` is under way and nothing has woken it (`Running`);
`Counted`, `Told`. Over all: `SleepersCounted`. Most steps touch one queue and one or two tasks, so a
frame lemma (`LocalStep`) leaves to each the queue and the tasks it touches. A move touches two
queues (`MoveKeeps`). A CPU that dies touches all: that its tasks,
spread over the other CPUs, take from their counters what the dead CPU's counter gives the heir is
`SpreadSum`, by induction over the tasks.

*The run-queue locks* (`RunQueueProofs`). For every finite set of CPUs and of run queues and
any set of tasks (`LocksAssumption`), with either `double_lock_balance`:

* `RightLock`: `LocksSpec => []RightQueueLocked`;
* `LocksNeverCycle`: `LocksSpec => []NoLockCycle`.

*Argument.* The inductive invariant `LockInv` says of each CPU which queues it wants
(`Wants`, from where it is in the code) and that it holds exactly those it does not still
have to take, all of them before, in the order of addresses, every one it still has to
take. So a task on a queue that one CPU has locked is never moved off it by another
(`OthersKeep`), which keeps a looked-up queue right; most steps let everything go and set out afresh
(`StartAfresh`), and the two that keep a lock while waiting, `TakeLock` and the unfair
`double_lock_balance`, have lemmas of their own. A cycle of spinning CPUs would be a finite
set of queues without a largest (`Largest`). That the second look of `CheckQueue` is needed
shows in the proof: it is what establishes `LockedIsRight`.

*The FIFO as a module* (`ModulesProofs`), for every finite set of processes and any failures and
signals: `ReferencesAddUp` (`RefsAccounted`) and `ReferenceKeepsModule` (`PinnedFileHasModule`).

*Argument.* `FMInv` adds what each of the module's three stages allows: while it is live every
file that is open or being released holds a reference; when it is going, which takes a count of
zero, none does, and none can get one before the next load.

*chardev* (`ModulesProofs`), for every set of processes, message length and interleaving of the
single accesses: `DeviceOpenOnce` (`OpensExclusive`) and `CursorStaysInside` (`CursorInside`).

*Argument.* `CDInv`: as long as no open has passed its test inside the window of another, at
most one process has the device, from its test to its decrement, and `Device_Open` is
one exactly while somebody has it past the increment (`CDExclusive`): nobody who releases, reads
or unloads can spoil what it has loaded. The cursor is alike: the only process
between test and increment knows that the cursor is short of the terminator, and an
open only sets it back (`CDCursor`). So the window between test and increment is the only way
in.

*prodcons* (`ProdConsProofs`), for every finite set of processes, every capacity and set of
items, with any signals, for a system that runs either version: `MemoryIsAccounted`,
`SemaphoresMatchBuffer` (`Permits`), `WaitersAddUp`, `NoGapUnannounced` (`WakeUpForEachGap`) and
the refinement `VersionsImplementQueue` (`ImplementsQueue`).

*Argument.* `P1Inv` is `PermitsMatchBuffer` and `MemoryAccounted` with the types and the places at
which a call has an item (`P1Call`): who is past the first `down` holds a permit that is counted
neither by the semaphore nor yet by the buffer, so `size` is never at its limit when the buffer is
touched. `P2Inv` is `WaitersAccounted`, `WakeUpForEachGap` and the same. As in the FIFO a step changes
one process, and each cardinality by a `Count`. For the refinement, `InsertAppends` and
`RemoveTakesFirst` say what the ring's operations do to the sequence it stands for.

*Completions* (`AccountsProofs`), for every finite set of tasks and any width of the counter:
`CompletionsReachWaiters` (`NoLostCompletion`) and `EntriesLeaveInTime` (`EntriesOnLiveStacks`).

*Argument.* `CInv` adds that a queue has a task once, and exactly while the task is inside the
function that queued it; so `list_del` takes off the caller's entry, and taking a completion
removes one awake waiter together with one completion.

*Load figures* (`AccountsProofs`), for every finite set of CPUs, precision, decay factor and table:
`LoadAddsUp` (`LoadAccounted`), `AvenrunNeverOvershoots` (`AvenrunTracks`) and `CpuLoadConverges`
(`CpuLoadMoves`).

*Argument.* A step changes at most one term of the sum of what is on its way
(`SumStep`), and `calc_global_nohz` collects only when what was collected before has been added
(`LoadTypes`). The weights that `calc_load` and `update_cpu_load` give the old and the new
value add up to one, so the rounded result lies between the two, and it moves because each
rounds towards the new one; `fixed_power_int`, a loop, keeps the factor at most one
(`PowerType`, from `LoopKeeps`).

*Policies and priorities* (`PolicyProofs`), for every finite set of tasks, with any priorities,
calls of `sched_setscheduler`, boosts, renices and forks (`PriorityAssumption`):

* `PolicyGivesClass`: `TPSpec => []ClassFollowsPolicy`;
* `SetparamLeavesPolicy`: `TPSpec => SetparamKeepsPolicy`.

*Argument.* `TPInv`: a task's own priority, `normal_prio`, is real time exactly if its policy is,
and then so is `prio` (`Sound`). Between the two halves of a boost it is the priority that
`rt_mutex_setprio` is about to set that fits the task's waiters and its own priority, else
it is `prio` (`Fits`). `set_user_nice` meanwhile changes only priorities that are not real time,
which is why what it finds fitting fits afterwards (`RenicedSound`); every other change of policy
computes both anew (`SetschedulerSound`). What was copied for a fork stays a sound task whatever becomes
of its parent (`CopiesSound`), and whether its class is its own is what `Classed` says; a child
that is not `leaked` got from line 2667 the priority that its copy already had, or a fair one.

*Real-time groups* (`PolicyProofs`), for every finite set of groups, every set of tasks, any
runtimes, periods and limits that users write (`GroupsAssumption`):

* `RealTimeStaysSchedulable`: `RGSpec => []RtSchedulable`.

*Argument.* `RGInv`. The tree holds together (`InUse`); what a group has, and what it will have
when a checked request is stored, covers its children (`AllFits`): a group is created without
runtime, so nobody's sum grows (`AllottedMore`), and removed without children
(`AllottedLess`); what is stored is what was checked, because there is one request between check
and store at a time. For the tasks (`TasksHaveTime`) the limit counts as `Enforced` when the
handler is idle, has passed its check, or has written over a limit that was on. That is
inductive because what a test has seen of a group is compared when it is used (`Sightings`), a thread
that was let through is followed until it is moved (`Attachments`), and
taking a limit away is never refused (`FitsIsSchedulable`): otherwise tasks that became real
time while no limit was written down would meet the old one when it is put back.

*modlist* (`ModulesProofs`), for every finite set of nodes and of processes, any values and buffer
length, either lock: `NodesHaveOneHolder` (`NodesAccounted`), `ReadersSeeOneList`
(`SnapshotRead`) and `ReadOvershootIsOneNumber` (`ReadOvershoot`).

*Argument.* `MInv`: every node is in the list, in one process's bin or in the hands of one process
that is adding it, and in one place only (`OneHolder`); a reader's cursor is where the number of
integers it has written says (`Walked`). The loop of `remove` divides the list into what stays and
the bin, in order (`LoopRuns`, `LoopKeeps`).

*KIFS* (`ModulesProofs`), for every number of slots, set of names and sizes:
`RegistryStaysConsistent` (`RegistryConsistent`), `FoundEntryIsTheEntry` (`FoundEntryStands`) and
`BuffersNeverOverrun` (`BuffersHold`).

*Argument.* `KInv`: only slots of the free list are given a name and callbacks, so an entry in use
keeps the name it was found by and the callback that was tested (`Stands`); and the last character of the clipboard is never anything but 0, which bounds
every unlocked `strlen`.

*Loops and sums* (`CountingProofs`). The library's induction rules take an operator, which no
prover here can instantiate. That its order of the natural numbers is well-founded gives every set
of them a least element (`LeastElement`) and with it induction for sets (`SetInduction`). A loop of the code is a function over the numbers of its rounds; `LoopRuns` says
that it exists and `LoopKeeps` that what each round keeps holds after all of them. `SumsOf` and
`SumStep` do the same for the sum of a function (`SubsetInduction` is induction over the parts of a finite set); that the order of its terms does not matter
(`SumOrder`) gives `SumAdds`.

*Only model-checked:* `OpenReturns` and `BrokenPipeReported`, since liveness under
fairness and `ENABLED` are out of the prover's reach. Every other property of a passing run is
stated by a theorem above.

## 5. Not modelled, and the plan

Left out for good: decoding and printing of utmp records and the parsing of options; the
build files and system call tables; in `sched.c`, the scheduling domains, CPU time
accounting, the system calls that only look up a task and call what is modelled, SMT and
power savings, fair groups, initialisation and debugging output: Linux as it came, with
no concurrency beyond what is modelled or dominated by hardware. `sched_fair.c` and
`sched_rt.c` are not in the repository: the order of tasks inside a class is open.
Abstractions that a larger model would lift: permissions in `__sched_setscheduler`,
memory of task groups.

Theorems next: the safety half of the two liveness properties, that is, the invariants from which TLC's
temporal result could be argued step by step (who holds the mutex is never asleep; who sleeps on a
condition that holds is posted, which `NoLostWakeup` says already), with the temporal step itself left to TLC.
