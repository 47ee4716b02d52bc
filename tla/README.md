# Verification of the concurrency core of bx

bx is one binary with many commands. Almost all of it is sequential; what is
hard to test is the small part where threads, locks, queues, cancellation and
teardown meet, and the part where one process faces the kernel: signal handlers,
children that end in any order, descriptors it must put back. This directory
models these in TLA+, checks them with TLC and proves most of their safety properties with TLAPS.

## 1. The system

| Component | State | Operations | Interacts with |
|---|---|---|---|
| Work pool, `src/lib/work_pool.c` | ring, head, tail, count, closed, failed, joined, two conditions | init, submit, close, wake, join, dispose, the worker loop | client callbacks worker_init, process_job, dispose_job; the cancel flag |
| Cancel state, `src/lib/cancel_state.c` | one atomic word of phases | request, requested, mark_* | everything that can be cancelled |
| Ordered publication, `src/lib/ordered_publication.c` | pending list, inflight, two sequence numbers | reserve_slot, release_slot, publish_packet, drain, cleanup | publish and dispose callbacks; the cancel flag |
| Multithreaded gzip, `src/applets/archive/archive_gzip.c` | current chunk, jobs, a pool and a window | input write, submit, compress, publish, finish, cleanup | pool and window |
| Subtree scheduler, `src/search/rg_sched.c` | one work list per worker, three counters, shutdown, fatal_error, exit status | pop, steal, claim, walk, donate, finish, sleep, set_fatal, run | directory walk, record publication |
| Parallel search, `src/search/rg_parallel.c` | pending batch, fatal_error, exit status, a pool | walk callbacks, queue_path, flush, process_job, set_fatal, run | pool, directory walk, record publication |
| Record publication, `src/search/rg_publish.c`, `src/lib/output_publication.c` | a lock (unordered) or a sink (ordered) | submit, submit batch, skip, close, join | both searches; only the unordered mode is ever selected |
| Output sink, `src/lib/output_sink.c` | sorted list, next number, skipped numbers, byte budget, emitter thread | submit, skip, wake, close, join, dispose | ordered publication of records, no caller today |
| Signal recorder, `src/lib/signal_pending.c` | flags written by a handler | set, take, wait_child, detach | the shell's traps |
| Child runner, `src/lib/child_runner.c` | table of children and slots, kept by the caller | spawn, reap, signal, finish_cancelled_run | xargs, find, fd, rg, timeout, init |
| Drivers of commands, `xargs_exec.c`, `fd_exec.c` | batch, statuses, interrupt and abort flags | sink, flush, wait for a slot, poll, cancel | child runner, signal handlers |
| Commands run by rg, `src/search/rg_transform.c` | one row and two pipes per call | run, read, reap | child runner, worker threads of the searches |
| timeout, `src/applets/system/timeout/timeout.c` | recorded signal, two deadlines | poll, pass a signal on, escalate | child runner, signal handler |
| init, `src/applets/system/init/init_runtime.c` | actions with a pid each, child table | run, wait, reload, reap, stop, continue | child runner, inittab, signals |
| Descriptor transactions, `src/lib/fd_transaction.c` | stack of saved descriptors | begin, save, commit, rollback, discard | the shell's redirections |
| Fetch engine, `src/lib/fetch` | request queue, publication records | schedule, transfer, publish | curl_multi, one thread |
| Everything else | | sequential applets, matchers, codecs, imported programs | |

The hard behaviours, with the line where each bites, are `hazards` in
PROJECT.json. In short:

* a condition that is signalled sparingly (pool: only short queues, only when
  the ring was full; scheduler: only on donations and on the last finish);
* a flag that is set without the lock of those who sleep (cancellation);
* a job with one owner at a time through refusal, failure and teardown;
* results that arrive in any order, and an output or a status that must not
  depend on it;
* steps that are two critical sections where a reader might think of one
  (taking an item and counting it; recording a fatal error and requesting the
  cancellation; asking for an idle worker and donating);
* one step of many that fails: a thread, an allocation, a write, a fork, a dup;
* a handler between any two steps of the line it interrupts;
* waitpid(-1), which answers for every child of the process, whoever started it.

What makes each component correct: the pool loses no job, no wakeup and no
memory; the window is a bounded channel; the filter writes a prefix of its
input and succeeds only with all of it; a search walks everything once or ends
with an error status, and it ends; the child table is the set of children that
run; a driver succeeds only if all commands did; a script never sees a backup
of its descriptors; a trapped signal runs its trap; a command to be kept is
kept, once; a timeout escalates, not early.

Paths in this document are relative to `src/`, the repository.

## 2. Modules

| Module | Models | Built from |
|---|---|---|
| `WorkPool` | `work_pool.c` with any client of one submitting thread | |
| `WorkPoolProofs` | theorems about it | WorkPool |
| `OrderedChannel` | what the window promises: numbers in, the same numbers out in order, a bounded difference | |
| `OrderedPublication` | `ordered_publication.c` with any workers | refines OrderedChannel |
| `OrderedPublicationProofs` | theorems about it, the refinement included | OrderedPublication |
| `GzipStream` | the streaming compressor | instances of WorkPool and OrderedPublication |
| `GzipStreamProofs` | theorems about it, its use of pool and window included | GzipStream |
| `RgSched` | `rg_sched.c` | |
| `RgSchedProofs` | theorems about it | RgSched |
| `MCRgSched` | a tree for TLC | RgSched |
| `RgParallel` | `rg_parallel.c` | an instance of WorkPool |
| `RgCapture` | a command run on a file by `rg_transform.c` | |
| `RgParallelProofs` | theorems about both, the use of the pool included | RgParallel, RgCapture |
| `ChildRunner` | the table of `child_runner.c` with any caller | |
| `XargsRun` | the driver of `xargs_exec.c` | an instance of ChildRunner |
| `XargsRunProofs` | theorems about the child table, xargs and timeout | XargsRun, TimeoutMonitor |
| `TimeoutMonitor` | the loop of `timeout.c` | |
| `InitSupervisor` | `init_runtime.c` | |
| `MCInit` | inittabs for TLC | InitSupervisor |
| `InitSupervisorProofs` | theorems about it | InitSupervisor |
| `SignalPending` | `signal_pending.c` with the traps of the shell | |
| `DescriptorFrames` | what nested redirections promise a script | |
| `FdTransaction` | `fd_transaction.c` as the shell uses it | refines DescriptorFrames |
| `ShellProofs` | theorems about the traps and the descriptors of the shell, the refinement included | SignalPending, FdTransaction |

Conventions. A critical section is one action. Where the code calls
pthread_cond_wait it is split: a sleeping thread has a state of its own, a
signal or broadcast moves it to the head of its loop, and `SpuriousWakeup` may
do so at any time. A step that takes no lock is separate only when another
thread can see the difference. A callback of a client is a choice in the
module of the library and an action in the module of the client; there, the
step of the library and that of the client are conjoined, and the properties
`PoolUse`, `PartsUse` and `TableUse` say that what results is a behaviour of the
library's module. So what is proved about the library holds in its clients.
Operators named in a comment that begins with "Deviation" are mistaken
variants of the definition that follows them. The specification does not use
them; each is a bug that a property is known to reject.

`WorkPool`. `worker[w]` is the program counter of `bx_work_pool_worker_main`,
`owner` that of the client thread inside `init`, `submit`, `join` and
`dispose`. `place` is a ghost that names the owner of each job. The client may
cancel, wake, close, join and dispose in any order; both clients do less. A
worker's `process_job` may request the cancellation, and may then wake the pool.

`OrderedPublication`. `caller` is the program counter of `reserve_slot` and
`drain` with `flush_ready` and `wait_for_ready` inside. `away` is the set of
packets that are with a worker, `out` what the publish callback accepted. The
sorted list `pending_head` is a set with its least element, which is all that
insertion and removal use.

`GzipStream`. `main` follows the stream functions from the creation of the
pool to the cleanup, `status[s]` is the status of a job, `freed[s]` counts
calls to free. Chunk s is job s + 1 of the pool.
Data is abstract: a chunk is its number. Publishing a packet and returning
from `process_job` are one step: the worker does not touch the job after it.

`RgSched`. `pc[w]` is the program counter of `bx_rg_sched_worker_main` and what
it calls, `slots[w]` the list of a worker, `visits[d]` how often a directory
was walked. Which directory of an item can be donated is given by `Kids`,
everything that is walked with it by `Below`. Files of an item only add to
`flags[w]`. `NoticeCancel` is in the model because `bx_rg_sched_cancel_requested`,
which looks like a test, marks phases. `SearchFatal` and the other actions
that raise a fatal error are two steps because `set_fatal` requests the
cancellation outside the lock.

`RgParallel`. `main` is the program counter of `bx_search_run_parallel_rg` and
of the walk callbacks, `then` where it continues after a submit or a fatal
error, `pending` the batch under construction, `batch[j]` the files of job j.
The files are met in the order of their numbers; whether an entry is a file,
an unreadable directory or a missing operand is a choice. Batches are flushed
early at any time, which stands for the limit on their bytes.

`ChildRunner`. `children` is the array up to `running`, in the order of the
code, since a row that is dropped is replaced by the last. `proc` is the
kernel's view. waitpid(-1) may take any zombie, those of `Inherited` included,
children from before the exec. `call` is the wait in progress; each iteration
of the loop of `bx_child_reap` is a step, as is a signal that interrupts it.
`AutoReap` stands for SIGCHLD ignored at exec, when the kernel keeps no zombies.

`XargsRun` is the caller with the most to lose: its steps are conjoined with those
of the table. The interrupt flag may be set at any time and ends a wait. `settled`
is a ghost: the items whose command ended with 0. The limit on processes and the
mode are chosen in `Init`.

`RgCapture`. A worker of the search is its program counter, the row on its
stack and the two fields of `bx_rg_capture_reap`; the command writes a bounded
number of times to standard error and may close its output before it ends.
All workers are threads of one process, so one waitpid serves them all. How many
workers the search has is chosen in `Init`.

`TimeoutMonitor`. Deadlines are what remains of them, so time needs no bound.
`now` is represented by its age. Every combination of the options, with and
without a child from before the exec, is a state of `Init`. A command is taken to ignore all signals but SIGKILL, and to end when it
likes.

`SignalPending`. The handler (`Deliver`) runs between any two steps in which its
signal is not blocked. `Suspend` is one step with the change of mask, as
sigsuspend is. The commands of the shell are chosen freely: a trap, a wait, a
subshell, an action that is itself a command. `owed` is a ghost: signals that
arrived while trapped.

`FdTransaction`. One table for descriptors of the script and backups, since they
are one table in the process; `entries` and `frames` are the stack. The shell's
redirection is `Redirect`, between `Save` and `Commit` or `Rollback`. dup may
find no room at any time. The mapping to `DescriptorFrames` hides the backups
and restores, for each frame, what its entries remember.

`InitSupervisor`. The main line is a program counter; SIGTSTP is a handler that
may begin between any two steps and reaps until SIGCONT. A reap with its callback
is one step, and so are fork and the row it adds. `pid[e]` is `action->pid`, which
may be -1 as in the code. `misread` is a ghost: the row a pid was read from was
another command's. `faults` counts the forks that failed and the SIGTSTP
that came: some promises are kept only without them, and the properties say so.

## 3. What is checked

Every run checks the safety of its module and, under the fairness given below,
its liveness.

| Run | Bounds | Shows |
|---|---|---|
| `work_pool` | 3 threads, ring of 2, 4 jobs | single owner, no lost wakeup, join, reclaim, order; submit and join return |
| `window` | window of 2, 4 packets | no lost wakeup, disposal, reserve_slot and drain return; implements OrderedChannel |
| `gzip` | 2 threads, window and queue of 2, 4 chunks | output, memory, submit does not block, correct use of pool and window, the filter ends |
| `sched` | 2 workers, a tree of 4 directories on 3 levels and a file batch | counters, sleep and shutdown, one walk, success, the search ends |
| `parallel` | 2 workers, queue of 1, batches of 2, 3 files | success, memory, correct use of the pool, the search ends |
| `xargs` | 2 slots or a table that grows from 1 to 4 rows, 3 items, both modes, 3 children, 1 inherited | success, the table, its correct use, the run ends |
| `fd_transaction` | 4 descriptors, 3 of them fit for backups, 2 nested frames of 2 | invariants of the stack; implements DescriptorFrames |
| `signal_traps` | 3 signals, one child, a subshell | no trapped signal is lost; a wait ends |
| `init` | 3 entries, 3 processes, 3 inittabs, one fork that fails or SIGTSTP, reloads, Ctrl-Alt-Del, halt | a command to be kept is started again and never twice; what a reload stops |
| `rg_capture` | 1 or 2 workers, 3 files, up to 2 messages in a pipe for 1, failing reads | a file gets its own status if the worker is alone; every capture ends |
| `timeout` | both delays of 2, 2 signals, with and without an inherited child, failing calls | SIGKILL is not early; the escalation ends the command |
| `rg_capture_parallel` | 2 workers, 2 files | a violation: with two workers a file may get the status of another file's command |

The last run is a defect (`findings` in PROJECT.json): each thread of a parallel
search waits for any child of the process and stores the status of whichever it
gets, so that "preprocessor command failed" (`rg_transform.c:488`) may name a file
whose command succeeded, and a file whose command failed may be searched.

### Divergences met

These are further places where the code does not keep what a comment or a table
of rules of the repository says, or what one would expect. The modules contain
them; the properties of the runs are stated around them. Each can be seen with
TLC by the change given here.

| Where | What happens | To see it |
|---|---|---|
| `child_runner.c:806` | SIGCHLD ignored at exec: waitpid answers ECHILD, the rows stay, and a wait that has to empty the table never returns | `AutoReap = TRUE` in `XargsRun.cfg` breaks `RunEnds` and `TableOK` |
| `xargs_exec.c:464` | with `-I`, a status of 255 does not abort (`xargs_exec.c:39`) until the table is full: one more command starts | the property `AbortStopsLaunching` in `XargsRun.cfg` |
| `xargs_exec.c:773` | malformed input: xargs returns with children running, against "stop spawning before join/reap" (`workqueue_contract.c:72`) | the invariant `ReapedAtEnd` in `XargsRun.cfg` |
| `init_runtime.c:452` | the -1 of a failed fork is kept as a pid: the entry is dead for ever | `RespawnKept` without `faults` |
| `init_runtime.c:367` | the SIGTSTP handler reaps a command before its pid is kept, which then is kept: the entry is dead for ever | the same |
| `init_runtime.c:372` | the SIGTSTP handler reaps between the fork and the reading of the pid from the last row; if a third row is then last, its pid is kept, and its end starts the command again while it runs | `OneProcess` without `misread`, with four entries and five processes |
| `init_runtime.c:488` | a reload that removes such an entry sends SIGTERM to -1, every process | `ReloadStopsRemoved` without `faults` |
| `rg_transform.c:297` | standard output is read to its end before standard error: a command that fills the second pipe and rg wait for each other | `CaptureEnds` without `Stuck` |
| `timeout.c:537` | the callback takes any child for the command: one from before the exec that ends first ends timeout while the command runs | `Escalates` without its condition on `other` |

Why the bounds are enough to be of use. The ring of two wraps within four jobs
and is full, empty and half full; it is shorter than the pool, so that both
conditions are waited on, and still becomes longer than the number of sleeping
workers, the case in which submit does not signal. A window of two over four
packets has a packet published, one pending out of order and one away at once. In
the filter, `WantedInflight = 1` is below the number of threads, so the code's
correction of the window is used. In the scheduler's tree, `r` is donated from,
`a` is donated and itself donated from, and `f` is an operand that cannot be
split; two workers are enough for owner and thief, and an instance with three on
a smaller tree (15.7 million states) showed nothing new. The child table grows
once and has a hole in the middle. Two nested transactions over four descriptors
have a backup in the way of a new target, a target saved by both, and no room for
a third backup. Three signals are needed in `signal_traps` for one that is taken,
one that stays recorded and one that arrives; two delays of two units in the
timeout are enough for a timer set late, twice, or from an old clock. In `init`
an entry leaves and comes back while its command runs.
The runs of the pool, the window, the filter, the searches, xargs and the
transactions check deadlock: those specifications stutter only where the program
has ended. In `signal_traps`, `init`, `rg_capture` and `timeout` the program may
really stop (nobody sends a signal, the shell has exited, all files are searched,
all bounded signals are used up), and deadlock is not checked.

Fairness. A thread that is not blocked runs on (`WF` of the steps of a thread,
which is what the POSIX scheduler gives every thread), callbacks return, a walk
of a finite tree ends, a file search ends. Nothing is assumed of: spurious
wakeups, failures, cancellation by others, the client's next call. A thread in
pthread_cond_wait has no step, so fairness does not wake it: a wakeup that is
lost is a violation of liveness. No strong fairness is used; that a given
thread wins a given lock is never needed. In `xargs` a command ends, because the
promise there is conditional on it; in `rg_capture` it ends unless it waits for its
reader; in `init` one that is waited for ends, others need not. In `timeout` it
never has to: only timeout runs and time passes. In `signal_traps` the shell
and the delivery of unblocked signals are fair, not their sending.

What the properties say of the hazards, briefly:

* `NoLostWakeup`: while a worker sleeps, as many workers are awake as jobs
  are queued, which is why submit may leave a long queue unsignalled; and the
  producer sleeps only while the ring is full, although a take signals only a
  ring that was full. The second part rests on the single producer: another
  one could lose its wakeup, and the model has one because both clients do.
* `JoinOkMeansDrained`: a cancelled pool is still drained by its workers;
  the clients rely on it to settle every job.
* `SubmitNeverBlocks`: the gzip thread that publishes never sleeps in submit,
  because the queue has the length of the window. Cancellation does not wake
  the pool there, and this is why it need not.
* `CountersAgree`, `SleepAndShutdown`: the counters of the scheduler describe
  what workers do although an item is in no slot between its removal and its
  claim; nobody sleeps, or stops the others, while there is work for him.
* `SuccessIsComplete` (three modules): no error status, no loss.
* `TableOK`: rows and slots are those of the children that run, whoever is
  reaped and in which order.
* `TableUse`: xargs keeps the rules of the table, the limit on rows included,
  and in batch mode starts nothing once it decided to abort.
* `FramesSpec`: whatever step fails, a script that is left by its redirections
  sees the descriptors it had, those it kept excepted.
* `StackInvariants`: no backup is a target, no two share a descriptor, however
  often they were moved.
* `TrappedSignalsKept`: a trapped signal is pending, recorded or in the hand of
  the shell until its action starts, through masks that fail to change.
* `WaitEnds`: neither a signal nor the end of the child is missed between the
  test and the sleep.
* `OneProcess`, `RespawnKept`: the two sides of an init entry. The first holds
  until the pid of another process is read for a command, the second until a
  SIGTSTP or a failed fork (see the divergences). Three entries are too few for
  the wrong pid to be one of a process, so the run shows the first without its
  premise; that it needs one came out of the attempt to prove it for any number.
* `ReloadStopsRemoved`: a pid kept for an entry is still that entry's process when
  a reload sends it SIGTERM.
* `OwnStatusAlone`: with one worker no status of a command that an earlier failed
  capture left behind is taken for that of the next.
* `GraceKept`, `Escalates`: SIGKILL comes, and not before its time, whatever
  signals and deadline did before.

One exception was met and is stated in the property. In `RgSched` a worker that
gets no memory for its state leaves without recording an error
(`rg_sched.c:1174`). If that happens to all of them nothing is searched and the
status is that of "no match". `SuccessIsComplete` is therefore stated for runs
that some worker shut down. `RgParallel` needs no such condition: there the
pool fails and the join says so.

## 4. What is proved

Each theorem holds for every value of the module's constants, from the module's
named assumption alone unless a hypothesis is written in the theorem. The
invariants below were first checked with TLC on the instances of the runs, then
proved inductive.

| Module | Theorems that state a property of a run | Others |
|---|---|---|
| `WorkPoolProofs` | `SingleOwner`, `NoLostWakeup`, `JoinOkMeansDrained`, `QuiescentReclaim`, `FifoOrder` | `TypeOK`, `RingConsistent`, `CancelPhasesInOrder`, `JobsNeverReturn` |
| `OrderedPublicationProofs` | `SleepsForAWorker`, `DisposedIsDead`, `ChannelSpec` (the window implements `OrderedChannel`) | `TypeOK`, `WindowBounded`, `PublishedInOrder` |
| `GzipStreamProofs` | `OutputIsFaithful`, `ChunkLifetime`, `SubmitNeverBlocks`, `PartsUse` (the filter implements pool and window) | `StreamInv` |
| `RgSchedProofs` | `CountersAgree`, `SleepAndShutdown`, `WalkedOnce`, `SuccessIsComplete` | `SchedInv` |
| `XargsRunProofs` | `SuccessIsComplete`, `TableOK`, `TableUse` (xargs implements the table) | `RunInv`; `TableOK` for every client of `ChildRunner` |
| | `GraceKept` of timeout | `GraceInv` |
| `ShellProofs` | `TrappedSignalsKept` | `SignalInv`, `NoMissedWakeup` |
| | `StackInvariants`, `FramesSpec` (descriptor transactions implement `DescriptorFrames`) | `FdInv` |
| `InitSupervisorProofs` | `OneProcess`, `ReloadStopsRemoved` | `InitInv` |
| `RgParallelProofs` | `SuccessIsComplete`, `BatchLifetime`, `PoolUse` (the parallel search implements the pool), `OwnStatusAlone` | `SearchInv`, `CaptureInv` |

### Assumptions

`PoolAssumption`, `SearchAssumption`, `WindowAssumption`, `StreamAssumption`,
`SignalAssumption`, `TimeoutAssumption` and `XargsAssumption` give sizes their
range (a pool has a thread and a slot, a window a place); the code checks or
clamps them before anything is started. `CaptureAssumption`, `FdAssumption` and
`InitAssumption` also keep files, entries and pids apart from the values that
stand for "none", as a valid pid is from 0 and -1. `ForestAssumption` says that
the items are a finite forest: what is below two siblings, or two roots, is
disjoint, and what is below a child does not include its parent. That is a
directory tree that nobody moves directories around in while it is searched and
whose symbolic links are not followed. The theorems about the child table and
xargs suppose `~AutoReap`: with SIGCHLD ignored at exec the kernel reaps by
itself, rows outlive their children, and `TableOK` is false. This and inherited
children are the two ways the process that calls xargs can disturb the table;
the second one is allowed by the proof.

### Pool

The inductive invariant is `PoolInv == TypeOK /\ ControlInv /\ JobsInv`.
`ControlInv` is about program counters: a worker runs a job iff it holds one,
no worker lives once the owner is past the join, a pool is joined only when
every started worker has left, a worker leaves only an empty closed queue.
`JobsInv` adds to `RingConsistent` and `SingleOwner` that the ghost `place`
agrees with `next` and that the ring holds jobs in submission order
(`RingSorted`); without it neither order nor single ownership is preserved by
a take at the wrap. Owner steps and worker steps are separate lemmas, and
steps that leave the ring alone share one frame lemma (`JobsFrame`).
`WaitersCovered` needs an argument of its own by cardinality: a submit that
does not signal leaves more queued jobs than threads, so nobody sleeps; a take
removes a job and leaves its worker awake. `CancelInv` orders
the cancellation phases by implication (DRAINING implies OBSERVED, OBSERVED
implies a request) and adds that JOINED or PUBLISHED is set only once the join
has returned or the pool was disposed.

### Window

`WindowInv` has three parts. `Numbers`: the packets away
or pending are exactly those between the next number to publish and the last
handed over, except a number whose slot was released. `Accounting`: inflight
is the length of that interval, plus the packet in the callback, minus a
released number. `Progress`: what is in the callback, what was accepted and
what was disposed of, in terms of the two numbers. The refinement maps `sent`
to the number reserved and `delivered` to `out`; every step but a reservation
and an accepted publication is a stutter.

### gzip

The prover cannot cite a theorem of a module through INSTANCE with substituted
constants, so the theorems on pool and window are not inherited: `StreamInv`
proves what the filter needs of its two parts again, for the composition, and
more. The parts must agree: `Queue` gives the contents of every slot of the ring
as a function of the last number handed over (chunk s is job s + 1), and `Hands`
says that what the window has given away is in the ring or in a worker's hand.
From these and the window's accounting it follows that the ring is never full
when a number is reserved (`SubmitNeverBlocks`): each queued chunk is in flight,
and the one reserved is too. `Freed` counts the frees of every chunk as a function
of the two sequence numbers; it covers the ways out after a failed allocation,
thread, compression or write. `PartsUse` shows step by step that what the main
thread and the workers do is a step of the library's module or a stutter.

### Subtree scheduler

A lock protects the counters and another each worker's list, so an item is for a
moment in neither a list nor a walk. `Holders` says who has an unvisited item: a
worker that has taken an item at or above it, or a list in which such an item is
queued, and never two of them. `WalkedOnce` follows, whatever is donated or
stolen. `NothingLost` is the other half: until something fails every unvisited
item has a holder. `CountersAgree` then ties `pending_work` to the number of held
items and the two other counters to the program counters, which is what makes the
tests before sleep and shutdown right. The proof that a take keeps `Holders` is by
positions: a list loses its first or its last entry, and the others move by at
most one. Seeding deals the roots out by `i % NumThreads`; that no two roots land
on the same place is the lemma about `\div` and `%`.

### Parallel search

`SearchInv` contains the pool's invariant, proved again for the composition
(without the order of the queue and the waits, which the search does not need). To that it
adds three views of a file. `Batches`: the pending batch and the submitted ones
are disjoint, and what the walk has not met is in none; there are never more batches
than files (`RoomInv`), so a batch always has a job. `SearchedOnce`: a file that was
searched is in a batch that a worker has or had, and what a worker has left is not
searched yet. `NothingLost`: until something fails (`Trouble`) every file that was met is
pending, queued, with its worker or searched, and the join returns with nothing in
between. The last step is that trouble is never forgotten. That is where the places
that can fail meet: a request of cancellation comes with a fatal error
(`CancelInv`), the failure flag of the pool is turned into one before the pool is
disposed (`Told`), and after the join no worker can raise another. `FreedInv` gives
the number of frees of a batch by where its job is. With it `BatchLifetime` covers the
refused submit, the failed set-up of the pool and the jobs that dispose reclaims.
`PoolUse` needs no invariant: each action contains the pool's.

### Child table and xargs

`TableInv` says that rows and unreaped children are the same, slots are below the
capacity and distinct, and a row is dropped by moving the last one over it;
`TableStaysExact` states it for `ChildRunner` itself, whose `Next` lets the client
call anything at any time. `RunInv` adds where every item that was read is as long as nothing
has gone wrong that the value returned will show (`NothingDropped`): settled, in the batch,
given to a command with a row, or in the hand of the main thread. `Aborting` is
needed because the sink goes on after some failures: whatever stops the launching
has already made the value nonzero.

### Signals, init, commands of rg

`SignalInv` relates three views of each signal: the kernel's disposition, the
recorder's, and the shell's table of traps. `CallRemembers` is what a call to
`bx_signal_pending_set` keeps for the case that it fails half way; without it the
invariant does not survive the restore. An owed signal is pending in the kernel,
flagged, or in the hand of the take that is about to return it.

`InitInv` follows a pid from `fork` to the entry: through the row that was added
last, the value read back from it, and the assignment (`Remembered`). The
theorem on `OneProcess` holds unless that last row was another process's, which the
ghost `misread` records (see the divergences in section 3). `Undisturbed` is the
stronger statement for runs without a failed fork and without SIGTSTP.

`CaptureInv` shows for a lone worker that every way out of `bx_rg_run_capture`
leaves the process without a child, so that `waitpid(-1)` can only return the
command of the file. With two workers this is false, as `rg_capture_parallel` shows.

### Timeout

`GraceInv` holds the timer of SIGKILL against the time since it was first armed:
their sum never falls below `kill_after`. A later signal that arms it again only
sets it back.

### Descriptor transactions

`FdInv` is the assertion of the code and what it rests on: the entries of a
transaction follow those of the transactions around it (`Nested`), every entry has
an owner that declared its target (`Owned`), and an owner saved each target once.
The hard part is the loop that moves backups. `MoveAllRounds` says that the
recursive function has a value and that it is the one after a round for each
entry; the proof takes the least depth without one. `Relocated` is the
invariant of the loop: the entries say the same, only the numbers of their
backups differ, and the script sees the same table; if the loop came to its end
none is in the way. So a failed begin, which leaves the backups it has moved,
is a stutter too. For the refinement `RememberedIs` ties what a frame
of `DescriptorFrames` knows to the one entry there is for it, and
`OthersSeen` says that a descriptor freed by the end of a transaction was
never seen.

### Model-checked only

* Liveness (`CallReturns`, `FilterEnds`, `RunEnds`, `SearchEnds`, `WaitEnds`,
  `RespawnKept`, `CaptureEnds`, `Escalates`): the prover has no rule for fairness.

Every invariant and every action property that a run checks is a theorem, and so
are the refinements `ChannelSpec` and `FramesSpec`.

## 5. What is not modelled

* More than one thread that submits to a pool: no client does.
* Ordered record publication with its sink: no caller selects it.
* What a file search finds, ignore rules, output format, sorting,
  compression, memory sizes: choices or nothing.
* Failure of pthread_mutex_lock, of pthread_join and of initialising locks.
* Profiling counters and debug output.
* The set-up of a child between fork and exec: a spawn succeeds, cannot execute,
  or fails. Stopped children. fd, find and the other callers of the child table. (fd
  takes one `bx_child_reap` to empty its table of one row, `fd_exec.c:349`, which an
  inherited child defeats.)
* In the traps: the copy of an action that fails (the shell then exits), traps
  of signals that were ignored at the start, the destruction of the recorder.
* In init: SIGQUIT (re-execution), the child that sends SIGKILL after a delay,
  shutdown, and the moment between fork and the row it adds.
* In timeout: endless streams of signals, wording, the status that is returned.
* All components with status `not_modelled` in PROJECT.json, for the reasons
  given there.

## 6. Plan

Written in this order, most important behaviour first: 1. `WorkPool`,
2. `OrderedPublication` and `OrderedChannel`, 3. proofs of both,
4. `GzipStream`, 5. `RgSched`, 6. `RgParallel`, 7. `ChildRunner` with `XargsRun`,
8. `FdTransaction` and `DescriptorFrames`, 9. `SignalPending`,
10. `InitSupervisor`, 11. `RgCapture`, 12. `TimeoutMonitor`, and the proofs about
4 to 12. These are done. Next:

13. `OutputSink`, once a caller selects the ordered mode: in order, skipped
    numbers, the budget; whether a producer of the next number can be shut out
    by later ones. Abstract specification: `OrderedChannel` with skipped numbers.
