# LuKOS, specified in TLA+

LuKOS is a small AArch64 microkernel: four CPUs of QEMU's `virt` board run one
kernel that schedules threads, passes messages through pipes and hands memory,
devices and interrupts to applications. This directory models the part of it
that several CPUs execute at once, checks it with TLC and proves its central
invariants with TLAPS. Paths below are relative to `src/implementation/src/`
unless they start with `design/`.

## The system

| Part | State it keeps | Operations | Hard because |
|---|---|---|---|
| IPC manager, `kernel/src/managers/ipc-manager.c` | per pipe: ring of slots, head, tail, two wait lists, a lock; per thread `blocked_by` | write, read, notify; create, look up | every CPU may be in a call on one pipe; a call may block and be retried |
| Process manager, `kernel/src/managers/process-manager.c` | process and thread lists, flags RUNNING and READY, `sleep_ticks`, the current thread of each CPU | pick the next thread, create a thread | CPUs walk the lists while others block, wake and create threads |
| Context switch, `arch/aarch64/src/scheduling/scheduling.c` | each thread's stack pointer | timer interrupt, switch | a thread moves between CPUs through its saved stack pointer |
| System calls, `arch/aarch64/src/exceptions/{exceptions.c,stubs.S}`, `kernel/src/userspace/*.c` | the frame on the caller's stack | one case per call | results are written to memory the thread may already have left |
| Spinlock, `arch/aarch64/src/os/atomic.S` | a word, exclusive reservations, event registers | acquire, release | all of the above rests on it |
| Virtual memory, `vmm_arch.c`, `mmu.c`, `page-pool.c` | translation tables, regions, free pages | find a range, map, translate, allocate | the range is found under one holding of the lock and mapped under another |
| Heap, `kernel/src/libraries/mem/*.c` | block lists | malloc, free, compaction | free takes no lock |
| Interrupts, `interrupt-manager.c`, `intm_arch.c`, `gicv2.c` | registrations, handler stacks | attach, enter, complete | a user handler runs on a thread's CPU in between |
| Boot, `arch/aarch64/src/init`, `platform/` | | release of the secondary CPUs | runs once |
| Applications: I/O server (102), terminal server (103), libc glue | pipes by name, buffers, the attached application | character flow, registration, attach | two threads share `MUX` and `CLI_MODE` without a lock |

They interact as follows. A timer interrupt or a blocking, sleeping or yielding
call enters the context switch, which asks the process manager for the next
thread. A pipe call sets the caller's `blocked_by`; the process manager passes
over blocked threads; the call of another thread clears it. An interrupt that
an application attached to puts the thread of its CPU aside and runs the routine
there. The applications on top (I/O server, terminal server and those that
print and read through it) see only pipes. There is no message
passing between CPUs: they share memory, each critical section has a spinlock,
and exceptions run with interrupts masked. Nothing is persistent and nothing
times out, so crash recovery does not arise; messages get lost in two places only,
where a pipe purges and where a writer ignores that a pipe was full.

`PROJECT.json` lists every component, modelled or not, and the hazards at their
lines.

## The modules

| Module | Models | Composed of |
|---|---|---|
| `Mutex` | what a lock promises | |
| `Spinlock` | `atomic32_spinlock_acquire`/`_release`, one action per instruction | implements `Mutex` |
| `PipeChannel` | what a pipe promises: a bounded queue of whole messages, and who is woken | |
| `IpcManager` | `ipcm_pipe_write`, `ipcm_pipe_read`, `rw_list_notify`, statement by statement | implements `PipeChannel` |
| `Directory` | what names promise: an id for one pipe, a name for one pipe for good | |
| `PipeRegistry` | `ipcm_pipe_create` with its two critical sections, the lookups by name and by id | extends `IpcManager`, whose `Spec` it implements; implements `Directory` |
| `ProcessManager` | `pm_thread_next_get`, `process_scheduler_run`, `pm_thread_create`, sleeping, and the switch around them | |
| `Kernel` | the system call handler: `IpcManager` and `ProcessManager` in one state, and the frames results travel in | implements both |
| `Interrupts` | `intm_interrupt_attach`, `aarch64_intm_handler`, the completing call | extends `Kernel`; what it does with threads is what `ProcessManager` says |
| `AddressSpace` | `vmm_arch_get_free_va_range`, `vmm_arch_alloc_map`, `aarch64_mmu_map_*`, `aarch64_mmu_v2p`, `page_pool_alloc` and the check of device requests | stands alone |
| `Allocator` | what a heap promises: disjoint pieces of its memory, of the size asked for | |
| `Heap` | `memlib_impl_basic_malloc`, `_free`, compaction | implements `Allocator` |
| `Console` | the I/O server, the terminal server's three threads and the applications they serve | over queues that do what `PipeChannel` says |
| `SpinlockProofs`, `IpcManagerProofs`, `RegistryProofs`, `ProcessManagerProofs`, `KernelProofs`, `HeapProofs`, `AddressSpaceProofs`, `ConsoleProofs` | theorems about the module of that name (`RegistryProofs` about `PipeRegistry`, `KernelProofs` about `Kernel` and `Interrupts`) | extend their module; `KernelProofs` instantiates `IpcManagerProofs` and `ProcessManagerProofs`, `RegistryProofs` extends the former |
| `MCIpcManager`, `MCPipeRegistry`, `MCProcessManager`, `MCKernel`, `MCInterrupts`, `MCAddressSpace`, `MCHeap`, `MCConsole` | constants for TLC | |

**State.** `IpcManager` keeps the ring as `slot`, `head` and `tail`, the lists as
sequences `readers` and `writers`, a pipe's lock as the thread that holds it, and
a program counter `pc` per call; its pipes exist from the start. `PipeRegistry` adds `PIPE_LIST`, `PIPE_ID`, the
pipe a thread is about to append and the id it found last, and lets a thread use only that.
`ProcessManager` keeps `CURRENT_THREAD` as
`current`, the flags as sets `running` and `ready`, and each CPU's place in the
walk as `proc`, `idx`, `best`, `pick`. What a stack pointer denotes is modelled
as the thread whose latest context lies there: `stack[t]` (memory) and `sp0[c]`
(the register). `Kernel` adds `frame[t]`, the X0 in the frame on t's stack, `x0[t]`, the
register as t sees it, and `due[t]`, a history variable: what t should find there.
`Interrupts` adds which process each CPU's interrupt is attached by (`registered`), what lies where the
routine's first frame was laid down (`laid`: that frame, another context of the routine of the same size, or
something else), what a CPU does about an interrupt (`serving`), how many contexts of the kernel itself lie
above a thread's own (`nested`), and whose context has been lost to a second interrupt (`astray`). For a thread
that is astray, `stack` and `sp0` go on saying what the scheduler takes its stack pointer for.

`AddressSpace` keeps the tables of a process as functions (`l1`, `l2`, `l3`) whose domains are
the entries that are not 0, addresses in pages of 4 KB, and the pools as their next
page. A frame is identified by its number, so tables, images and pages taken from one
pool can be told apart by nothing else, as in the machine. `devices` is a history variable: the entries
that device calls have made.

`Heap` keeps each region's list as the sequence of its markers' addresses (`blocks`), with the
sizes and USED bits of markers in functions of the address, and the locals of each call in
`my`. `granted`, `room` and `loose` are history variables: what the callers own, as the abstract `Allocator` has
it; the bytes each block really has before the next one; and whether a block has been freed whose
recorded size is not that, because compaction computed it from a null pointer.

`Console` keeps a key as its position in what is typed and an output as its number, so that loss,
repetition and order show. `MUX_LIST` are the records linked so far and `filled` those that a search by name finds: filled in,
and under the name the application sent. `listen` knows whose request is served, whether its name was read as it was
sent, and where the buffer for names holds a 0 (`zeros`), which at the start is wherever the stack happened to have one.

**Grain.** One action is one statement that another CPU could observe. A statement
that is alone under a lock of its own (`THREAD_LOCK`, the wait list's lock, the
lookup of a pipe by id) is one action; the critical sections of the pipe and of the process
list are several, so that exclusion is something to show. In `AddressSpace` taking a page,
making a table and entering the page are steps of their own: the table is locked, but the
pools are shared with other processes. In `Heap` each block malloc looks at is a step, and
free is two, a read of the marker's word and a write, since it takes no lock. In `Console` a
pipe call is one step (`IpcManager` is where its statements are checked) and the threads' reads of
`MUX` and `CLI_MODE` between calls are steps. `PROCESS_LOCK` is the guard of `ThreadCreate`.

**Data.** A message is a body and a length; copying the body and publishing length
and index are separate steps, so a torn read would show as a mismatched pair.
X0 is a result code, `"ARG"` (a new thread's argument) or `"CALL"` (the call
number). The argument of a sleep is multiplied by the number of CPUs as in
`schedule.c`. A new thread's `sleep_ticks` is any member of `Garbage`, because
`pm_thread_create` leaves what the heap held. A heap size is taken modulo `SizeModulus`,
the 31 bits beside the USED flag. In `Console` an application's name stands for the line "attach
name"; of the bytes of a name only where the request buffer has zeros behind them matters (`Length`, `Misread`), and no
application's name is what a misreading of another's makes; a command line travels in one message and what the command line
answers to a line is one message; the field `next` of a new list record, which the code does not
set, reads as zero, as it does in heap memory that was not used before. Stores become visible in
program order.

**Slips.** Operators marked `Slip` are variants of an action or helper with a
plausible mistake in it. They are not part of any specification: each is what a
property was tried against, to see that it fails when the code goes wrong that way
(`mutants` in `PROJECT.json`).

## What is checked

| Run | Instance | Shows |
|---|---|---|
| `ipc_queue` | 3 threads, a pipe of 3 slots that blocks or one that purges, 2 messages | exclusion (`LockHeld`), no missed wakeup (`NoLostWakeup`), `blocked_by` and the lists agree (`BlockedIffWaiting`), the pipe is a channel (`ImplementsChannel`) that purges the oldest message and only when full |
| `pipes` | 2 threads create, find and use 2 pipes of depth 1 under 2 names, a purging and a plain one, also with a message too long, an empty one and no pipe | names and ids (`ImplementsDirectory`); full and empty told from the slot's length (`ImplementsChannel`); under fairness locks are released (`LockReleased`) and waiters woken (`WaitersWoken`) |
| `pm` | 2 CPUs, 2 application threads (one created at run time, in recycled memory), 2 idle threads | `ExclusiveExecution`, `ContextFresh`, `RunnersEligible`, `NeverNull`, `PicksMostUrgent`; under `FairSpec` `SleepersWake`, `MostUrgentRuns` |
| `kernel_pipes` | 2 CPUs, a writer and a reader of a one-message ring | the composition refines the pipes, `ResultDelivered`, `ExecutingWaitsNowhere`, and under fairness `ReadersServed` |
| `interrupts` | 2 CPUs, a thread that attaches and writes, one pinned to its CPU that yields and creates a more urgent third; interrupts in threads, in routines and in the window of `INTERRUPT_COMPLETE` | `ResultSurvives` for every steady thread but those astray, `StoppedHoldsNoLock`, and `DecidesAsProcessManager`: the harm of those two windows stays where it is done |
| `spinlock` | 3 CPUs | `MutualExclusion`, `NoSleepAtFreeLock`, `FreeLockTaken`, `ImplementsMutex` |
| `memory` | 2 threads of one process, 1 of another; a 2 MB page of 2 small ones, 3 small and 2 large pages in the pools; two threads also ask for devices | `FramesExclusive`, `RestrictedUnmapped`, `RegionsDisjoint`, `RegionBacked`, `MappingsStay` |
| `heap` | 2 CPUs, a region of 4 small blocks, or a large and 2 small ones, and one of a single block; a small and a large request | `BlocksTile`, `FoundIsNobodys`, `NullOnlyWhenFull`, `MallocReturns`, `AllocatorUntilLoose` |
| `console` | 2 applications, one with a shorter name, 3 typed sessions, pipes of one message | `OutputConserved`, `KeysInOrder`, and under fairness `Registered` |
| `kernel_yield`, `memory_mixed`, `heap_compaction` | | disagreements, below |

**Bounds and why they suffice.** A ring of three slots holds two messages, the least
with an order to get wrong, and its indices wrap in every cycle. Depth 1 is a case
of its own in the macros, and the one libc's mutex uses; `pipes` has it, for two pipes that both threads may make under one name. Three threads give two waiters on
one list and one that wakes them; notification walks the list from its far end, so
a second waiter is what shows a mistake there. A behaviour of `ipc_queue` uses one of the two
pipes (`OnePipeSpec`): pipes share nothing but the threads, and a thread is in one call.
Two CPUs suffice for every pair of
walk and call; a third adds only more of the same spinning at the list's lock, and
the lock itself is checked with three. In `pm` each application thread may run on either CPU and
an idle thread of each is ready, so somebody always waits for a CPU; a new thread's sleep count
is that of a sleep in progress or 0. In `kernel_pipes` the ring has room for one message, so the
writer blocks as often as the reader. `interrupts` has one interrupt number (each has its own
registration and stack), a purging pipe of one message (so that writes lock and notify but the threads stay at
work), and `MaxNested`, one context of the kernel above a thread's own; its routine makes no call but the last:
another call would be one of a thread of no process. Four things are coarser there than in the code. A context of the
kernel that is popped goes on or ends the CPU, as a choice (`PopKernel`); popping what is no
context at all always ends it; a thread astray does anything with the routine's stack (`Trample`, `Derail`); and
translations change when `ttbr0_el1` is written, no TLB is modelled. In `memory` a large page
counts two small ones and an L1 entry spans two large ones, so a call of either size crosses
from table to table; the pools run dry in the middle of calls, of tables as of pages; the
two threads of one process find the same range in both orders, alike and mixed. The pools bound the state, there is no other limit. Requests stay below 1 GB: the code has no pages of that size to give
(`vmm_arch.c:160`) and maps them for devices only (`mmu.c:270`). Empty requests (on which the code
reads before an array), unaligned device addresses (on which it stops) and ranges whose end wraps
are outside the constants' assumption, too.
In `heap` addresses and sizes count units of four bytes and a size rounds up by one, which makes
compaction undercount a run as in the code; the large request fits a run of small blocks, room
at the end or nothing, as the region fills; the small second region is where the search goes on.
When a block with too large a size has been handed out for more than it has room for, its owner would
write over the markers behind it; markers are not modelled at that grain, so no call starts from there (`Overrun`).
In `console` the sessions attach to one application and then the other, spoil a command, and detach
twice; a message holds two keys, so a command may follow another key or precede one in it; each
pipe is full after one message, so every write meets a full pipe. An application prints once.
The bounds in guards are `Session` and `MaxPrints` of `Console`, `Overrun` of `Heap`, `MaxNested` of `Interrupts`, and in `Kernel`'s `EnterOther`:
threads of `Thread` run out, so a create call is made only while one is left.

**Symmetry** over threads is used in `ipc_queue`, whose threads
are interchangeable, and nowhere else (priorities and affinities tell threads apart,
and it is unsound for liveness). **Deadlock** is checked in `pm` and the runs of `Kernel`, where idle
threads make the kernel live for ever. Elsewhere the system may really stop: in `IpcManager` and `PipeRegistry` all threads may wait for messages
nobody writes, in `Spinlock` no CPU need want the lock, in `AddressSpace` every thread may end in a `while(1)`,
in `Interrupts` every CPU may halt, in `Heap` nobody has to call, in `Console` nobody has to type.

**Fairness.** In `PipeRegistry`, a call that has started goes on (interrupts are masked), but
no fairness is given to the start of a call. `ProcessManager` assumes that timers tick,
strongly: a tick that falls into a call is taken on return. In `Kernel`, a step that is
possible over and over is taken (strong fairness per CPU and, for
calls, per thread): spinlocks are held for moments between two ticks, and a thread that
is given the CPU again and again reaches its next call. In `Heap` a malloc that has the lock goes on, weakly. In `Console` every
thread of the servers and of a starting application runs again and again, which `MostUrgentRuns`
and the equal priorities make plausible but do not imply; nobody has to type or print.
`Spinlock` assumes weak fairness
of each CPU, and that in the long run nothing but stores takes reservations
away, which the architecture promises for short loops. It does not assume
that a given CPU wins: the lock is not fair, and `FreeLockTaken` says only that somebody gets it.

### Disagreements between code and documentation

* `kernel_yield` (`EveryResultDelivered`): the yield case switches first and writes its result afterwards. By
  then the thread may run on another CPU with the call number in X0. The other
  blocking calls write first. A thread that never yields, or has one CPU to run on, is not affected
  by the late writes of others: that is `ResultDelivered`, of `Steady` threads, in `kernel_pipes`.
* `memory_mixed`: a request for 2 MB and a bit ends in `while(1)` with the table locked. The search
  looks at the small pages first and at one address per large page, the mapping starts with
  the large pages: the range found after the image begins under the image's L3 table, where no
  block can be entered. The header promises 0 or an error.
* `heap_compaction`: a run of free blocks that ends with the list is merged into a block whose size is
  computed from `end`, which is NULL then. Later it is handed out for more than is behind it.
  `memlib.h` promises a block of the size asked for.

Met while modelling, without a run of their own:

* A pipe created for N > 1 messages blocks its writer at N-1 (`PIPE_IS_FULL` leaves one slot
  unused), while `ipc-manager.h:59` calls the parameter the maximum number of messages
  to queue. `PipeChannel` takes N-1 as the capacity.
* `pm_thread_create` does not initialise `sleep_ticks` (`process-manager.c:122`), so a thread created
  in recycled heap memory may sleep first; the header (`:111`) says it is schedulable at once.
* `SYSCALL_IPC_PIPE_ID_GET` reads `pipe->id` before it tests the pipe, so a query that finds nothing hands out what lies
  near address 0 (`PipeIdGet`). Two creations of one name both succeed, and the second pipe is never found by its name.
* The frame an interrupt routine starts from is written once, at the attach, and lies where the routine's own stack
  grows; it is popped under the tables of the process that was interrupted. Whatever a routine and its last call have
  left there is what the next interrupt pops. A CPU that pops anything else takes an abort, which the
  kernel answers with an endless loop (`Halt`); so a CPU whose idle thread is
  interrupted stops. `interrupt-manager.h:42` and `interfaces/userspace/interrupt.h:9-17` promise a
  call per interrupt. `StoppedHoldsNoLock` says that the others go on.
* The routine runs with interrupts open (`intm_arch.c:41`). A second one stores the routine's stack pointer as that of
  the thread put aside (`intm_arch.c:74`), so that thread's context is lost (`astray`): picked again, it goes on as the
  routine. If the routine had pushed nothing, it goes on or starts again (`InterruptAgain`). "This works like a
  context switch" (`intm_arch.c:60`) holds of the scheduler's state (`DecidesAsProcessManager`), not of that thread.
* `INTERRUPT_COMPLETE` opens interrupts (`exceptions.c:123`) when the next thread's stack is loaded and the kernel
  still runs on it. An interrupt there saves the kernel's context as that thread's; another CPU may resume it, on a stack
  of the first one. `OpenWindow` to `ResumeKernelAfterYield` are that window. `interrupt.h` asks for the call so that
  "normal scheduling should be resumed".
* `platform_data.c:74` fills `restricted_ranges` and leaves `num_restricted_ranges` 0, so the comparison
  in `device.c` never runs on this platform, and a device may be mapped onto RAM that somebody uses. `Zones` stands for
  the ranges that are counted, and `RestrictedUnmapped` speaks of those; in `memory` one frame is counted and a device is
  mapped onto the pool. `FramesExclusive` is about memory against memory and tables, and needs no zone.
* Two small requests of one process may find the same range; the second to map it stops in
  `while(1)` (`Taken`), which is why `memory` has states without a successor. A large and a small
  request may even return overlapping ranges (`MapThroughNull`).
* A request of 1 GB or more returns OK with the 1 GB part not mapped (the loop is commented out, `vmm_arch.c:160-171`), and the
  search probes the range for small and 2 MB pages only. Device requests of that size do reach `mmu.c:270-278`.
* When nothing fits, malloc marks a null block used before it returns NULL: a write to address 0.
* Applications are linked at address 0 (`app.ld:17`), so the terminal server's null pointers read its own code. `attach_N` compares with a
  record that is linked and not yet filled in, and does not find it. When `MUX` is cleared between the aux thread's test and
  its read, the read names a pipe that does not exist, the loop at line 199 ends, and line 200 writes what was read last
  once more: a message is shown twice (`AuxWriteAgain`). `OutputConserved` says that this takes a second attach in the session.
* The listen thread reads names into one buffer that it neither clears nor terminates (`terminal-server.c:153`). A name shorter
  than the previous one is read with that one's tail: its pipes get the wrong names, no reply pipe is found, and
  `SYSCALL_IPC_PIPE_ID_GET` overwrites `reply_channel` with what lies near address 0 (`exceptions.c:164-165`), so the answer is
  lost and the application waits in `libc_init` for ever. `Registered` is of the names for which this cannot happen.
* After attaching to another application its output is not shown until
  the previous one prints. Keys that came behind an attach command in one message are executed as
  command line after the detach. A typed line is lost when "stdin" is full, an ETX with it.

## What is proved

Every safety property that a passing run checks, action properties and refinements included, is also a
theorem: for every value of the constants that satisfies the module's named assumption, which TLC evaluates
in the runs. One theorem has a hypothesis more, `RegionsFit` of the heap, which is a fact of the board.

**`SpinlockProofs`**, for every set of CPUs: type correctness, `MutualExclusion`,
`NoSleepAtFreeLock`, and that the loop implements `Mutex`. Exclusion alone is not
inductive. The invariant adds that a CPU which has read 0 and still holds its
reservation sees a free lock (a store would have cleared the reservation), which
is why a store-exclusive that succeeds finds the lock free; and, for the sleeping
CPUs, that one waiting in `wfe` on a free lock has its event pending or is about to
get it, since the holder's release clears its reservation.

**`IpcManagerProofs`**, for any pipes, depths, message sizes, threads and purging flags:
type correctness, `LockHeld`, `NoLostWakeup`, `BlockedIffWaiting`, and that the pipes implement `PipeChannel`. The invariant has these
parts:

* `LockInv` is exclusion together with "a lock that is held is held by a call that is inside".
* `WaitInv` says what the lists may contain while a call is at each
  label: between the transfer and the end of the notification, waiting threads are
  allowed on a pipe they should not wait for, and only then.
* `PlaceInv` says that a thread has at most one place on
  all lists together; that a thread with a place is either outside a call, or returning blocked, with `blocked_by` naming
  the pipe, or at the end of the call that put it there; and that `blocked_by` is set only for a thread
  with a place. The notification removes the one place and clears the one field; that no other CPU
  comes between the two writes of a blocking call is what `LockInv` is needed for.
* `CarryInv` says what a call carries from one statement to the next: a writer past its check has found room (or a
  ring of one slot), the slot it commits has its message's body, a reader that advances has copied the slot at the tail. None
  would hold if another call could move `head` or `tail` in between.
* `QueueInv` says that the slots from tail to head, with depth 1 as a case of its own, are whole messages.

The refinement maps the ring to its contents; the lemmas about the ring say that a commit appends to
them, an advance takes their head, a purge drops their oldest, and that full and empty mean the contents' length,
for a ring of any depth with indices that wrap. From them every step of a call is a step of the channel
or none. Assumed are depths and sizes that are positive, messages that are a body with a length, and that `None`
is no thread, pipe, message or entry of `blocked_by`.

**`RegistryProofs`** proves that `PipeRegistry` implements `IpcManager`'s `Spec`, so that all of the above
holds of pipes created at run time, the channel included, and that it implements `Directory`. `IdInv` says that an id belongs to
one pipe, listed or in the hands of a thread that is about to append it, and is below `PIPE_ID`; a name means the first
pipe of that name in the list, which stays the first because pipes are appended and none is removed.

**`ProcessManagerProofs`**, for any CPUs, processes, threads, priorities and affinities: type
correctness, `ExclusiveExecution`, `ContextFresh`, `RunnersEligible`,
`RunningIsCurrent`, `NeverNull` and `PicksMostUrgent`. None of them is inductive alone. `LockInv` makes the walk a critical
section, `RunningInv` ties the RUNNING flags to the CPUs outside it, so a thread that
the walk finds not running is the current thread of no other CPU. `ChoiceInv` bridges
the steps between the moment a thread is found fit and the moment it is taken: what other CPUs do
meanwhile cannot make it unfit, because only a running thread blocks itself or goes
to sleep. `ContextInv` says where each thread's latest context lies: in the registers of
the one CPU that executes it, or where its `stack_pointer` points.

For the last two, `BootInv`: a thread list only grows at its end, so the threads of boot stay where
the walk meets them. `IdleInv`: an idle thread never waits or sleeps, and one that may run on a single
CPU is always ready when that CPU walks, because no other CPU can have it. `ScanInv`: what the walk has at any
point is at least as urgent as every thread that it has visited and that is ready now; a boot thread that
became ready behind the walk would break this, and cannot: READY changes only for the thread a walk visits, and the list's lock
lets one CPU walk. The assumption is
`PmAssumption`: well-formed lists, and for each CPU an idle thread of boot that is
pinned to it and more urgent than `MaxPriority`, the value the walk starts from. `NeverNull` fails without it.

**`KernelProofs`**, for any CPUs, threads, programs and pipes. First that `Kernel` is a run of `IpcManager` and a run of
`ProcessManager` (`ImplementsIpcManager`, `ImplementsProcessManager`): every action's conjuncts are an action of the one and an action
or nothing of the other. The invariants of both parts then hold of the
composed state (`PartsInv`) by the step lemmas of their own modules, instantiated. On top, `GlueInv` says that a thread inside a pipe call has a
CPU that handles it, and that this CPU handles a call of its program. With `PlaceInv` that gives
`ExecutingWaitsNowhere`, that an executing thread is on no list and has no `blocked_by`.

`ResultDelivered` needs `DeliverInv`: a steady thread that no CPU executes or handles, and whose result is not owed, has it in its
frame (`Delivered`); a create call writes its result before it leaves; and a result that a CPU still owes belongs to a thread that is not
steady or may run on that CPU only (`LateInv`), so that a late write never spoils a steady thread's frame. `kernel_yield` shows that
the property is false of the others. What carries the proof across a switch is `ContextInv`: what the next CPU pops is what was saved last.

With interrupts, first that every action is one of `IpcManager` and one of `ProcessManager`, or nothing
(`InterruptsSchedule`), the window and the lost contexts included: `stack` and `sp0` are then what the scheduler believes. `StopInv` says
where the scheduler is while a CPU serves an interrupt: before the list's lock, or where it has just loaded a thread, and with a
thread. `GlueInv` says that a thread inside a pipe is handled by a CPU in a system call, so it is neither put aside nor
loaded (`NoLockIsLost`). `SurviveInv` extends `DeliverInv` to CPUs that
serve: the frame of a thread that is not astray is still its own under any number of the kernel's contexts,
and `x0` is loaded from it only when those are gone (`InterruptsDeliver`).

**`AddressSpaceProofs`**, for any processes, threads, requests, pools and page sizes: type correctness, `MappingsStay`,
`FramesExclusive`, `RestrictedUnmapped`, `RegionsDisjoint` and `RegionBacked`.

* *Mappings.* The tables only grow: every step that writes an entry has found none there. And (`Nested`) a page
  has an L3 entry only under an L2 entry that names a table, so that no block can be put over it, and what `V2P` read
  it reads again. The arithmetic is that of slots: a page of a block has that block's slot.
* *Frames.* `PageInv`: a frame that the pool of small pages has given away is that of one table, one page, or one page about to be mapped;
  `BlockInv`: blocks of the pool lie apart, mapped or about to be; `DeviceInv`: what a call for a device has still to map is in no range that is
  counted, to its last page. Entries of devices are told from those of memory by `devices`, so nothing is assumed about zones.
* *Regions.* `LockInv` holds the table's lock through the search and the mapping, but not in between. `FoundInv`: a range that was found begins a slot or
  lies in one that has a table. `ProgressInv`: large pages are mapped first and the address and what is left add up, so that each of the call's
  pages is its own entry, at its place. `BackedInv`: what is mapped of a call, and all of a region, is backed page by page: the pages of
  a device by the device's, in order; the call's own pages of memory by frames of the pools, which `FramesExclusive` says are nobody else's.

That the regions of a process do not overlap is false: a large and a small request may return overlapping ranges (`MapThroughNull`), and with a third
thread even two equal requests may. What holds, and is what `RegionsDisjoint` says, is that no two regions share a page that each has by an entry of its own, also
while calls are at work.

**`HeapProofs`**, for any CPUs, regions, requests, marker size and alignment: type correctness,
`FoundIsNobodys`, `NullOnlyWhenFull`, `BlocksTile` and that the heap implements `Allocator`.

* `RegionInv` places every block and every USED bit in what a region has
  given out, so that a block made at the end of a region is a new one. `LockInv` leaves one CPU in malloc.
  `WalkInv` is about the walk: a run starts at a block that is free and stays so, since frees only clear
  bits and only the holder of the lock sets them. `OwnerInv` says that a block
  has at most one owner among those it was granted to, the one that found it and those that free it; what
  keeps it is that the owners' blocks are marked USED and the search takes only blocks that are not.
* `FitInv`: what would have done when malloc began (a block, room or a run) is still ahead of its walk, or is the run it is counting, and then
  what it has counted is no less than what the run holds so far. `SizeInv`, that free writes back the size it has read, keeps frees from
  changing what a run holds. Neither needs the sizes to be right: compaction's wrong ones neither hand out a block
  twice nor hide a free one.
* `TileInv`: the blocks of a list lie one behind the other, each with its `room`; `RoomInv`: a recorded size is that room or the one computed from a
  null pointer. Both hold for good: a merge sets `room` from where the next block lies, whatever the sizes say.
* Until such a block is freed (`loose`), free blocks have the size of their room, so a run's bytes end before the block it has come to
  (`RunInv`), and `HandInv` adds that what is granted is a listed block with room for its request, for which a
  merged size must fit its 31 bits: `RegionsFit`, no region is longer than that (boot adds one of 32 MB,
  `mmu.h:4`). So `AllocatorUntilLoose`: the heap is an allocator until the first such block is freed, and `heap_compaction`
  shows what happens after.

**`ConsoleProofs`**, for any applications, sessions, message sizes and pipe depths: `TypeOK`, `OutputConserved` and `KeysInOrder`. The invariant is in four
parts that share little state, so that a step has to be looked at for one or two of them.

* `OutInv`: of each application, what is shown, what is in "stdout", what the aux thread holds and what is in its pipe are consecutive runs of what
  it printed; the counts `Taken` and `Sent` are where they meet. The retry of a refused write moves nothing, which is why it loses nothing. What
  is shown or queued may repeat its last element, no more.
* `KeyInv`: `FlowInv` orders everything on its way from the keyboard to the applications, `AttachInv` says that while the terminal server forwards, an attach command
  for the application in `MUX` was typed before all that is still ahead, also before it has walked the list.
* `OnceInv`: once the main thread is past an attach, the command that did it is behind it in what was typed (`Spent`). So when `MUX` is cleared under an
  aux thread that was forwarding, a second attach has been typed, and who attaches once sees nothing twice.
* `RegInv`: an application asks once, so the list has one record of it at most, and `filled` records are in the list.

Where these proofs or those about the heap's runs need induction over numbers, they take the least element of a set of counterexamples (`MinIs`,
`Least`, from the well-foundedness of finite sets).

Left to TLC is all liveness (`LockReleased`, `WaitersWoken`, `SleepersWake`, `MostUrgentRuns`, `ReadersServed`, `FreeLockTaken`, `MallocReturns`,
`Registered`): no prover here treats fairness. The three violation runs are TLC's by nature.

## Not modelled, and what is left

* The query for a pipe's sizes and the check of a new pipe's; ids that one application sends to another.
* The GIC driver's registers, the UART and the boot code before the scheduler starts: register
  programming, or run once.
* The ELF, device tree and string libraries, the ROM file system, the test programs: sequential code over
  trusted images or strings. Of the command line only which lines attach and which are spoiled is modelled, not editing and
  history. libc's glue (threads, reent structures) is not.
* Crashes, restarts and lost deliveries do not exist in this system.

Most of the repository's lines are copies of newlib's headers and images embedded as arrays, so the
share of lines the models cover is small although most of the kernel's own concurrent code is covered.

Proofs that would be worth having next: that `Console`'s pipes, which are sequences with a length bound, are what `PipeChannel` promises a thread
that retries, so that the applications stand on the kernel's proof and not beside it.
