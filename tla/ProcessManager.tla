--------------------------- MODULE ProcessManager ---------------------------
(***************************************************************************)
(* Scheduling: kernel/src/managers/process-manager.c and the context       *)
(* switch around it (arch/aarch64/src/scheduling/scheduling.c), on all the *)
(* CPUs at once.                                                           *)
(*                                                                         *)
(* A CPU enters the switch from its timer interrupt or from a system call, *)
(* and runs it with interrupts masked.  It saves the stack pointer of the  *)
(* thread it runs, takes the process list's lock, walks every thread of    *)
(* every process and picks one, then loads that thread's stack pointer.    *)
(* Each thread visited is one step, made under that thread's lock, so the  *)
(* system calls of other CPUs interleave with the walk.                    *)
(***************************************************************************)
EXTENDS Integers, Sequences, FiniteSets

CONSTANTS Cpu,          \* the CPUs
          Process,      \* PROCESS_LIST: the sequence of processes, set at boot
          Thread,       \* the threads that are ever created
          BootThreads,  \* BootThreads[p]: those pm_init creates for p, in order
          Parent,       \* Parent[t]: the process of t
          Priority,     \* Priority[t]: a lower number is more urgent
          MaxPriority,  \* (size_t)-1, less urgent than any thread that may run
          Affinity,     \* Affinity[t]: the CPUs t may run on
          Idle,         \* the idle process's threads: they make no system call
          Object,       \* what a thread can be blocked by
          SleepArg,     \* the arguments of sleep calls
          Garbage,      \* what recycled heap memory leaves in a new sleep_ticks
          None          \* NULL

Processes == {Process[i] : i \in 1..Len(Process)}

Booted == UNION {{BootThreads[p][i] : i \in 1..Len(BootThreads[p])} : p \in Processes}

ASSUME PmAssumption ==
  /\ Cpu # {} /\ IsFiniteSet(Cpu)
  /\ Process \in Seq(Processes)
  /\ BootThreads \in [Processes -> Seq(Thread)]
  /\ Parent \in [Thread -> Processes]
  /\ MaxPriority \in Nat
  /\ Priority \in [Thread -> 0..MaxPriority]
  /\ Affinity \in [Thread -> SUBSET Cpu]
  /\ Idle \subseteq Thread
  /\ \A c \in Cpu : \E t \in Booted \cap Idle :
       Affinity[t] = {c} /\ Priority[t] < MaxPriority
  /\ SleepArg \subseteq Nat
  /\ Garbage \subseteq Nat /\ Garbage # {}
  /\ None \notin Thread \cup Object \cup Cpu

VARIABLES threads,    \* threads[p]: prc->threads
          current,    \* CURRENT_THREAD
          running,    \* the threads with PM_THREAD_FLAGS_RUNNING
          ready,      \* the threads with PM_THREAD_FLAGS_READY
          sleep,      \* sleep[t]: thread->sleep_ticks
          blockedBy,  \* blockedBy[t]: thread->blocked_by
          stack,      \* stack[t]: the thread whose latest context lies at
                      \* t->stack_pointer, None if that context has moved on
          listLock,   \* the CPU that holds PROCESS_LIST_LOCK, or None
          phase,      \* phase[c]: where CPU c is
          sp0,        \* sp0[c]: the thread whose context c executes or saved
          proc, idx,  \* the walk's place: a process and one of its threads
          best,       \* process_scheduler_run's "selected"
          pick        \* pm_thread_next_get's "selected"

threadVars == <<threads, running, ready, sleep, blockedBy, stack>>
walkVars == <<proc, idx, best, pick>>
pmVars == <<threads, current, running, ready, sleep, blockedBy, stack,
            listLock, phase, sp0, proc, idx, best, pick>>

Phase == {"user", "svc", "blocking", "save", "lock", "process", "thread", "load"}

\* The phases in which a CPU holds the process list's lock.
Walking == {"process", "thread"}

Created == UNION {{threads[p][i] : i \in 1..Len(threads[p])} : p \in Processes}

TypeOK ==
  /\ threads \in [Processes -> Seq(Thread)]
  /\ current \in [Cpu -> Thread \cup {None}]
  /\ running \subseteq Thread
  /\ ready \subseteq Thread
  /\ sleep \in [Thread -> Nat]
  /\ blockedBy \in [Thread -> Object \cup {None}]
  /\ stack \in [Thread -> Thread \cup {None}]
  /\ listLock \in Cpu \cup {None}
  /\ phase \in [Cpu -> Phase]
  /\ sp0 \in [Cpu -> Thread \cup {None}]
  /\ proc \in [Cpu -> Nat] /\ idx \in [Cpu -> Nat]
  /\ best \in [Cpu -> Thread \cup {None}]
  /\ pick \in [Cpu -> Thread \cup {None}]

\* After pm_init each CPU spins, with no thread, until its first timer interrupt.
\* pm_arch_thread_stack_populate has laid down every thread's first context.
Init ==
  /\ threads = BootThreads
  /\ current = [c \in Cpu |-> None]
  /\ running = {}
  /\ ready = Created
  /\ sleep = [t \in Thread |-> 0]
  /\ blockedBy = [t \in Thread |-> None]
  /\ stack = [t \in Thread |-> t]
  /\ listLock = None
  /\ phase = [c \in Cpu |-> "user"]
  /\ sp0 = [c \in Cpu |-> None]
  /\ proc = [c \in Cpu |-> 0]
  /\ idx = [c \in Cpu |-> 0]
  /\ best = [c \in Cpu |-> None]
  /\ pick = [c \in Cpu |-> None]

-----------------------------------------------------------------------------
\* Entering the kernel.

Goto(c, from, to) ==
  /\ phase[c] = from
  /\ phase' = [phase EXCEPT ![c] = to]

TimerInterrupt(c) ==
  /\ Goto(c, "user", "save")
  /\ UNCHANGED <<threadVars, current, listLock, sp0, walkVars>>

SystemCall(c) ==
  /\ current[c] # None /\ current[c] \notin Idle
  /\ Goto(c, "user", "svc")
  /\ UNCHANGED <<threadVars, current, listLock, sp0, walkVars>>

\* A call that does not switch returns to the thread that made it.
SystemReturn(c) ==
  /\ Goto(c, "svc", "user")
  /\ UNCHANGED <<threadVars, current, listLock, sp0, walkVars>>

Yield(c) ==
  /\ Goto(c, "svc", "save")
  /\ UNCHANGED <<threadVars, current, listLock, sp0, walkVars>>

\* Every CPU's walk counts a sleeping thread down, hence the factor.  A sleep of
\* no ticks is refused, and switches nevertheless.
SleepTicks(c, ticks) ==
  /\ Goto(c, "svc", "save")
  /\ sleep' = IF ticks = 0 THEN sleep
              ELSE [sleep EXCEPT ![current[c]] = Cardinality(Cpu) * (ticks + 1)]
  /\ UNCHANGED <<threads, running, ready, blockedBy, stack, current, listLock,
                 sp0, walkVars>>

\* pm_thread_create: blocked_by and the flags are set, sleep_ticks is not.
ThreadCreate(c, t) ==
  LET p == Parent[current[c]] IN
  /\ phase[c] = "svc"
  /\ t \notin Created /\ Parent[t] = p
  /\ \A d \in Cpu : phase[d] = "thread" => Process[proc[d]] # p    \* PROCESS_LOCK
  /\ threads' = [threads EXCEPT ![p] = Append(@, t)]
  /\ ready' = ready \cup {t}
  /\ \E g \in Garbage : sleep' = [sleep EXCEPT ![t] = g]
  /\ UNCHANGED <<running, blockedBy, stack, current, listLock, phase, sp0, walkVars>>

\* A call finds that its thread must wait (IpcManager); it will switch.
Block(c, object) ==
  /\ Goto(c, "svc", "blocking")
  /\ blockedBy' = [blockedBy EXCEPT ![current[c]] = object]
  /\ UNCHANGED <<threads, running, ready, sleep, stack, current, listLock, sp0,
                 walkVars>>

\* Slip: a blocked call returns to its thread.
BlockNoSwitch(c) ==
  /\ Goto(c, "blocking", "user")
  /\ UNCHANGED <<threadVars, current, listLock, sp0, walkVars>>

BlockSwitch(c) ==
  /\ Goto(c, "blocking", "save")
  /\ UNCHANGED <<threadVars, current, listLock, sp0, walkVars>>

\* A call ends another thread's wait.
Unblock(c, t) ==
  /\ phase[c] = "svc"
  /\ blockedBy' = [blockedBy EXCEPT ![t] = None]
  /\ UNCHANGED <<threads, running, ready, sleep, stack, current, listLock, phase,
                 sp0, walkVars>>

-----------------------------------------------------------------------------
\* aarch64_scheduling_interrupt.

\* Slip: the stack pointer is not saved.
SaveNothing(c) ==
  /\ Goto(c, "save", "lock")
  /\ UNCHANGED <<threadVars, current, listLock, sp0, walkVars>>

SaveStack(c) ==
  /\ Goto(c, "save", "lock")
  /\ stack' = IF current[c] = None THEN stack
              ELSE [stack EXCEPT ![current[c]] = sp0[c]]
  /\ UNCHANGED <<threads, running, ready, sleep, blockedBy, current, listLock,
                 sp0, walkVars>>

\* Slip: the walk does without the list's lock.
LockListNot(c) ==
  /\ Goto(c, "lock", "process")
  /\ listLock' = c
  /\ running' = running \ {current[c]}
  /\ proc' = [proc EXCEPT ![c] = 1]
  /\ UNCHANGED <<threads, ready, sleep, blockedBy, stack, current, sp0, idx, best,
                 pick>>

\* Slip: the RUNNING flag of the thread given up stays.
LockListStillRunning(c) ==
  /\ listLock = None
  /\ Goto(c, "lock", "process")
  /\ listLock' = c
  /\ proc' = [proc EXCEPT ![c] = 1]
  /\ UNCHANGED <<threadVars, current, sp0, idx, best, pick>>

LockList(c) ==
  /\ listLock = None
  /\ Goto(c, "lock", "process")
  /\ listLock' = c
  /\ running' = running \ {current[c]}
  /\ proc' = [proc EXCEPT ![c] = 1]
  /\ UNCHANGED <<threads, ready, sleep, blockedBy, stack, current, sp0, idx, best,
                 pick>>

EnterProcess(c) ==
  /\ proc[c] <= Len(Process)
  /\ Goto(c, "process", "thread")
  /\ idx' = [idx EXCEPT ![c] = 1]
  /\ UNCHANGED <<threadVars, current, listLock, sp0, proc, best, pick>>

Rank(t) == IF t = None THEN MaxPriority ELSE Priority[t]

\* Slip: the last thread found wins.
BetterLast(t, u) == IF t = None THEN u ELSE t

\* The comparison is strict: the earlier of equals keeps its place.
Better(t, u) == IF Rank(t) < Rank(u) THEN t ELSE u

TicksLeft(t) == IF sleep[t] = 0 THEN 0 ELSE sleep[t] - 1

\* Slip: blocked threads are run.
EligibleBlocked(t) == TicksLeft(t) = 0 /\ t \notin running

Eligible(t) == blockedBy[t] = None /\ TicksLeft(t) = 0 /\ t \notin running

AtThread(c, t) ==
  /\ phase[c] = "thread"
  /\ idx[c] <= Len(threads[Process[proc[c]]])
  /\ t = threads[Process[proc[c]]][idx[c]]

\* Slip: sleep_ticks is compared and not decremented.
VisitNoCount(c, t) ==
  /\ AtThread(c, t) /\ c \in Affinity[t]
  /\ IF sleep[t] = 0 /\ Eligible(t)
     THEN /\ ready' = ready \cup {t}
          /\ best' = [best EXCEPT ![c] = Better(t, @)]
     ELSE /\ ready' = ready \ {t}
          /\ UNCHANGED best
  /\ idx' = [idx EXCEPT ![c] = @ + 1]
  /\ UNCHANGED <<threads, running, sleep, blockedBy, stack, current, listLock, phase,
                 sp0, proc, pick>>

VisitThread(c, t) ==
  /\ AtThread(c, t) /\ c \in Affinity[t]
  /\ sleep' = [sleep EXCEPT ![t] = TicksLeft(t)]
  /\ IF Eligible(t)
     THEN /\ ready' = ready \cup {t}
          /\ best' = [best EXCEPT ![c] = Better(t, @)]
     ELSE /\ ready' = ready \ {t}
          /\ UNCHANGED best
  /\ idx' = [idx EXCEPT ![c] = @ + 1]
  /\ UNCHANGED <<threads, running, blockedBy, stack, current, listLock, phase,
                 sp0, proc, pick>>

\* A thread kept off this CPU by its affinity is not even counted down.
PassThread(c, t) ==
  /\ AtThread(c, t) /\ c \notin Affinity[t]
  /\ idx' = [idx EXCEPT ![c] = @ + 1]
  /\ UNCHANGED <<threadVars, current, listLock, phase, sp0, proc, best, pick>>

\* Slip: a later process's choice replaces that of an earlier one.
LeaveOverride(c) ==
  /\ Goto(c, "thread", "process")
  /\ idx[c] > Len(threads[Process[proc[c]]])
  /\ pick' = [pick EXCEPT ![c] = IF best[c] = None THEN @ ELSE best[c]]
  /\ proc' = [proc EXCEPT ![c] = @ + 1]
  /\ idx' = [idx EXCEPT ![c] = 0]
  /\ best' = [best EXCEPT ![c] = None]
  /\ UNCHANGED <<threadVars, current, listLock, sp0>>

LeaveProcess(c) ==
  /\ Goto(c, "thread", "process")
  /\ idx[c] > Len(threads[Process[proc[c]]])
  /\ pick' = [pick EXCEPT ![c] = Better(best[c], @)]
  /\ proc' = [proc EXCEPT ![c] = @ + 1]
  /\ idx' = [idx EXCEPT ![c] = 0]
  /\ best' = [best EXCEPT ![c] = None]
  /\ UNCHANGED <<threadVars, current, listLock, sp0>>

Select(c) ==
  /\ proc[c] > Len(Process)
  /\ pick[c] # None       \* else the kernel follows a null pointer
  /\ Goto(c, "process", "load")
  /\ current' = [current EXCEPT ![c] = pick[c]]
  /\ running' = running \cup {pick[c]}
  /\ listLock' = None
  /\ proc' = [proc EXCEPT ![c] = 0]
  /\ pick' = [pick EXCEPT ![c] = None]
  /\ UNCHANGED <<threads, ready, sleep, blockedBy, stack, sp0, idx, best>>

\* The thread resumes: what its stack_pointer denotes is its past from here on.
LoadStack(c) ==
  /\ Goto(c, "load", "user")
  /\ sp0' = [sp0 EXCEPT ![c] = stack[current[c]]]
  /\ stack' = [stack EXCEPT ![current[c]] = None]
  /\ UNCHANGED <<threads, running, ready, sleep, blockedBy, current, listLock,
                 walkVars>>

-----------------------------------------------------------------------------

Switch(c) ==
  \/ SaveStack(c) \/ LockList(c) \/ EnterProcess(c)
  \/ \E t \in Thread : VisitThread(c, t) \/ PassThread(c, t)
  \/ LeaveProcess(c) \/ Select(c) \/ LoadStack(c)

Calls(c) ==
  \/ SystemCall(c) \/ SystemReturn(c) \/ Yield(c)
  \/ \E n \in SleepArg : SleepTicks(c, n)
  \/ \E t \in Thread : ThreadCreate(c, t) \/ Unblock(c, t)
  \/ \E o \in Object : Block(c, o)
  \/ BlockSwitch(c)

Next == \E c \in Cpu : TimerInterrupt(c) \/ Calls(c) \/ Switch(c)

Spec == Init /\ [][Next]_pmVars

\* Every CPU's timer goes on ticking, and a tick that falls into a system call is
\* taken when the call returns; code with interrupts masked goes on.
FairSpec == Spec /\ \A c \in Cpu : SF_pmVars(TimerInterrupt(c))
                                  /\ WF_pmVars(Switch(c) \/ BlockSwitch(c))
                                  /\ WF_pmVars(SystemReturn(c))

-----------------------------------------------------------------------------
\* Properties

\* No thread executes on two CPUs: not its current thread, not the context its
\* registers hold.
ExclusiveExecution ==
  \A c, d \in Cpu : c # d =>
    /\ current[c] # None => current[c] # current[d]
    /\ phase[c] = "user" /\ phase[d] = "user" /\ sp0[c] # None => sp0[c] # sp0[d]

\* A CPU executes its current thread from where that thread last stopped, on
\* whichever CPU it stopped.
ContextFresh ==
  \A c \in Cpu : phase[c] = "user" => sp0[c] = current[c]

\* A thread that executes is neither blocked nor asleep, and may run there.
RunnersEligible ==
  \A c \in Cpu : phase[c] = "user" /\ current[c] # None =>
    /\ blockedBy[current[c]] = None
    /\ sleep[current[c]] = 0
    /\ c \in Affinity[current[c]]

\* PM_THREAD_FLAGS_RUNNING marks the current threads, but for the one the CPU
\* that walks the list has given up.
RunningIsCurrent ==
  running = {current[c] : c \in {d \in Cpu : phase[d] \notin Walking}} \ {None}

\* The walk always finds a thread (lines 194-197 follow "selected" unchecked).
NeverNull ==
  \A c \in Cpu : phase[c] = "process" /\ proc[c] > Len(Process) => pick[c] # None

\* Of the threads it found ready, the walk picks a most urgent one.  A thread
\* created behind the walk is ready but was not found, hence BootThreads.
PicksMostUrgent ==
  [][\A c \in Cpu : Select(c) =>
       \A t \in ready \cap Booted :
         c \in Affinity[t] => Priority[pick[c]] <= Priority[t]]_pmVars

\* The walks of the CPUs it may run on count a sleeping thread down to the end.
SleepersWake == \A t \in Thread : sleep[t] > 0 ~> sleep[t] = 0

\* A thread more urgent than all others runs again whenever nothing blocks it.
MostUrgentRuns ==
  \A t \in Booted :
    (\A u \in Thread \ {t} : Priority[t] < Priority[u]) =>
      (blockedBy[t] = None ~> t \in running)
=============================================================================
