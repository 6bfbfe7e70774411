------------------------------- MODULE Kernel -------------------------------
(***************************************************************************)
(* IpcManager and ProcessManager put together by the system call handler   *)
(* (arch/aarch64/src/exceptions): threads run on CPUs, call the pipes from *)
(* there, block in the pipe and are switched away from in the scheduler.   *)
(*                                                                         *)
(* What this module adds is the saved frame, through which a call gets its *)
(* result: the handler writes X0 of the frame that lies on the thread's    *)
(* stack, in memory, and the return to the thread pops it into the         *)
(* register.  A thread makes all its calls at one stack depth here, so all *)
(* its frames share their place.                                           *)
(***************************************************************************)
EXTENDS Integers, Sequences

CONSTANTS Cpu, Process, Thread, BootThreads, Parent, Priority, MaxPriority,
          Affinity, Idle, SleepArg, Garbage,
          Pipe, UnknownId, Message, Depth, MsgSize, Purging,
          None,
          Uses        \* Uses[t]: the calls of t's program

CallName == {"read", "write", "sleep", "yield", "create", "attach"}

VARIABLES slot, head, tail, readers, writers, lock, pc, pipe, msg, buf, ret,
          threads, current, running, ready, sleep, stack, listLock, phase, sp0,
          proc, idx, best, pick,
          blockedBy,  \* of both
          call,       \* call[c]: the call c handles, "none" outside svc
          frame,      \* frame[t]: X0 in the frame on t's stack
          x0,         \* x0[t]: the register, as t has it when it executes
          due,        \* due[t]: what the register should hold
          late        \* late[c]: the thread whose frame c has yet to write

ipcOnly == <<slot, head, tail, readers, writers, lock, pc, pipe, msg, buf, ret>>
pmOnly == <<threads, current, running, ready, sleep, stack, listLock, phase, sp0,
            proc, idx, best, pick>>
frameVars == <<frame, x0, due, late>>
vars == <<ipcOnly, pmOnly, blockedBy, call, frameVars>>

Ipc == INSTANCE IpcManager
Pm  == INSTANCE ProcessManager WITH Object <- Pipe

ASSUME KernelAssumption ==
  /\ Ipc!IpcAssumption /\ Pm!PmAssumption
  /\ Uses \in [Thread -> SUBSET CallName]

Value == Ipc!Result \cup {"ARG", "CALL", "ERROR"}

TypeOK ==
  /\ Ipc!TypeOK /\ Pm!TypeOK
  /\ call \in [Cpu -> CallName \cup {"none"}]
  /\ frame \in [Thread -> Value]
  /\ x0 \in [Thread -> Value]
  /\ due \in [Thread -> Value]
  /\ late \in [Cpu -> Thread \cup {None}]

\* A new thread's X0 is its argument.
Init ==
  /\ Ipc!Init /\ Pm!Init
  /\ call = [c \in Cpu |-> "none"]
  /\ frame = [t \in Thread |-> "ARG"]
  /\ x0 = [t \in Thread |-> "ARG"]
  /\ due = [t \in Thread |-> "ARG"]
  /\ late = [c \in Cpu |-> None]

-----------------------------------------------------------------------------

Me(c) == current[c]

\* c executes a thread's code.
Executing(c) == phase[c] = "user" /\ current[c] # None /\ late[c] = None

InCall(c, name) == phase[c] = "svc" /\ call[c] = name

\* svc_stub pushes the frame with the call's number in X0.
Enter(c, name) ==
  /\ Executing(c)
  /\ name \in Uses[Me(c)]
  /\ Pm!SystemCall(c)
  /\ call' = [call EXCEPT ![c] = name]
  /\ frame' = [frame EXCEPT ![Me(c)] = "CALL"]
  /\ UNCHANGED <<x0, due, late>>

\* The handler writes the frame; the call will return `value`.
Answer(t, value) ==
  /\ frame' = [frame EXCEPT ![t] = value]
  /\ due' = [due EXCEPT ![t] = value]

EndCall(c) == call' = [call EXCEPT ![c] = "none"]

-----------------------------------------------------------------------------
\* Pipes.

EnterWrite(c) ==
  /\ Enter(c, "write")
  /\ \E id \in Pipe \cup UnknownId, m \in Message : Ipc!PipeWriteCall(Me(c), id, m)

EnterRead(c) ==
  /\ Enter(c, "read")
  /\ \E id \in Pipe \cup UnknownId : Ipc!PipeReadCall(Me(c), id)

\* A step of the call that touches no thread.
PipeStep(c) ==
  LET t == Me(c) IN
  /\ phase[c] \in {"svc", "blocking"} /\ call[c] \in {"read", "write"}
  /\ \/ Ipc!WriteLock(t) \/ Ipc!PurgeOldest(t) \/ Ipc!FindRoom(t)
     \/ Ipc!WriterWaits(t) \/ Ipc!WriteFill(t) \/ Ipc!WriteCommit(t)
     \/ Ipc!ReadLock(t) \/ Ipc!ReaderWaits(t) \/ Ipc!ReadCopy(t)
     \/ Ipc!ReadAdvance(t) \/ Ipc!ReturnBlocked(t) \/ Ipc!ReturnOk(t)
  /\ UNCHANGED <<pmOnly, blockedBy, call, frameVars>>

PipeBlock(c) ==
  /\ phase[c] = "svc"
  /\ Ipc!MarkBlocked(Me(c)) /\ Pm!Block(c, pipe[Me(c)])
  /\ UNCHANGED <<call, frameVars>>

PipeNotify(c) ==
  /\ phase[c] = "svc"
  /\ Ipc!NotifyReader(Me(c)) \/ Ipc!NotifyWriter(Me(c))
  /\ \E t \in Thread : Pm!Unblock(c, t)
  /\ UNCHANGED <<call, frameVars>>

\* The result is written and popped at once: the thread goes on.
PipeReturn(c) ==
  LET t == Me(c) IN
  /\ InCall(c, "read") \/ InCall(c, "write")
  /\ pc[t] = "user"
  /\ Pm!SystemReturn(c)
  /\ EndCall(c)
  /\ Answer(t, ret[t])
  /\ x0' = [x0 EXCEPT ![t] = ret[t]]
  /\ UNCHANGED <<ipcOnly, late>>

\* Slip: a blocked call leaves its result to be written later.
PipeSwitchUnanswered(c) ==
  LET t == Me(c) IN
  /\ phase[c] = "blocking" /\ pc[t] = "user"
  /\ Pm!BlockSwitch(c)
  /\ EndCall(c)
  /\ due' = [due EXCEPT ![t] = ret[t]]
  /\ UNCHANGED <<ipcOnly, frame, x0, late>>

\* FULL and EMPTY are written first, then the CPU switches.
PipeSwitch(c) ==
  LET t == Me(c) IN
  /\ phase[c] = "blocking" /\ pc[t] = "user"
  /\ Pm!BlockSwitch(c)
  /\ EndCall(c)
  /\ Answer(t, ret[t])
  /\ UNCHANGED <<ipcOnly, x0, late>>

-----------------------------------------------------------------------------
\* Scheduling calls.

\* Bound: no call creates a thread once all of Thread are created.
EnterOther(c) ==
  /\ \/ Enter(c, "sleep") \/ Enter(c, "yield")
     \/ Enter(c, "create") /\ \E t \in Thread \ Pm!Created : Parent[t] = Parent[Me(c)]
  /\ UNCHANGED ipcOnly

Sleep(c) ==
  /\ InCall(c, "sleep")
  /\ \E n \in SleepArg : /\ Pm!SleepTicks(c, n)
                         /\ Answer(Me(c), IF n = 0 THEN "ERROR" ELSE "OK")
  /\ EndCall(c)
  /\ UNCHANGED <<ipcOnly, x0, late>>

\* A yield switches first: its result is written when another thread, or no
\* thread, stands between this CPU and the frame.
Yield(c) ==
  /\ InCall(c, "yield")
  /\ Pm!Yield(c)
  /\ EndCall(c)
  /\ late' = [late EXCEPT ![c] = Me(c)]
  /\ due' = [due EXCEPT ![Me(c)] = "OK"]
  /\ UNCHANGED <<ipcOnly, frame, x0>>

Create(c) ==
  /\ InCall(c, "create") /\ frame[Me(c)] = "CALL"
  /\ \E t \in Thread : Pm!ThreadCreate(c, t)
  /\ Answer(Me(c), "OK")
  /\ UNCHANGED <<ipcOnly, call, x0, late>>

CreateReturn(c) ==
  /\ InCall(c, "create") /\ frame[Me(c)] # "CALL"
  /\ Pm!SystemReturn(c)
  /\ EndCall(c)
  /\ x0' = [x0 EXCEPT ![Me(c)] = frame[Me(c)]]
  /\ UNCHANGED <<ipcOnly, frame, due, late>>

-----------------------------------------------------------------------------
\* The timer and the switch.

\* irq_stub pushes the interrupted thread's registers; a CPU that has no thread
\* yet pushes them on the stack it spins on.
TimerInterrupt(c) ==
  /\ late[c] = None
  /\ Pm!TimerInterrupt(c)
  /\ frame' = [t \in Thread |-> IF t = Me(c) THEN x0[t] ELSE frame[t]]
  /\ UNCHANGED <<ipcOnly, call, x0, due, late>>

SwitchStep(c) ==
  /\ \/ Pm!SaveStack(c) \/ Pm!LockList(c) \/ Pm!EnterProcess(c)
     \/ \E t \in Thread : Pm!VisitThread(c, t) \/ Pm!PassThread(c, t)
     \/ Pm!LeaveProcess(c) \/ Pm!Select(c)
  /\ UNCHANGED <<ipcOnly, call, frameVars>>

\* The end of the switch: load_context pops the next thread's frame.
Resume(c) ==
  /\ late[c] = None
  /\ Pm!LoadStack(c)
  /\ x0' = [x0 EXCEPT ![Me(c)] = frame[Me(c)]]
  /\ UNCHANGED <<ipcOnly, call, frame, due, late>>

\* After a yield, the stack is loaded; then comes the yielder's result, through
\* the pointer the handler computed on entry; then load_context.
LoadAfterYield(c) ==
  /\ late[c] # None
  /\ Pm!LoadStack(c)
  /\ UNCHANGED <<ipcOnly, call, frameVars>>

ResumeAfterYield(c) ==
  /\ late[c] # None /\ phase[c] = "user"
  /\ frame' = [frame EXCEPT ![late[c]] = "OK"]
  /\ x0' = [x0 EXCEPT ![Me(c)] = frame'[Me(c)]]
  /\ late' = [late EXCEPT ![c] = None]
  /\ UNCHANGED <<ipcOnly, pmOnly, blockedBy, call, due>>

-----------------------------------------------------------------------------

UserStep(c) == EnterWrite(c) \/ EnterRead(c) \/ EnterOther(c)

PipeCall(c) ==
  PipeStep(c) \/ PipeBlock(c) \/ PipeNotify(c) \/ PipeReturn(c) \/ PipeSwitch(c)

OtherCall(c) ==
  Sleep(c) \/ Yield(c) \/ LoadAfterYield(c) \/ ResumeAfterYield(c) \/ Create(c) \/ CreateReturn(c)

KernelStep(c) == PipeCall(c) \/ OtherCall(c) \/ SwitchStep(c) \/ Resume(c)

Next == \E c \in Cpu : UserStep(c) \/ TimerInterrupt(c) \/ KernelStep(c)

Spec == Init /\ [][Next]_vars

\* The same where programs use nothing but the pipes.
PipesNext ==
  \E c \in Cpu : \/ EnterWrite(c) \/ EnterRead(c) \/ TimerInterrupt(c)
               \/ PipeCall(c) \/ SwitchStep(c) \/ Resume(c)

\* The timers tick, and the kernel gets on with its calls.  Locks are held for
\* moments between two ticks: a CPU that waits for the list or for a pipe finds it
\* free over and over, and gets it.  A time slice is long: a thread that is run
\* over and over gets to its next call.
PipesSpec ==
  /\ Init /\ [][PipesNext]_vars
  /\ \A c \in Cpu : WF_vars(TimerInterrupt(c)) /\ SF_vars(KernelStep(c))
  /\ \A t \in Thread : SF_vars(\E c \in Cpu : Me(c) = t /\ UserStep(c))

-----------------------------------------------------------------------------
\* Properties

\* Every run of the kernel is a run of the pipes with calls made by threads that
\* are not blocked, and a run of the scheduler.
ImplementsIpcManager == Ipc!Spec
ImplementsProcessManager == Pm!Spec

\* A thread whose results are written before another CPU can run it: it never yields,
\* or there is no other CPU for it.
Steady(t) == "yield" \notin Uses[t] \/ \E c \in Cpu : Affinity[t] = {c}

\* Such a thread finds in X0 what its call returned, or what it had there when the
\* timer interrupted it, whatever the other threads do, those that yield included
\* (the order of write and switch in exceptions.c:61-228).
ResultDelivered ==
  \A c \in Cpu : Executing(c) /\ Steady(Me(c)) => x0[Me(c)] = due[Me(c)]

\* The same for every thread: "This process in unravelled to return data to the
\* calling application" (design/300-userspace-model.md:8).
EveryResultDelivered == \A c \in Cpu : Executing(c) => x0[Me(c)] = due[Me(c)]

\* A thread that executes is not blocked and waits in no pipe's list: neither is it
\* run before it is notified, nor is it left on a list that would wake it out of a
\* later wait.
ExecutingWaitsNowhere ==
  \A c \in Cpu : Executing(c) =>
    /\ blockedBy[Me(c)] = None
    /\ \A p \in Pipe : Me(c) \notin Ipc!ToSet(readers[p]) \cup Ipc!ToSet(writers[p])

\* Where programs only write and only read one pipe, every reader receives
\* messages again and again: blocking, notifying, switching and retrying lose no
\* thread, whichever CPUs it runs on.
ReadersServed ==
  \A t \in Thread : Uses[t] = {"read"} =>
    []<><<pc[t] = "read_advance" /\ pc'[t] = "notify_writers">>_vars
=============================================================================
