----------------------------- MODULE Interrupts -----------------------------
(***************************************************************************)
(* Kernel with the interrupts that applications attach to                  *)
(* (kernel/src/managers/interrupt-manager.c, arch/aarch64/src/managers/    *)
(* intm_arch.c): a thread names a routine for an interrupt of its CPU; when *)
(* the interrupt comes, the CPU's thread is put aside, the timer is stopped *)
(* and the routine runs on a stack of its own, until it makes the call that *)
(* picks the next thread.                                                  *)
(*                                                                         *)
(* Interrupts are open where they need not be.  They are while the routine *)
(* runs: an interrupt then stores the routine's stack pointer as that of   *)
(* the thread put aside, whose own context is lost; the thread goes astray.*)
(* And they are from the end of INTERRUPT_COMPLETE until the next thread   *)
(* runs: an interrupt in this window pushes the kernel's own context on    *)
(* that thread's stack.                                                    *)
(*                                                                         *)
(* Every interrupt starts the routine from what lies at the place on its   *)
(* stack where attaching laid down a frame, under the tables of the process*)
(* that was interrupted.  A CPU that pops something else takes an abort,   *)
(* which the kernel answers with an endless loop.                          *)
(*                                                                         *)
(* Bounds: one interrupt number; the routine makes no call but the last;   *)
(* MaxNested.                                                              *)
(***************************************************************************)
EXTENDS Kernel

CONSTANT MaxNested    \* the contexts of the kernel that a thread's stack has room for

VARIABLES registered,  \* registered[c]: reg->prc, None while nothing is attached
          laid,        \* laid[c]: what lies at reg->stack_pointer
          serving,     \* serving[c]: what c does about an interrupt
          nested,      \* nested[t]: the contexts of the kernel above t's on t's stack
          astray       \* the threads whose stack_pointer leads to a routine's stack;
                       \* stack and sp0 keep, for them, what the scheduler takes it for

irqVars == <<registered, laid, serving, nested, astray>>
allVars == <<vars, irqVars>>

Serving == {"no", "irq", "routine", "complete", "open", "halted"}

\* A saved context has the size of the frame laid down for the entry: one that is
\* saved before the routine has pushed anything lies at the same place.
Laid == {"nothing", "entry", "context", "junk"}

InterruptsTypeOK ==
  /\ TypeOK
  /\ registered \in [Cpu -> Pm!Processes \cup {None}]
  /\ laid \in [Cpu -> Laid]
  /\ serving \in [Cpu -> Serving]
  /\ nested \in [Thread -> Nat]
  /\ astray \subseteq Thread

InterruptsInit ==
  /\ Init
  /\ registered = [c \in Cpu |-> None]
  /\ laid = [c \in Cpu |-> "nothing"]
  /\ serving = [c \in Cpu |-> "no"]
  /\ nested = [t \in Thread |-> 0]
  /\ astray = {}

Serves(c, from, to) ==
  /\ serving[c] = from
  /\ serving' = [serving EXCEPT ![c] = to]

\* c executes its thread's code, and no routine's.
Runs(c) == serving[c] = "no" /\ Executing(c)

-----------------------------------------------------------------------------
\* The attach call.

EnterAttach(c) ==
  /\ serving[c] = "no"
  /\ Enter(c, "attach")
  /\ UNCHANGED <<ipcOnly, irqVars>>

\* The registration, the stack and its frame, and the interrupt controller; on an
\* interrupt that is taken, an error.
Attach(c) ==
  /\ InCall(c, "attach")
  /\ Pm!SystemReturn(c)
  /\ EndCall(c)
  /\ LET free == registered[c] = None
         result == IF free THEN "OK" ELSE "ERROR"
     IN /\ Answer(Me(c), result)
        /\ x0' = [x0 EXCEPT ![Me(c)] = result]
        /\ registered' = IF free THEN [registered EXCEPT ![c] = Parent[Me(c)]]
                         ELSE registered
        /\ laid' = IF free THEN [laid EXCEPT ![c] = "entry"] ELSE laid
  /\ UNCHANGED <<ipcOnly, late, serving, nested, astray>>

-----------------------------------------------------------------------------
\* An interrupt.

\* Slip: system calls are made with interrupts enabled.
InterruptCall(c) ==
  /\ registered[c] # None /\ late[c] = None /\ phase[c] \in {"user", "svc"}
  /\ Serves(c, "no", "irq")
  /\ phase' = [phase EXCEPT ![c] = "save"]
  /\ frame' = [t \in Thread |-> IF t = Me(c) THEN x0[t] ELSE frame[t]]
  /\ UNCHANGED <<ipcOnly, threads, running, ready, sleep, blockedBy, stack, current,
                 listLock, sp0, proc, idx, best, pick, call, x0, due, late,
                 registered, laid, nested, astray>>

\* irq_stub pushes the interrupted thread's registers.
Interrupt(c) ==
  /\ registered[c] # None /\ late[c] = None
  /\ Serves(c, "no", "irq")
  /\ Pm!TimerInterrupt(c)
  /\ frame' = [t \in Thread |-> IF t = Me(c) THEN x0[t] ELSE frame[t]]
  /\ UNCHANGED <<ipcOnly, call, x0, due, late, registered, laid, nested, astray>>

\* aarch64_intm_handler stores the stack pointer, as the scheduler would.
PutAside(c) ==
  /\ serving[c] = "irq"
  /\ Pm!SaveStack(c)
  /\ UNCHANGED <<ipcOnly, call, frameVars, irqVars>>

\* The routine starts, or goes on after its last call.
StartRoutine(c) ==
  /\ phase[c] = "lock"
  /\ laid[c] \in {"entry", "context"} /\ registered[c] = Parent[Me(c)]
  /\ Serves(c, "irq", "routine")
  /\ UNCHANGED <<vars, registered, laid, nested, astray>>

\* The CPU pops what is no frame of the routine.
Halt(c) ==
  /\ phase[c] = "lock"
  /\ ~(laid[c] \in {"entry", "context"} /\ registered[c] = Parent[Me(c)])
  /\ Serves(c, "irq", "halted")
  /\ UNCHANGED <<vars, registered, laid, nested, astray>>

\* The routine runs with interrupts enabled.  Its own stack pointer becomes that of
\* the thread put aside; the routine goes on if it had pushed nothing.
InterruptAgain(c) ==
  /\ \/ Serves(c, "routine", "routine") /\ laid' = [laid EXCEPT ![c] = "context"]
     \/ Serves(c, "routine", "halted") /\ laid' = [laid EXCEPT ![c] = "junk"]
  /\ astray' = astray \cup {Me(c)}
  /\ nested' = [nested EXCEPT ![Me(c)] = 0]
  /\ UNCHANGED <<vars, registered>>

\* Slip: the routine's end is taken for a yield, and saves the routine's stack as
\* the thread's.
CompleteSaves(c) ==
  /\ Serves(c, "routine", "complete")
  /\ frame' = [frame EXCEPT ![Me(c)] = "CALL"]
  /\ UNCHANGED <<ipcOnly, pmOnly, blockedBy, call, x0, due, late, registered, laid,
                 nested, astray>>

\* Slip: the routine's end goes back to the thread it interrupted.
CompleteReturns(c) ==
  /\ Serves(c, "routine", "no")
  /\ Pm!Goto(c, "lock", "user")
  /\ x0' = [x0 EXCEPT ![Me(c)] = frame[Me(c)]]
  /\ UNCHANGED <<ipcOnly, threads, running, ready, sleep, blockedBy, stack, current,
                 listLock, sp0, proc, idx, best, pick, call, frame, due, late,
                 registered, laid, nested, astray>>

\* SYSCALL_INTERRUPT_COMPLETE goes on to pm_thread_next_get.  svc_stub has pushed a
\* context on the routine's stack; the call's result is written to it.
Complete(c) ==
  /\ Serves(c, "routine", "complete")
  /\ \E what \in {"context", "junk"} : laid' = [laid EXCEPT ![c] = what]
  /\ UNCHANGED <<vars, registered, nested, astray>>

-----------------------------------------------------------------------------
\* The window: the next thread's stack is loaded, interrupts are open, and the
\* kernel has still to pop what lies there.

OpenWindow(c) ==
  /\ Serves(c, "complete", "open")
  /\ Pm!LoadStack(c)
  /\ UNCHANGED <<ipcOnly, call, frameVars, registered, laid, nested, astray>>

CloseWindow(c) ==
  /\ Serves(c, "open", "no")
  /\ nested[Me(c)] = 0
  /\ x0' = [x0 EXCEPT ![Me(c)] = frame[Me(c)]]
  /\ UNCHANGED <<ipcOnly, pmOnly, blockedBy, call, frame, due, late,
                 registered, laid, nested, astray>>

\* irq_stub pushes the kernel's registers above the thread's frame, and the thread's
\* stack_pointer will be that of the kernel.
Nest(c) ==
  /\ Pm!TimerInterrupt(c)
  /\ nested[Me(c)] < MaxNested
  /\ nested' = [nested EXCEPT ![Me(c)] = @ + 1]
  /\ UNCHANGED <<ipcOnly, call, frameVars, registered, laid, astray>>

TimerInWindow(c) == Serves(c, "open", "no") /\ Nest(c)

InterruptInWindow(c) ==
  registered[c] # None /\ Serves(c, "open", "irq") /\ Nest(c)

\* A context of the kernel is popped and goes on, in the window again; or it ends
\* the CPU, where it needs the stack that another CPU's kernel has, or was interrupted
\* with the thread's return address loaded, which is then its own.
PopKernel(c, from) ==
  /\ Serves(c, from, "open") \/ Serves(c, from, "halted")
  /\ nested[Me(c)] > 0
  /\ nested' = [nested EXCEPT ![Me(c)] = @ - 1]
  /\ UNCHANGED <<registered, laid, astray>>

PopInWindow(c) == PopKernel(c, "open") /\ UNCHANGED vars

ResumeKernel(c) ==
  /\ late[c] = None
  /\ Pm!LoadStack(c)
  /\ PopKernel(c, "no")
  /\ UNCHANGED <<ipcOnly, call, frameVars>>

ResumeKernelAfterYield(c) ==
  /\ late[c] # None /\ phase[c] = "user"
  /\ PopKernel(c, "no")
  /\ frame' = [frame EXCEPT ![late[c]] = "OK"]
  /\ late' = [late EXCEPT ![c] = None]
  /\ UNCHANGED <<ipcOnly, pmOnly, blockedBy, call, x0, due>>

-----------------------------------------------------------------------------
\* A thread that has gone astray goes on as the routine, on the routine's stack,
\* whatever else it does.

RunsAstray(c) == Runs(c) /\ Me(c) \in astray

\* What the routine does last.  No stack pointer is stored, and the old one stays.
CompleteAstray(c) ==
  /\ RunsAstray(c)
  /\ Serves(c, "no", "complete")
  /\ Pm!TimerInterrupt(c)
  /\ UNCHANGED <<ipcOnly, call, frameVars, registered, laid, nested, astray>>

Trample(c) ==
  /\ RunsAstray(c)
  /\ \E d \in Cpu, what \in {"context", "junk"} :
       registered[d] # None /\ laid' = [laid EXCEPT ![d] = what]
  /\ UNCHANGED <<vars, registered, serving, nested, astray>>

\* It pops no context of its own, or takes the routine's from under it.
Derail(c) ==
  /\ \/ RunsAstray(c) /\ Serves(c, "no", "halted")
     \/ astray # {} /\ Serves(c, "routine", "halted")
  /\ UNCHANGED <<vars, registered, laid, nested, astray>>

-----------------------------------------------------------------------------

\* The CPU is about to pop its next thread's context.
Pops(c) == IF late[c] = None THEN phase[c] = "load" ELSE phase[c] = "user"

\* Until the routine completes the CPU runs no kernel code, and its timer is stopped.
KernelGoesOn(c) ==
  /\ \/ serving[c] = "no" /\ KernelStep(c) /\ (Pops(c) => nested[Me(c)] = 0)
     \/ serving[c] = "complete" /\ SwitchStep(c)
  /\ UNCHANGED irqVars

ThreadGoesOn(c) ==
  /\ serving[c] = "no"
  /\ UserStep(c) \/ TimerInterrupt(c)
  /\ UNCHANGED irqVars

InterruptsNext ==
  \E c \in Cpu :
    \/ ThreadGoesOn(c) \/ KernelGoesOn(c)
    \/ EnterAttach(c) \/ Attach(c)
    \/ Interrupt(c) \/ PutAside(c) \/ StartRoutine(c) \/ Halt(c)
    \/ InterruptAgain(c) \/ Complete(c)
    \/ OpenWindow(c) \/ CloseWindow(c) \/ TimerInWindow(c) \/ InterruptInWindow(c)
    \/ PopInWindow(c) \/ ResumeKernel(c) \/ ResumeKernelAfterYield(c)
    \/ CompleteAstray(c) \/ Trample(c) \/ Derail(c)

InterruptsSpec == InterruptsInit /\ [][InterruptsNext]_allVars

-----------------------------------------------------------------------------
\* Properties

\* A thread that has not gone astray finds in X0 what is due to it, though routines
\* have run on top of it, though INTERRUPT_COMPLETE (exceptions.c:100) has not saved
\* it again, and though the kernel was interrupted on its stack.
ResultSurvives ==
  \A c \in Cpu : Runs(c) /\ Me(c) \notin astray /\ Steady(Me(c)) => x0[Me(c)] = due[Me(c)]

\* An interrupt finds no lock held by the thread it stops or by its CPU, in a thread,
\* in the routine and in the window (exceptions.c:123): while a routine runs, and when
\* a CPU has halted, the others can call and schedule, and the interrupted kernel's
\* next walk does not wait for itself.
StoppedHoldsNoLock ==
  \A c \in Cpu : serving[c] \notin {"no", "complete"} =>
    /\ listLock # c
    /\ \A p \in Pipe : lock[p] # Me(c)

\* What the scheduler does, whatever stacks it takes for those of its threads, it does
\* as ProcessManager says: routines, the window and lost contexts take no thread from
\* one CPU to another, run none that is blocked and keep none from being picked
\* (aarch64_intm_handler: "this works like a context switch").
DecidesAsProcessManager == Pm!Spec
=============================================================================
