---------------------------- MODULE KernelProofs ----------------------------
(* The kernel put together, for any CPUs, threads, programs and pipes: it is a*)
(* run of the pipes and a run of the scheduler, so that what is proved of each*)
(* holds of both; no thread executes while it waits; and every call's result  *)
(* reaches the thread that made it, unless that thread yields and may run on  *)
(* several CPUs.  With the interrupts of devices the same holds of the threads *)
(* that do not go astray, and neither a routine, nor the kernel interrupted in *)
(* its window, nor a CPU that has halted keeps a lock that others need.       *)
EXTENDS Interrupts, TLAPS

IpcP == INSTANCE IpcManagerProofs
PmP  == INSTANCE ProcessManagerProofs WITH Object <- Pipe

-----------------------------------------------------------------------------
\* The two components, as Kernel and as their proofs have them.

LEMMA IpcConstants == IpcP!IpcAssumption
BY KernelAssumption

LEMMA PmConstants == PmP!PmAssumption
BY KernelAssumption DEF Pm!Processes, PmP!Processes, Pm!Booted, PmP!Booted,
                        Pm!IsFiniteSet, PmP!IsFiniteSet

LEMMA SameIpcInit == Ipc!Init => IpcP!Init
BY DEF Ipc!Init, IpcP!Init, Ipc!NoData, IpcP!NoData

LEMMA SameIpcVars == Ipc!vars = IpcP!vars
BY DEF Ipc!vars, IpcP!vars, Ipc!pipeVars, IpcP!pipeVars, Ipc!callVars, IpcP!callVars

LEMMA SameIpcCall ==
  ASSUME NEW t \in Thread
  PROVE  Ipc!Call(t) <=> IpcP!Call(t)
BY DEF Ipc!Call, Ipc!PipeWriteCall, Ipc!PipeReadCall, Ipc!Fail, Ipc!Enter, Ipc!At,
       Ipc!pipeVars, Ipc!callVars,
       IpcP!Call, IpcP!PipeWriteCall, IpcP!PipeReadCall, IpcP!Fail, IpcP!Enter, IpcP!At,
       IpcP!pipeVars, IpcP!callVars

LEMMA SameIpcStep ==
  ASSUME NEW t \in Thread
  PROVE  Ipc!Step(t) <=> IpcP!Step(t)
BY DEF Ipc!Step, Ipc!WriteLock, Ipc!ReadLock, Ipc!Acquire, Ipc!PurgeOldest, Ipc!FindRoom,
       Ipc!WriterWaits, Ipc!WriteFill, Ipc!WriteCommit, Ipc!ReaderWaits, Ipc!ReadCopy,
       Ipc!ReadAdvance, Ipc!MarkBlocked, Ipc!ReturnBlocked, Ipc!NotifyReader,
       Ipc!NotifyWriter, Ipc!ReturnOk, Ipc!Return, Ipc!At, Ipc!Goto, Ipc!IsFull,
       Ipc!IsEmpty, Ipc!IdxInc, Ipc!NoData, Ipc!Front, Ipc!Last, Ipc!pipeVars, Ipc!callVars,
       IpcP!Step, IpcP!WriteLock, IpcP!ReadLock, IpcP!Acquire, IpcP!PurgeOldest,
       IpcP!FindRoom, IpcP!WriterWaits, IpcP!WriteFill, IpcP!WriteCommit,
       IpcP!ReaderWaits, IpcP!ReadCopy, IpcP!ReadAdvance, IpcP!MarkBlocked,
       IpcP!ReturnBlocked, IpcP!NotifyReader, IpcP!NotifyWriter, IpcP!ReturnOk,
       IpcP!Return, IpcP!At, IpcP!Goto, IpcP!IsFull, IpcP!IsEmpty, IpcP!IdxInc,
       IpcP!NoData, IpcP!Front, IpcP!Last, IpcP!pipeVars, IpcP!callVars

LEMMA SameIpcNext == [Ipc!Next]_(Ipc!vars) => [IpcP!Next]_(IpcP!vars)
<1>1. CASE Ipc!Next
  <2>1. PICK t \in Thread : Ipc!Call(t) \/ Ipc!Step(t)
    BY <1>1 DEF Ipc!Next
  <2>2. IpcP!Call(t) \/ IpcP!Step(t)
    BY <2>1, SameIpcCall, SameIpcStep
  <2> QED
    BY <2>2 DEF IpcP!Next
<1>2. CASE UNCHANGED Ipc!vars
  BY <1>2 DEF Ipc!vars, IpcP!vars, Ipc!pipeVars, IpcP!pipeVars, Ipc!callVars, IpcP!callVars
<1> QED
  BY <1>1, <1>2

LEMMA SamePmInit == Pm!Init => PmP!Init
BY DEF Pm!Init, PmP!Init, Pm!Created, PmP!Created, Pm!Processes, PmP!Processes

LEMMA SamePmVars == Pm!pmVars = PmP!pmVars
BY DEF Pm!pmVars, PmP!pmVars

LEMMA SamePmSwitch ==
  ASSUME NEW c \in Cpu
  PROVE  Pm!Switch(c) <=> PmP!Switch(c)
BY DEF Pm!Switch, Pm!SaveStack, Pm!LockList, Pm!EnterProcess, Pm!VisitThread, Pm!PassThread,
       Pm!LeaveProcess, Pm!Select, Pm!LoadStack, Pm!Goto, Pm!AtThread, Pm!Eligible,
       Pm!TicksLeft, Pm!Better, Pm!Rank, Pm!threadVars, Pm!walkVars,
       PmP!Switch, PmP!SaveStack, PmP!LockList, PmP!EnterProcess, PmP!VisitThread,
       PmP!PassThread, PmP!LeaveProcess, PmP!Select, PmP!LoadStack, PmP!Goto, PmP!AtThread,
       PmP!Eligible, PmP!TicksLeft, PmP!Better, PmP!Rank, PmP!threadVars, PmP!walkVars

LEMMA SamePmCalls ==
  ASSUME NEW c \in Cpu
  PROVE  Pm!Calls(c) \/ Pm!TimerInterrupt(c) <=> PmP!Calls(c) \/ PmP!TimerInterrupt(c)
BY DEF Pm!Calls, Pm!TimerInterrupt, Pm!SystemCall, Pm!SystemReturn, Pm!Yield, Pm!SleepTicks,
       Pm!ThreadCreate, Pm!Block, Pm!BlockSwitch, Pm!Unblock, Pm!Goto, Pm!Created,
       Pm!Processes, Pm!threadVars, Pm!walkVars, Pm!Cardinality,
       PmP!Calls, PmP!TimerInterrupt, PmP!SystemCall, PmP!SystemReturn, PmP!Yield,
       PmP!SleepTicks, PmP!ThreadCreate, PmP!Block, PmP!BlockSwitch, PmP!Unblock, PmP!Goto,
       PmP!Created, PmP!Processes, PmP!threadVars, PmP!walkVars, PmP!Cardinality

LEMMA SamePmNext == [Pm!Next]_(Pm!pmVars) => [PmP!Next]_(PmP!pmVars)
<1>1. CASE Pm!Next
  <2>1. PICK c \in Cpu : Pm!TimerInterrupt(c) \/ Pm!Calls(c) \/ Pm!Switch(c)
    BY <1>1 DEF Pm!Next
  <2>2. PmP!TimerInterrupt(c) \/ PmP!Calls(c) \/ PmP!Switch(c)
    BY <2>1, SamePmSwitch, SamePmCalls
  <2> QED
    BY <2>2 DEF PmP!Next
<1>2. CASE UNCHANGED Pm!pmVars
  BY <1>2 DEF Pm!pmVars, PmP!pmVars
<1> QED
  BY <1>1, <1>2

-----------------------------------------------------------------------------
\* Every step of the kernel is one of the pipes, or leaves them alone, and one of
\* the scheduler, or leaves it alone.

PipesInv == IpcP!TypeInv /\ IpcP!LockInv /\ IpcP!WaitInv /\ IpcP!PlaceInv

SchedulerInv == PmP!IInv /\ PmP!WInv

PartsInv == PipesInv /\ SchedulerInv

LEMMA Caller ==
  ASSUME PartsInv, NEW c \in Cpu
  PROVE  /\ phase[c] \in {"svc", "blocking", "load"} => current[c] # None
         /\ current[c] # None => current[c] \in Thread
         /\ phase[c] \in {"user", "svc"} /\ current[c] # None => blockedBy[current[c]] = None
BY DEF PartsInv, SchedulerInv, PmP!IInv, PmP!TypeOK, PmP!CurrentInv, PmP!EligibleInv,
       PmP!MayRun

LEMMA Unpiped ==
  ASSUME UNCHANGED <<ipcOnly, blockedBy>>
  PROVE  UNCHANGED Ipc!vars
BY DEF ipcOnly, Ipc!vars, Ipc!pipeVars, Ipc!callVars

LEMMA EnterPipe ==
  ASSUME PartsInv, NEW c \in Cpu, EnterWrite(c) \/ EnterRead(c)
  PROVE  Ipc!Next /\ Pm!Next
<1>1. Executing(c) /\ Pm!SystemCall(c)
  BY DEF EnterWrite, EnterRead, Enter
<1>2. PICK t \in Thread : t = Me(c) /\ blockedBy[t] = None
  BY <1>1, Caller DEF Executing, Me
<1>3. Ipc!Call(t)
  <2>1. CASE EnterWrite(c)
    <3>1. PICK id \in Pipe \cup UnknownId, m \in Message : Ipc!PipeWriteCall(Me(c), id, m)
      BY <2>1 DEF EnterWrite
    <3>2. Ipc!PipeWriteCall(t, id, m)
      BY <1>2, <3>1 DEF Ipc!PipeWriteCall, Ipc!Fail, Ipc!Enter, Ipc!At
    <3> QED
      BY <1>2, <3>2 DEF Ipc!Call
  <2>2. CASE EnterRead(c)
    <3>1. PICK id \in Pipe \cup UnknownId : Ipc!PipeReadCall(Me(c), id)
      BY <2>2 DEF EnterRead
    <3>2. Ipc!PipeReadCall(t, id)
      BY <1>2, <3>1 DEF Ipc!PipeReadCall, Ipc!Fail, Ipc!Enter, Ipc!At
    <3> QED
      BY <1>2, <3>2 DEF Ipc!Call
  <2> QED
    BY <2>1, <2>2
<1> QED
  BY <1>1, <1>3 DEF Ipc!Next, Pm!Next, Pm!Calls

LEMMA PipeStepIs ==
  ASSUME NEW c \in Cpu, NEW t \in Thread, t = Me(c), PipeStep(c)
  PROVE  Ipc!Step(t)
<1>1. Ipc!WriteLock(Me(c)) => Ipc!WriteLock(t)
  BY DEF Ipc!WriteLock, Ipc!At, Ipc!Acquire, Ipc!Goto
<1>2. Ipc!PurgeOldest(Me(c)) => Ipc!PurgeOldest(t)
  BY DEF Ipc!PurgeOldest, Ipc!At, Ipc!Goto
<1>3. Ipc!FindRoom(Me(c)) => Ipc!FindRoom(t)
  BY DEF Ipc!FindRoom, Ipc!At, Ipc!Goto
<1>4. Ipc!WriterWaits(Me(c)) => Ipc!WriterWaits(t)
  BY DEF Ipc!WriterWaits, Ipc!At, Ipc!Goto
<1>5. Ipc!WriteFill(Me(c)) => Ipc!WriteFill(t)
  BY DEF Ipc!WriteFill, Ipc!At, Ipc!Goto
<1>6. Ipc!WriteCommit(Me(c)) => Ipc!WriteCommit(t)
  BY DEF Ipc!WriteCommit, Ipc!At, Ipc!Goto
<1>7. Ipc!ReadLock(Me(c)) => Ipc!ReadLock(t)
  BY DEF Ipc!ReadLock, Ipc!At, Ipc!Acquire, Ipc!Goto
<1>8. Ipc!ReaderWaits(Me(c)) => Ipc!ReaderWaits(t)
  BY DEF Ipc!ReaderWaits, Ipc!At, Ipc!Goto
<1>9. Ipc!ReadCopy(Me(c)) => Ipc!ReadCopy(t)
  BY DEF Ipc!ReadCopy, Ipc!At, Ipc!Goto
<1>10. Ipc!ReadAdvance(Me(c)) => Ipc!ReadAdvance(t)
  BY DEF Ipc!ReadAdvance, Ipc!At, Ipc!Goto
<1>11. Ipc!ReturnBlocked(Me(c)) => Ipc!ReturnBlocked(t)
  BY DEF Ipc!ReturnBlocked, Ipc!At, Ipc!Return
<1>12. Ipc!ReturnOk(Me(c)) => Ipc!ReturnOk(t)
  BY DEF Ipc!ReturnOk, Ipc!At, Ipc!Return
<1> QED
  BY <1>1, <1>2, <1>3, <1>4, <1>5, <1>6, <1>7, <1>8, <1>9, <1>10, <1>11, <1>12
     DEF PipeStep, Ipc!Step

LEMMA PipeCallParts ==
  ASSUME PartsInv, NEW c \in Cpu, PipeCall(c)
  PROVE  [Ipc!Next]_(Ipc!vars) /\ [Pm!Next]_(Pm!pmVars)
<1>1. phase[c] \in {"svc", "blocking"}
  BY DEF PipeCall, PipeStep, PipeBlock, PipeNotify, PipeReturn, InCall, PipeSwitch
<1>2. PICK t \in Thread : t = Me(c)
  BY <1>1, Caller DEF Me
<1>3. CASE PipeStep(c)
  <2>1. UNCHANGED Pm!pmVars
    BY <1>3 DEF PipeStep, pmOnly, Pm!pmVars
  <2>2. Ipc!Next
    BY <1>2, <1>3, PipeStepIs DEF Ipc!Next
  <2> QED
    BY <2>1, <2>2
<1>4. CASE PipeBlock(c)
  <2>1. Ipc!MarkBlocked(t)
    BY <1>2, <1>4 DEF PipeBlock, Ipc!MarkBlocked, Ipc!At, Ipc!Goto
  <2>2. PICK p \in Pipe : p = pipe[Me(c)]
    BY <1>2, <2>1 DEF PartsInv, PipesInv, IpcP!TypeInv, IpcP!Arguments, Ipc!MarkBlocked, Ipc!At
  <2>3. Pm!Block(c, p)
    BY <1>4, <2>2 DEF PipeBlock, Pm!Block
  <2> QED
    BY <2>1, <2>3 DEF Ipc!Next, Ipc!Step, Pm!Next, Pm!Calls
<1>5. CASE PipeNotify(c)
  <2>1. Ipc!NotifyReader(t) \/ Ipc!NotifyWriter(t)
    BY <1>2, <1>5 DEF PipeNotify, Ipc!NotifyReader, Ipc!NotifyWriter, Ipc!At
  <2>2. \E u \in Thread : Pm!Unblock(c, u)
    BY <1>5 DEF PipeNotify
  <2> QED
    BY <2>1, <2>2 DEF Ipc!Next, Ipc!Step, Pm!Next, Pm!Calls
<1>6. CASE PipeReturn(c) \/ PipeSwitch(c)
  <2>1. Pm!SystemReturn(c) \/ Pm!BlockSwitch(c)
    BY <1>6 DEF PipeReturn, PipeSwitch
  <2>2. UNCHANGED blockedBy
    BY <2>1 DEF Pm!SystemReturn, Pm!BlockSwitch, Pm!threadVars
  <2>3. UNCHANGED Ipc!vars
    BY <1>6, <2>2, Unpiped DEF PipeReturn, PipeSwitch
  <2> QED
    BY <2>1, <2>3 DEF Pm!Next, Pm!Calls
<1> QED
  BY <1>3, <1>4, <1>5, <1>6 DEF PipeCall

\* The steps that are the scheduler's alone.
LEMMA OtherParts ==
  ASSUME NEW c \in Cpu,
         EnterOther(c) \/ TimerInterrupt(c) \/ OtherCall(c) \/ SwitchStep(c) \/ Resume(c)
  PROVE  [Ipc!Next]_(Ipc!vars) /\ [Pm!Next]_(Pm!pmVars)
<1>1. CASE ResumeAfterYield(c)
  BY <1>1, Unpiped DEF ResumeAfterYield, pmOnly, Pm!pmVars
<1>2. CASE EnterOther(c)
  <2>1. Pm!SystemCall(c) /\ UNCHANGED ipcOnly
    BY <1>2 DEF EnterOther, Enter
  <2>2. UNCHANGED blockedBy
    BY <2>1 DEF Pm!SystemCall, Pm!threadVars
  <2> QED
    BY <2>1, <2>2, Unpiped DEF Pm!Next, Pm!Calls
<1>3. CASE TimerInterrupt(c)
  <2>1. Pm!TimerInterrupt(c) /\ UNCHANGED ipcOnly
    BY <1>3 DEF TimerInterrupt
  <2>2. UNCHANGED blockedBy
    BY <2>1 DEF Pm!TimerInterrupt, Pm!threadVars
  <2> QED
    BY <2>1, <2>2, Unpiped DEF Pm!Next
<1>4. CASE Sleep(c) \/ Yield(c) \/ Create(c) \/ CreateReturn(c)
  <2>1. /\ UNCHANGED ipcOnly
        /\ \/ Pm!Yield(c) \/ Pm!SystemReturn(c) \/ \E n \in SleepArg : Pm!SleepTicks(c, n)
           \/ \E t \in Thread : Pm!ThreadCreate(c, t)
    BY <1>4 DEF Sleep, Yield, Create, CreateReturn
  <2>2. UNCHANGED blockedBy
    BY <2>1 DEF Pm!Yield, Pm!SystemReturn, Pm!SleepTicks, Pm!ThreadCreate, Pm!threadVars
  <2> QED
    BY <2>1, <2>2, Unpiped DEF Pm!Next, Pm!Calls
<1>5. CASE SwitchStep(c) \/ Resume(c) \/ LoadAfterYield(c)
  <2>1. UNCHANGED ipcOnly /\ Pm!Switch(c)
    BY <1>5 DEF SwitchStep, Resume, LoadAfterYield, Pm!Switch
  <2>2. UNCHANGED blockedBy
    BY <2>1 DEF Pm!Switch, Pm!SaveStack, Pm!LockList, Pm!EnterProcess, Pm!VisitThread,
       Pm!PassThread, Pm!LeaveProcess, Pm!Select, Pm!LoadStack, Pm!threadVars
  <2> QED
    BY <2>1, <2>2, Unpiped DEF Pm!Next
<1> QED
  BY <1>1, <1>2, <1>3, <1>4, <1>5 DEF OtherCall

LEMMA StepParts ==
  ASSUME PartsInv, NEW c \in Cpu, UserStep(c) \/ TimerInterrupt(c) \/ KernelStep(c)
  PROVE  [Ipc!Next]_(Ipc!vars) /\ [Pm!Next]_(Pm!pmVars)
BY EnterPipe, PipeCallParts, OtherParts DEF UserStep, KernelStep

LEMMA NextParts ==
  ASSUME PartsInv, [Next]_vars
  PROVE  [Ipc!Next]_(Ipc!vars) /\ [Pm!Next]_(Pm!pmVars)
<1>1. CASE UNCHANGED vars
  BY <1>1 DEF vars, ipcOnly, pmOnly, Ipc!vars, Ipc!pipeVars, Ipc!callVars, Pm!pmVars
<1> QED
  BY <1>1, StepParts DEF Next

\* So the invariants of the two hold of the kernel.
LEMMA InitPartsInv == Ipc!Init /\ Pm!Init => PartsInv
BY IpcConstants, PmConstants, SameIpcInit, SamePmInit, IpcP!InitTypeInv, IpcP!InitLockInv,
   IpcP!InitWaitInv, IpcP!InitPlaceInv, PmP!InitIInv, PmP!InitWInv
   DEF PartsInv, PipesInv, SchedulerInv

LEMMA KeepsPartsInv ==
  ASSUME PartsInv, [Ipc!Next]_(Ipc!vars), [Pm!Next]_(Pm!pmVars)
  PROVE  PartsInv'
<1>1. [IpcP!Next]_(IpcP!vars) /\ [PmP!Next]_(PmP!pmVars)
  BY SameIpcNext, SamePmNext
<1>2. PipesInv'
  BY <1>1, IpcConstants, IpcP!NextTypeInv, IpcP!NextLockInv, IpcP!NextWaitInv, IpcP!NextPlaceInv
     DEF PartsInv, PipesInv
<1>3. SchedulerInv'
  BY <1>1, PmConstants, PmP!NextIInv, PmP!NextBootInv, PmP!NextIdleInv, PmP!NextScanInv
     DEF PartsInv, SchedulerInv, PmP!IInv, PmP!WInv
<1> QED
  BY <1>2, <1>3 DEF PartsInv

LEMMA NextPartsInv == PartsInv /\ [Next]_vars => PartsInv'
BY NextParts, KeepsPartsInv

LEMMA PartsInvariance == Spec => []PartsInv
BY InitPartsInv, NextPartsInv, PTL DEF Spec, Init

\* Whatever the threads call and however the CPUs interleave, the kernel does with
\* its pipes what IpcManager says: no thread calls while a pipe blocks it.
THEOREM PipesImplemented == Spec => ImplementsIpcManager
<1>1. Init => Ipc!Init
  BY DEF Init
<1>2. PartsInv /\ [Next]_vars => [Ipc!Next]_(Ipc!vars)
  BY NextParts
<1> QED
  BY <1>1, <1>2, PartsInvariance, PTL DEF Spec, ImplementsIpcManager, Ipc!Spec

\* And with its threads what ProcessManager says: a call blocks its own thread on a
\* pipe, and wakes others.
THEOREM SchedulerImplemented == Spec => ImplementsProcessManager
<1>1. Init => Pm!Init
  BY DEF Init
<1>2. PartsInv /\ [Next]_vars => [Pm!Next]_(Pm!pmVars)
  BY NextParts
<1> QED
  BY <1>1, <1>2, PartsInvariance, PTL DEF Spec, ImplementsProcessManager, Pm!Spec

LEMMA SameIpcSafety ==
  /\ IpcP!LockHeld => Ipc!LockHeld
  /\ IpcP!NoLostWakeup => Ipc!NoLostWakeup
  /\ IpcP!BlockedIffWaiting => Ipc!BlockedIffWaiting
<1>1. IpcP!LockHeld => Ipc!LockHeld
  BY DEF Ipc!LockHeld, Ipc!Locked, Ipc!Label, IpcP!LockHeld, IpcP!Locked, IpcP!Label
<1>2. IpcP!NoLostWakeup => Ipc!NoLostWakeup
  BY DEF Ipc!NoLostWakeup, Ipc!IsEmpty, Ipc!IsFull, Ipc!IdxInc,
         IpcP!NoLostWakeup, IpcP!IsEmpty, IpcP!IsFull, IpcP!IdxInc
<1>3. \A t \in Thread : IpcP!Places(t) = Ipc!Places(t)
  BY DEF Ipc!Places, Ipc!List, IpcP!Places, IpcP!List
<1>4. \A S : IpcP!Cardinality(S) = Ipc!Cardinality(S)
  BY DEF Ipc!Cardinality, IpcP!Cardinality, Ipc!IsFiniteSet, IpcP!IsFiniteSet
<1>5. IpcP!BlockedIffWaiting => Ipc!BlockedIffWaiting
  BY <1>3, <1>4 DEF Ipc!BlockedIffWaiting, IpcP!BlockedIffWaiting
<1> QED
  BY <1>1, <1>2, <1>5

LEMMA SamePmSafety ==
  /\ PmP!ExclusiveExecution => Pm!ExclusiveExecution
  /\ PmP!ContextFresh => Pm!ContextFresh
  /\ PmP!RunnersEligible => Pm!RunnersEligible
  /\ PmP!NeverNull => Pm!NeverNull
BY DEF Pm!ExclusiveExecution, Pm!ContextFresh, Pm!RunnersEligible, Pm!NeverNull,
       PmP!ExclusiveExecution, PmP!ContextFresh, PmP!RunnersEligible, PmP!NeverNull

\* So what is proved of the pipes and of the scheduler holds of the two together: the
\* threads that call the pipes are those that the CPUs run, block and run again.
THEOREM PartsSafe ==
  Spec => [](/\ Ipc!LockHeld /\ Ipc!NoLostWakeup /\ Ipc!BlockedIffWaiting
             /\ Pm!ExclusiveExecution /\ Pm!ContextFresh /\ Pm!RunnersEligible
             /\ Pm!NeverNull)
<1>1. Ipc!Spec => IpcP!Spec
  BY SameIpcInit, SameIpcNext, PTL DEF Ipc!Spec, IpcP!Spec
<1>2. Pm!Spec => PmP!Spec
  BY SamePmInit, SamePmNext, PTL DEF Pm!Spec, PmP!Spec
<1>3. IpcP!Spec => [](IpcP!LockHeld /\ IpcP!NoLostWakeup /\ IpcP!BlockedIffWaiting)
  BY IpcConstants, IpcP!LocksExclude, IpcP!NoWakeupLost, IpcP!BlockedMeansListed, PTL
<1>4. PmP!Spec => [](/\ PmP!ExclusiveExecution /\ PmP!ContextFresh /\ PmP!RunnersEligible
                     /\ PmP!NeverNull)
  BY PmConstants, PmP!Exclusive, PmP!Fresh, PmP!Fit, PmP!AlwaysFinds, PTL
<1> QED
  BY <1>1, <1>2, <1>3, <1>4, PipesImplemented, SchedulerImplemented, SameIpcSafety,
     SamePmSafety, PTL DEF ImplementsIpcManager, ImplementsProcessManager

\* And a pipe is the queue that PipeChannel describes for the threads that the scheduler
\* runs: what one of them has written whole, another reads once and in order.
THEOREM PipesAreChannels == Spec => IpcP!ImplementsChannel
<1>1. Ipc!Spec => IpcP!Spec
  BY SameIpcInit, SameIpcNext, PTL DEF Ipc!Spec, IpcP!Spec
<1>2. IpcP!Spec => IpcP!ImplementsChannel
  BY IpcConstants, IpcP!PipesAreChannels, PTL
<1> QED
  BY <1>1, <1>2, PipesImplemented, PTL DEF ImplementsIpcManager

\* And of programs that only use the pipes.
LEMMA PipesSpecIsSpec == PipesSpec => Spec
<1>1. [PipesNext]_vars => [Next]_vars
  BY DEF PipesNext, Next, UserStep, KernelStep
<1> QED
  BY <1>1, PTL DEF PipesSpec, Spec

-----------------------------------------------------------------------------
\* The glue: which CPU handles which thread's call.

FrameTypes ==
  /\ call \in [Cpu -> CallName \cup {"none"}]
  /\ frame \in [Thread -> Value] /\ x0 \in [Thread -> Value] /\ due \in [Thread -> Value]
  /\ late \in [Cpu -> Thread \cup {None}]

Handles(c, t) ==
  current[c] = t /\ phase[c] \in {"svc", "blocking"} /\ call[c] \in {"read", "write"}

\* A thread inside a pipe call has a CPU that makes it.
CallInv == \A t \in Thread : pc[t] # "user" => \E c \in Cpu : Handles(c, t)

\* A CPU's call is one of its thread's program, and no result is left to be written.
UsesInv ==
  \A c \in Cpu : phase[c] \in {"svc", "blocking"} =>
    late[c] = None /\ call[c] \in Uses[current[c]]

GlueInv == FrameTypes /\ CallInv /\ UsesInv

LEMMA Facts ==
  ASSUME PartsInv
  PROVE  /\ phase \in [Cpu -> {"user", "svc", "blocking", "save", "lock", "process", "thread",
                               "load"}]
         /\ current \in [Cpu -> Thread \cup {None}]
         /\ pc \in [Thread -> Ipc!Label] /\ ret \in [Thread -> Value]
         /\ None \notin Thread
         /\ \A c, d \in Cpu : c # d /\ current[c] # None => current[c] # current[d]
         /\ \A c \in Cpu : current[c] # None => c \in Affinity[current[c]]
         /\ \A c \in Cpu : phase[c] \in {"svc", "blocking", "load"} => current[c] # None
<1>1. None \notin Thread
  BY KernelAssumption DEF Pm!PmAssumption
<1> QED
  BY <1>1 DEF PartsInv, PipesInv, SchedulerInv, IpcP!TypeInv, IpcP!TypeOK, PmP!IInv,
     PmP!TypeOK, PmP!Phase, PmP!CurrentInv, PmP!WInv, PmP!IdleInv, IpcP!Label, Ipc!Label,
     IpcP!Result, Ipc!Result, Value

\* What a step does to the CPU that makes it decides.
LEMMA KeepsGlue ==
  ASSUME PartsInv, GlueInv, NEW c \in Cpu,
         \A d \in Cpu \ {c} : /\ phase'[d] = phase[d] /\ current'[d] = current[d]
                              /\ call'[d] = call[d] /\ late'[d] = late[d],
         \A t \in Thread : pc'[t] # "user" =>
           Handles(c, t)' \/ (pc[t] # "user" /\ ~Handles(c, t)),
         phase'[c] \in {"svc", "blocking"} =>
           late'[c] = None /\ call'[c] \in Uses[current'[c]]
  PROVE  CallInv' /\ UsesInv'
<1>1. CallInv'
  BY DEF GlueInv, CallInv, Handles
<1>2. UsesInv'
  BY DEF GlueInv, UsesInv
<1> QED
  BY <1>1, <1>2

LEMMA EnterIs ==
  ASSUME PartsInv, GlueInv, NEW c \in Cpu, NEW name \in CallName, Enter(c, name)
  PROVE  /\ Me(c) \in Thread /\ phase[c] = "user" /\ late[c] = None
         /\ phase' = [phase EXCEPT ![c] = "svc"] /\ current' = current
         /\ call' = [call EXCEPT ![c] = name] /\ name \in Uses[Me(c)]
         /\ frame' = [frame EXCEPT ![Me(c)] = "CALL"]
         /\ UNCHANGED <<x0, due, late>>
BY Facts DEF Enter, Executing, Me, Pm!SystemCall, Pm!Goto

LEMMA EnterGlue ==
  ASSUME PartsInv, GlueInv, NEW c \in Cpu, NEW name \in CallName, Enter(c, name),
         pc' = pc \/ (name \in {"read", "write"} /\ \E l : pc' = [pc EXCEPT ![Me(c)] = l])
  PROVE  GlueInv'
<1>1. FrameTypes'
  BY EnterIs DEF GlueInv, FrameTypes, Value
<1>2. \A t \in Thread : pc'[t] # "user" => Handles(c, t)' \/ (pc[t] # "user" /\ ~Handles(c, t))
  BY EnterIs, Facts DEF GlueInv, FrameTypes, Handles, Me
<1>3. CallInv' /\ UsesInv'
  BY <1>2, EnterIs, Facts, KeepsGlue DEF GlueInv, FrameTypes, Me
<1> QED
  BY <1>1, <1>3 DEF GlueInv

LEMMA UserGlue ==
  ASSUME PartsInv, GlueInv, NEW c \in Cpu, UserStep(c)
  PROVE  GlueInv'
<1>1. CASE EnterOther(c)
  <2>1. PICK name \in CallName : Enter(c, name) /\ UNCHANGED ipcOnly
    BY <1>1 DEF EnterOther, CallName
  <2> QED
    BY <2>1, EnterGlue DEF ipcOnly
<1>2. CASE EnterWrite(c) \/ EnterRead(c)
  <2>1. PICK name \in {"read", "write"} : Enter(c, name)
    BY <1>2 DEF EnterWrite, EnterRead
  <2>2. pc' = pc \/ \E l : pc' = [pc EXCEPT ![Me(c)] = l]
    BY <1>2 DEF EnterWrite, EnterRead, Ipc!PipeWriteCall, Ipc!PipeReadCall, Ipc!Fail,
       Ipc!Enter, Ipc!callVars
  <2> QED
    BY <2>1, <2>2, EnterGlue DEF CallName
<1> QED
  BY <1>1, <1>2 DEF UserStep

\* A pipe's call is handled where its thread is current.
LEMMA ServedHere ==
  ASSUME PartsInv, GlueInv, NEW c \in Cpu, Me(c) \in Thread, pc[Me(c)] # "user"
  PROVE  Handles(c, Me(c))
BY Facts DEF GlueInv, CallInv, Handles, Me

LEMMA PipeGlue ==
  ASSUME PartsInv, GlueInv, NEW c \in Cpu, PipeCall(c)
  PROVE  GlueInv'
<1>1. phase[c] \in {"svc", "blocking"} /\ Me(c) \in Thread
  BY Facts DEF PipeCall, PipeStep, PipeBlock, PipeNotify, PipeReturn, InCall, PipeSwitch, Me
<1>2. CASE PipeStep(c)
  <2>1. Handles(c, Me(c)) /\ UNCHANGED <<phase, current, call, late, frame, x0, due>>
    BY <1>1, <1>2 DEF PipeStep, pmOnly, frameVars, Handles, Me
  <2>2. \E l : pc' = [pc EXCEPT ![Me(c)] = l]
    BY <1>2 DEF PipeStep, Ipc!WriteLock, Ipc!PurgeOldest, Ipc!FindRoom, Ipc!WriterWaits,
       Ipc!WriteFill, Ipc!WriteCommit, Ipc!ReadLock, Ipc!ReaderWaits, Ipc!ReadCopy,
       Ipc!ReadAdvance, Ipc!ReturnBlocked, Ipc!ReturnOk, Ipc!Acquire, Ipc!Return, Ipc!Goto
  <2>3. \A t \in Thread : pc'[t] # "user" => Handles(c, t)' \/ (pc[t] # "user" /\ ~Handles(c, t))
    BY <2>1, <2>2, Facts DEF Handles, Me
  <2>4. FrameTypes'
    BY <2>1 DEF GlueInv, FrameTypes
  <2> QED
    BY <1>1, <2>1, <2>3, <2>4, KeepsGlue DEF GlueInv, UsesInv
<1>3. CASE PipeBlock(c)
  <2>1. /\ phase[c] = "svc" /\ phase' = [phase EXCEPT ![c] = "blocking"]
        /\ pc[Me(c)] # "user" /\ pc' = [pc EXCEPT ![Me(c)] = "blocked"]
        /\ UNCHANGED <<current, call, frame, x0, due, late>>
    BY <1>3 DEF PipeBlock, Pm!Block, Pm!Goto, Ipc!MarkBlocked, Ipc!Goto, Ipc!At, frameVars
  <2>2. Handles(c, Me(c)) /\ Handles(c, Me(c))'
    <3>1. Handles(c, Me(c))
      BY <1>1, <2>1, ServedHere
    <3> QED
      BY <1>1, <2>1, <3>1, Facts DEF Handles, Me
  <2>3. \A t \in Thread : pc'[t] # "user" => Handles(c, t)' \/ (pc[t] # "user" /\ ~Handles(c, t))
    BY <2>1, <2>2, Facts DEF Handles, Me
  <2>4. FrameTypes'
    BY <2>1 DEF GlueInv, FrameTypes
  <2> QED
    BY <1>1, <2>1, <2>3, <2>4, Facts, KeepsGlue DEF GlueInv, UsesInv
<1>4. CASE PipeNotify(c)
  <2>1. UNCHANGED <<phase, current, call, frame, x0, due, late, pc>>
    BY <1>4 DEF PipeNotify, Pm!Unblock, Ipc!NotifyReader, Ipc!NotifyWriter, Ipc!callVars,
       frameVars
  <2> QED
    BY <2>1 DEF GlueInv, FrameTypes, CallInv, UsesInv, Handles
<1>5. CASE PipeReturn(c) \/ PipeSwitch(c)
  <2>1. /\ pc[Me(c)] = "user"
        /\ \E to \in {"user", "save"} : phase' = [phase EXCEPT ![c] = to]
        /\ call' = [call EXCEPT ![c] = "none"]
        /\ frame' = [frame EXCEPT ![Me(c)] = ret[Me(c)]]
        /\ due' = [due EXCEPT ![Me(c)] = ret[Me(c)]]
        /\ x0' = x0 \/ x0' = [x0 EXCEPT ![Me(c)] = ret[Me(c)]]
        /\ UNCHANGED <<current, late, pc>>
    BY <1>5 DEF PipeReturn, PipeSwitch, Pm!SystemReturn, Pm!BlockSwitch, Pm!Goto, EndCall,
       Answer, ipcOnly
  <2>2. FrameTypes'
    BY <1>1, <2>1, Facts, ZenonT(40) DEF GlueInv, FrameTypes
  <2>3. \A t \in Thread : pc'[t] # "user" => pc[t] # "user" /\ ~Handles(c, t)
    BY <2>1, Facts DEF Handles, Me
  <2>4. phase'[c] \notin {"svc", "blocking"}
    BY <2>1, Facts
  <2> QED
    BY <2>1, <2>2, <2>3, <2>4, Facts, KeepsGlue DEF GlueInv, FrameTypes
<1> QED
  BY <1>2, <1>3, <1>4, <1>5 DEF PipeCall

LEMMA OtherGlue ==
  ASSUME PartsInv, GlueInv, NEW c \in Cpu, OtherCall(c)
  PROVE  GlueInv'
<1>1. CASE Sleep(c) \/ Yield(c) \/ Create(c) \/ CreateReturn(c)
  <2>1. /\ phase[c] = "svc" /\ call[c] \in {"sleep", "yield", "create"} /\ Me(c) \in Thread
        /\ UNCHANGED <<pc, current>>
    BY <1>1, Facts DEF Sleep, Yield, Create, CreateReturn, InCall, Pm!SleepTicks, Pm!Yield,
       Pm!ThreadCreate, Pm!SystemReturn, ipcOnly, Me
  <2>2. \/ \E to \in {"user", "save"} : phase' = [phase EXCEPT ![c] = to]
        \/ phase' = phase /\ call' = call /\ late' = late
    BY <1>1 DEF Sleep, Yield, Create, CreateReturn, Pm!SleepTicks, Pm!Yield, Pm!ThreadCreate,
       Pm!SystemReturn, Pm!Goto
  <2>3. /\ call' = call \/ call' = [call EXCEPT ![c] = "none"]
        /\ late' = late \/ late' = [late EXCEPT ![c] = Me(c)]
    BY <1>1 DEF Sleep, Yield, Create, CreateReturn, EndCall
  <2>4. frame' \in [Thread -> Value] /\ x0' \in [Thread -> Value] /\ due' \in [Thread -> Value]
    <3>1. {"OK", "ERROR"} \subseteq Value
      BY DEF Value, Ipc!Result
    <3> QED
      BY <1>1, <2>1, <3>1 DEF Sleep, Yield, Create, CreateReturn, Answer, GlueInv, FrameTypes
  <2>5. FrameTypes'
    BY <2>1, <2>3, <2>4 DEF GlueInv, FrameTypes
  <2>6. \A t \in Thread : pc'[t] # "user" => pc[t] # "user" /\ ~Handles(c, t)
    BY <2>1 DEF Handles
  <2>7. phase'[c] \in {"svc", "blocking"} =>
          late'[c] = None /\ call'[c] \in Uses[current'[c]]
    BY <2>1, <2>2, Facts DEF GlueInv, UsesInv
  <2>8. \A d \in Cpu \ {c} : /\ phase'[d] = phase[d] /\ current'[d] = current[d]
                              /\ call'[d] = call[d] /\ late'[d] = late[d]
    BY <2>1, <2>2, <2>3, Facts DEF GlueInv, FrameTypes
  <2> QED
    BY <2>5, <2>6, <2>7, <2>8, KeepsGlue DEF GlueInv
<1>2. CASE LoadAfterYield(c) \/ ResumeAfterYield(c)
  <2>1. /\ phase[c] \in {"load", "user"} /\ late[c] # None
        /\ phase' = phase \/ phase' = [phase EXCEPT ![c] = "user"]
        /\ late' = late \/ late' = [late EXCEPT ![c] = None]
        /\ UNCHANGED <<pc, current, call, due>>
    BY <1>2 DEF LoadAfterYield, ResumeAfterYield, Pm!LoadStack, Pm!Goto, ipcOnly, pmOnly,
       frameVars
  <2>2. late[c] \in Thread
    BY <2>1 DEF GlueInv, FrameTypes
  <2>3. frame' \in [Thread -> Value] /\ x0' \in [Thread -> Value]
    <3>1. CASE LoadAfterYield(c)
      BY <3>1 DEF LoadAfterYield, frameVars, GlueInv, FrameTypes
    <3>2. CASE ResumeAfterYield(c)
      <4>1. frame' \in [Thread -> Value]
        BY <2>2, <3>2 DEF ResumeAfterYield, GlueInv, FrameTypes, Value, Ipc!Result
      <4>2. x0' = [x0 EXCEPT ![current[c]] = frame'[current[c]]]
        BY <3>2 DEF ResumeAfterYield, Me
      <4> QED
        BY <4>1, <4>2, Facts DEF GlueInv, FrameTypes
    <3> QED
      BY <1>2, <3>1, <3>2
  <2>4. FrameTypes'
    BY <2>1, <2>3 DEF GlueInv, FrameTypes
  <2>5. \A t \in Thread : pc'[t] # "user" => pc[t] # "user" /\ ~Handles(c, t)
    BY <2>1 DEF Handles
  <2>6. phase'[c] \notin {"svc", "blocking"}
    BY <2>1, Facts
  <2>7. \A d \in Cpu \ {c} : /\ phase'[d] = phase[d] /\ current'[d] = current[d]
                              /\ call'[d] = call[d] /\ late'[d] = late[d]
    BY <2>1, Facts DEF GlueInv, FrameTypes
  <2> QED
    BY <2>4, <2>5, <2>6, <2>7, KeepsGlue DEF GlueInv
<1> QED
  BY <1>1, <1>2 DEF OtherCall

LEMMA SwitchIs ==
  ASSUME PartsInv, NEW c \in Cpu, SwitchStep(c)
  PROVE  /\ phase[c] \in {"save", "lock", "process", "thread"}
         /\ phase'[c] \in {"lock", "process", "thread", "load"}
         /\ \A d \in Cpu \ {c} : phase'[d] = phase[d] /\ current'[d] = current[d]
         /\ UNCHANGED <<pc, call, frame, x0, due, late>>
BY Facts DEF SwitchStep, Pm!SaveStack, Pm!LockList, Pm!EnterProcess, Pm!VisitThread,
   Pm!PassThread, Pm!AtThread, Pm!LeaveProcess, Pm!Select, Pm!Goto, ipcOnly, frameVars

LEMMA SwitchGlue ==
  ASSUME PartsInv, GlueInv, NEW c \in Cpu, TimerInterrupt(c) \/ SwitchStep(c) \/ Resume(c)
  PROVE  GlueInv'
<1>1. /\ phase[c] \notin {"svc", "blocking"} /\ phase'[c] \notin {"svc", "blocking"}
      /\ \A d \in Cpu \ {c} : phase'[d] = phase[d] /\ current'[d] = current[d]
      /\ UNCHANGED <<pc, call, due, late>>
  <2>1. CASE SwitchStep(c)
    BY <2>1, SwitchIs
  <2>2. CASE TimerInterrupt(c) \/ Resume(c)
    BY <2>2, Facts DEF TimerInterrupt, Resume, Pm!TimerInterrupt, Pm!LoadStack, Pm!Goto, ipcOnly
  <2> QED
    BY <2>1, <2>2
<1>2. frame' \in [Thread -> Value] /\ x0' \in [Thread -> Value]
  <2>1. CASE SwitchStep(c)
    BY <2>1, SwitchIs DEF GlueInv, FrameTypes
  <2>2. CASE TimerInterrupt(c) \/ Resume(c)
    BY <2>2 DEF TimerInterrupt, Resume, GlueInv, FrameTypes
  <2> QED
    BY <2>1, <2>2
<1>3. FrameTypes'
  BY <1>1, <1>2 DEF GlueInv, FrameTypes
<1>4. \A t \in Thread : pc'[t] # "user" => pc[t] # "user" /\ ~Handles(c, t)
  BY <1>1 DEF Handles
<1> QED
  BY <1>1, <1>3, <1>4, KeepsGlue DEF GlueInv

LEMMA StepGlue ==
  ASSUME PartsInv, GlueInv, NEW c \in Cpu, UserStep(c) \/ TimerInterrupt(c) \/ KernelStep(c)
  PROVE  GlueInv'
BY UserGlue, PipeGlue, OtherGlue, SwitchGlue DEF KernelStep

LEMMA SameGlue == GlueInv /\ UNCHANGED vars => GlueInv'
BY DEF GlueInv, FrameTypes, CallInv, UsesInv, Handles, vars, ipcOnly, pmOnly, frameVars

LEMMA InitGlue == Init => GlueInv
BY DEF Init, GlueInv, FrameTypes, CallInv, UsesInv, Ipc!Init, Pm!Init, Value

LEMMA GlueInvariance == Spec => [](PartsInv /\ GlueInv)
<1>1. PartsInv /\ GlueInv /\ [Next]_vars => GlueInv'
  BY StepGlue, SameGlue DEF Next
<1>2. Init => PartsInv
  BY InitPartsInv DEF Init
<1> QED
  BY <1>1, <1>2, InitGlue, NextPartsInv, PTL DEF Spec

\* Frames and registers hold results or arguments, calls are calls: the state is well typed.
THEOREM TypeCorrect == Spec => []TypeOK
<1>1. IpcP!TypeOK => Ipc!TypeOK
  BY DEF Ipc!TypeOK, Ipc!Slot, Ipc!Label, Ipc!Result, IpcP!TypeOK, IpcP!Slot, IpcP!Label,
         IpcP!Result
<1>2. PmP!TypeOK => Pm!TypeOK
  BY DEF Pm!TypeOK, Pm!Phase, Pm!Processes, PmP!TypeOK, PmP!Phase, PmP!Processes
<1>3. PartsInv /\ GlueInv => TypeOK
  BY <1>1, <1>2 DEF PartsInv, PipesInv, SchedulerInv, IpcP!TypeInv, PmP!IInv, GlueInv,
     FrameTypes, TypeOK
<1> QED
  BY <1>3, GlueInvariance, PTL

LEMMA WaitersDoNotExecute == PartsInv /\ GlueInv => ExecutingWaitsNowhere
<1> SUFFICES ASSUME PartsInv, GlueInv, NEW c \in Cpu, Executing(c)
             PROVE  /\ blockedBy[Me(c)] = None
                    /\ \A p \in Pipe : Me(c) \notin Ipc!ToSet(readers[p]) \cup Ipc!ToSet(writers[p])
  BY DEF ExecutingWaitsNowhere
<1> DEFINE t == Me(c)
<1>1. t \in Thread /\ blockedBy[t] = None
  BY Caller DEF Executing, Me
<1>2. pc[t] = "user"
  BY <1>1, ServedHere DEF Executing, Handles
<1>3. ASSUME NEW p \in Pipe
      PROVE  t \notin Ipc!ToSet(readers[p]) \cup Ipc!ToSet(writers[p])
  <2>1. p # None
    BY KernelAssumption DEF Ipc!IpcAssumption
  <2>2. \A e \in {"reader", "writer"}, i \in Nat : ~IpcP!Waits(t, p, e, i)
    BY <1>1, <1>2, <2>1 DEF PartsInv, PipesInv, IpcP!PlaceInv, IpcP!Side, IpcP!Blocking
  <2>3. readers[p] \in Seq(Thread) /\ writers[p] \in Seq(Thread)
    BY DEF PartsInv, PipesInv, IpcP!TypeInv, IpcP!TypeOK
  <2>4. /\ \A i \in 1..Len(readers[p]) : readers[p][i] # t
        /\ \A i \in 1..Len(writers[p]) : writers[p][i] # t
    BY <2>2, <2>3 DEF IpcP!Waits, IpcP!List
  <2> QED
    BY <2>3, <2>4 DEF Ipc!ToSet
<1> QED
  BY <1>1, <1>3

\* A thread that executes is not blocked and waits in no pipe's list, though the pipe's
\* lock is released, and other CPUs notify the list, before the CPU that it blocks on
\* has switched.
THEOREM ExecutingIsOnNoList == Spec => []ExecutingWaitsNowhere
BY GlueInvariance, WaitersDoNotExecute, PTL

-----------------------------------------------------------------------------
\* Results: those due to the threads in A, all of them steady.  The CPUs in W are
\* in the window, or have halted there: their thread is loaded and does not execute.

Delivered(A, W) ==
  \A c \in Cpu : c \notin W /\ Executing(c) /\ Me(c) \in A => x0[Me(c)] = due[Me(c)]

\* c executes t, or handles its call.
Busy(W, c, t) ==
  /\ current[c] = t
  /\ phase[c] \in {"svc", "blocking"} \/ (phase[c] = "user" /\ late[c] = None /\ c \notin W)

\* What a thread that is neither executed nor owed a result finds in its frame.
FrameInv(A, W) ==
  \A t \in A : (\A c \in Cpu : ~Busy(W, c, t) /\ late[c] # t) => frame[t] = due[t]

\* A create call writes its result while it still is in the kernel.
CreateInv(A) ==
  \A c \in Cpu : InCall(c, "create") /\ Me(c) \in A /\ frame[Me(c)] # "CALL" =>
    frame[Me(c)] = due[Me(c)]

\* A steady thread is owed a result by the only CPU that may run it.
LateInv(A) ==
  \A c \in Cpu : late[c] \in A => due[late[c]] = "OK" /\ Affinity[late[c]] = {c}

DeliverInv(A, W) == Delivered(A, W) /\ FrameInv(A, W) /\ CreateInv(A) /\ LateInv(A)

SteadyThreads == {t \in Thread : Steady(t)}

KInv == PartsInv /\ GlueInv

\* A CPU that handles a thread is the only one, and it owes nobody a result.
LEMMA Alone ==
  ASSUME KInv, NEW A \in SUBSET SteadyThreads, NEW W \in SUBSET Cpu, DeliverInv(A, W),
         NEW c \in Cpu, current[c] # None
  PROVE  /\ Me(c) \in Thread
         /\ \A d \in Cpu \ {c} : current[d] # Me(c)
         /\ Me(c) \in A => \A d \in Cpu \ {c} : late[d] # Me(c)
         /\ phase[c] \in {"svc", "blocking"} => late[c] = None
<1>1. Me(c) \in Thread /\ c \in Affinity[Me(c)]
  BY Facts DEF KInv, Me
<1>2. \A d \in Cpu \ {c} : current[d] # Me(c)
  BY Facts DEF KInv, Me
<1>3. Me(c) \in A => \A d \in Cpu \ {c} : late[d] # Me(c)
  BY <1>1, Facts DEF KInv, DeliverInv, LateInv
<1> QED
  BY <1>1, <1>2, <1>3 DEF KInv, GlueInv, UsesInv

\* A step in which c writes its own thread's frame, register and due, and no other's.
LEMMA OwnFrame ==
  ASSUME KInv, NEW A \in SUBSET SteadyThreads, NEW W \in SUBSET Cpu, DeliverInv(A, W),
         NEW c \in Cpu \ W, current[c] # None,
         phase[c] \in {"svc", "blocking"} \/ Executing(c),
         current' = current, \A d \in Cpu \ {c} : phase'[d] = phase[d] /\ call'[d] = call[d],
         \A t \in Thread \ {Me(c)} : frame'[t] = frame[t] /\ x0'[t] = x0[t] /\ due'[t] = due[t],
         \/ /\ late' = late
            /\ Executing(c)' /\ Me(c) \in A => x0'[Me(c)] = due'[Me(c)]
            /\ phase'[c] = "save" => frame'[Me(c)] = due'[Me(c)]
            /\ phase'[c] \in {"user", "svc", "blocking", "save"}
         \/ /\ late' = [late EXCEPT ![c] = Me(c)]
            /\ due'[Me(c)] = "OK" /\ phase'[c] = "save"
            /\ Me(c) \in A => Affinity[Me(c)] = {c},
         InCall(c, "create")' /\ Me(c) \in A /\ frame'[Me(c)] # "CALL" =>
           frame'[Me(c)] = due'[Me(c)]
  PROVE  DeliverInv(A, W)'
<1> DEFINE t == Me(c)
<1>1. /\ t \in Thread /\ t = current[c] /\ late[c] = None /\ Me(c)' = t
      /\ \A d \in Cpu \ {c} : current[d] # t
      /\ t \in A => \A d \in Cpu \ {c} : late[d] # t
  BY Alone DEF Executing, Me
<1>2. late \in [Cpu -> Thread \cup {None}] /\ None \notin Thread /\ A \subseteq Thread
  BY Facts DEF KInv, GlueInv, FrameTypes, SteadyThreads
<1>3. \A d \in Cpu \ {c} : late'[d] = late[d] /\ Me(d)' = Me(d)
  BY <1>2 DEF Me
<1>4. Delivered(A, W)'
  BY <1>1, <1>2, <1>3, Facts DEF KInv, DeliverInv, Delivered, Executing, Me
<1>5. LateInv(A)'
  BY <1>1, <1>2, <1>3 DEF DeliverInv, LateInv
<1>6. CreateInv(A)'
  BY <1>1, <1>2, <1>3, Facts DEF KInv, DeliverInv, CreateInv, InCall, Me
<1>7. FrameInv(A, W)'
  <2> SUFFICES ASSUME NEW u \in A, \A d \in Cpu : ~Busy(W, d, u)' /\ late'[d] # u
               PROVE  frame'[u] = due'[u]
    BY DEF FrameInv
  <2>1. CASE u = t
    <3>1. late' = late /\ late'[c] = None
      BY <1>1, <1>2, <2>1
    <3>2. phase'[c] = "save"
      BY <1>1, <2>1, <3>1 DEF Busy
    <3> QED
      BY <1>1, <1>2, <2>1, <3>1, <3>2
  <2>2. CASE u # t
    <3>1. \A d \in Cpu : ~Busy(W, d, u) /\ late[d] # u
      BY <1>1, <1>2, <1>3, <2>2 DEF Busy
    <3> QED
      BY <1>2, <2>2, <3>1 DEF DeliverInv, FrameInv
  <2> QED
    BY <2>1, <2>2
<1> QED
  BY <1>4, <1>5, <1>6, <1>7 DEF DeliverInv

LEMMA EnterDelivers ==
  ASSUME KInv, NEW A \in SUBSET SteadyThreads, NEW W \in SUBSET Cpu, DeliverInv(A, W),
         NEW c \in Cpu \ W, NEW name \in CallName, Enter(c, name)
  PROVE  DeliverInv(A, W)'
<1>1. Executing(c) /\ current[c] # None
  BY DEF Enter, Executing
<1>2. /\ Me(c) \in Thread /\ phase' = [phase EXCEPT ![c] = "svc"] /\ current' = current
      /\ call' = [call EXCEPT ![c] = name] /\ frame' = [frame EXCEPT ![Me(c)] = "CALL"]
      /\ UNCHANGED <<x0, due, late>>
  BY EnterIs DEF KInv
<1>3. phase'[c] = "svc" /\ frame'[Me(c)] = "CALL"
  BY <1>2, Facts DEF KInv, GlueInv, FrameTypes
<1>4. \A t \in Thread \ {Me(c)} : frame'[t] = frame[t]
  BY <1>2 DEF KInv, GlueInv, FrameTypes
<1>5. ~Executing(c)'
  BY <1>3 DEF Executing
<1> QED
  BY <1>1, <1>2, <1>3, <1>4, <1>5, OwnFrame DEF KInv

LEMMA PipeDelivers ==
  ASSUME KInv, NEW A \in SUBSET SteadyThreads, NEW W \in SUBSET Cpu, DeliverInv(A, W),
         NEW c \in Cpu \ W, PipeCall(c)
  PROVE  DeliverInv(A, W)'
<1>1. /\ phase[c] \in {"svc", "blocking"} /\ current[c] # None /\ Me(c) \in Thread
      /\ current' = current
  <2>1. phase[c] \in {"svc", "blocking"} /\ current' = current
    BY DEF PipeCall, PipeStep, PipeBlock, PipeNotify, PipeReturn, InCall, PipeSwitch, pmOnly,
       Pm!Block, Pm!Unblock, Pm!SystemReturn, Pm!BlockSwitch
  <2> QED
    BY <2>1, Facts DEF KInv, Me
<1>2. CASE PipeStep(c) \/ PipeBlock(c) \/ PipeNotify(c)
  <2>1. phase' = phase \/ phase' = [phase EXCEPT ![c] = "blocking"]
    BY <1>2 DEF PipeStep, PipeBlock, PipeNotify, pmOnly, Pm!Block, Pm!Unblock, Pm!Goto
  <2>2. UNCHANGED <<call, frame, x0, due, late>>
    BY <1>2 DEF PipeStep, PipeBlock, PipeNotify, frameVars
  <2>3. phase'[c] \in {"svc", "blocking"} /\ \A d \in Cpu \ {c} : phase'[d] = phase[d]
    BY <1>1, <2>1, Facts DEF KInv
  <2>4. InCall(c, "create")' => InCall(c, "create")
    BY <1>1, <2>1, <2>2, Facts DEF KInv, InCall
  <2>5. ~Executing(c)'
    BY <2>3 DEF Executing
  <2> QED
    BY <1>1, <2>2, <2>3, <2>4, <2>5, OwnFrame DEF DeliverInv, CreateInv
<1>3. CASE PipeReturn(c) \/ PipeSwitch(c)
  <2>1. /\ call' = [call EXCEPT ![c] = "none"]
        /\ frame' = [frame EXCEPT ![Me(c)] = ret[Me(c)]]
        /\ due' = [due EXCEPT ![Me(c)] = ret[Me(c)]]
        /\ \/ phase' = [phase EXCEPT ![c] = "user"] /\ x0' = [x0 EXCEPT ![Me(c)] = ret[Me(c)]]
           \/ phase' = [phase EXCEPT ![c] = "save"] /\ x0' = x0
        /\ late' = late
    BY <1>3 DEF PipeReturn, PipeSwitch, Pm!SystemReturn, Pm!BlockSwitch, Pm!Goto, EndCall, Answer
  <2>2. /\ frame'[Me(c)] = due'[Me(c)] /\ phase'[c] \in {"user", "save"}
        /\ phase'[c] = "user" => x0'[Me(c)] = due'[Me(c)]
        /\ \A d \in Cpu \ {c} : phase'[d] = phase[d] /\ call'[d] = call[d]
        /\ \A t \in Thread \ {Me(c)} :
             frame'[t] = frame[t] /\ x0'[t] = x0[t] /\ due'[t] = due[t]
    BY <1>1, <2>1, Facts DEF KInv, GlueInv, FrameTypes
  <2> QED
    BY <1>1, <2>1, <2>2, OwnFrame DEF Executing
<1> QED
  BY <1>2, <1>3 DEF PipeCall

LEMMA CallDelivers ==
  ASSUME KInv, NEW A \in SUBSET SteadyThreads, NEW W \in SUBSET Cpu, DeliverInv(A, W),
         NEW c \in Cpu \ W, Sleep(c) \/ Yield(c) \/ Create(c) \/ CreateReturn(c)
  PROVE  DeliverInv(A, W)'
<1>1. /\ phase[c] = "svc" /\ current[c] # None /\ Me(c) \in Thread /\ current' = current
      /\ call[c] \in Uses[Me(c)] /\ c \in Affinity[Me(c)]
  <2>1. phase[c] = "svc" /\ current' = current
    BY DEF Sleep, Yield, Create, CreateReturn, InCall, Pm!SleepTicks, Pm!Yield,
       Pm!ThreadCreate, Pm!SystemReturn
  <2> QED
    BY <2>1, Facts DEF KInv, GlueInv, UsesInv, Me
<1>2. CASE Sleep(c)
  <2>1. PICK n \in SleepArg :
          Pm!SleepTicks(c, n) /\ Answer(Me(c), IF n = 0 THEN "ERROR" ELSE "OK")
    BY <1>2 DEF Sleep
  <2>2. /\ phase'[c] = "save" /\ frame'[Me(c)] = due'[Me(c)] /\ UNCHANGED <<x0, late>>
        /\ \A d \in Cpu \ {c} : phase'[d] = phase[d] /\ call'[d] = call[d]
        /\ \A t \in Thread \ {Me(c)} : frame'[t] = frame[t] /\ due'[t] = due[t]
    BY <1>1, <1>2, <2>1, Facts
       DEF Sleep, Pm!SleepTicks, Pm!Goto, Answer, EndCall, KInv, GlueInv, FrameTypes
  <2> QED
    BY <1>1, <2>2, OwnFrame DEF Executing, InCall
<1>3. CASE Yield(c)
  <2>1. /\ phase'[c] = "save" /\ UNCHANGED <<frame, x0>> /\ due'[Me(c)] = "OK"
        /\ late' = [late EXCEPT ![c] = Me(c)]
        /\ \A d \in Cpu \ {c} : phase'[d] = phase[d] /\ call'[d] = call[d]
        /\ \A t \in Thread \ {Me(c)} : due'[t] = due[t]
    BY <1>1, <1>3, Facts DEF Yield, Pm!Yield, Pm!Goto, EndCall, KInv, GlueInv, FrameTypes
  <2>2. Me(c) \in A => Affinity[Me(c)] = {c}
    BY <1>1, <1>3 DEF Yield, InCall, SteadyThreads, Steady
  <2> QED
    BY <1>1, <2>1, <2>2, OwnFrame DEF InCall
<1>4. CASE Create(c)
  <2>1. /\ UNCHANGED <<phase, call, x0, late>> /\ frame'[Me(c)] = due'[Me(c)]
        /\ \A t \in Thread \ {Me(c)} : frame'[t] = frame[t] /\ due'[t] = due[t]
    BY <1>1, <1>4 DEF Create, Pm!ThreadCreate, Answer, KInv, GlueInv, FrameTypes
  <2> QED
    BY <1>1, <2>1, OwnFrame DEF Executing
<1>5. CASE CreateReturn(c)
  <2>1. /\ phase'[c] = "user" /\ UNCHANGED <<frame, due, late>>
        /\ x0'[Me(c)] = frame[Me(c)] /\ \A t \in Thread \ {Me(c)} : x0'[t] = x0[t]
        /\ \A d \in Cpu \ {c} : phase'[d] = phase[d] /\ call'[d] = call[d]
    BY <1>1, <1>5, Facts
       DEF CreateReturn, Pm!SystemReturn, Pm!Goto, EndCall, KInv, GlueInv, FrameTypes
  <2>2. Me(c) \in A => frame[Me(c)] = due[Me(c)]
    BY <1>5 DEF CreateReturn, DeliverInv, CreateInv
  <2> QED
    BY <1>1, <2>1, <2>2, OwnFrame DEF Executing, InCall
<1> QED
  BY <1>2, <1>3, <1>4, <1>5

\* The thread that c is about to resume finds its result in its frame.
LEMMA FrameIsDue ==
  ASSUME KInv, NEW A \in SUBSET SteadyThreads, NEW W \in SUBSET Cpu, DeliverInv(A, W),
         NEW c \in Cpu, current[c] # None, Me(c) \in A, late[c] # Me(c),
         \/ phase[c] = "load"
         \/ phase[c] = "user" /\ (late[c] # None \/ c \in W)
  PROVE  frame[Me(c)] = due[Me(c)]
<1>1. \A d \in Cpu \ {c} : current[d] # Me(c) /\ late[d] # Me(c)
  BY Alone
<1>2. \A d \in Cpu : ~Busy(W, d, Me(c)) /\ late[d] # Me(c)
  BY <1>1 DEF Busy
<1> QED
  BY <1>2 DEF DeliverInv, FrameInv

\* A step of c to or from a phase in which it neither executes nor handles a call,
\* that writes no frame.
LEMMA IdleDelivers ==
  ASSUME KInv, NEW A \in SUBSET SteadyThreads, NEW W \in SUBSET Cpu, NEW V \in SUBSET Cpu,
         DeliverInv(A, W), NEW c \in Cpu, \A d \in Cpu \ {c} : d \in V <=> d \in W,
         \/ phase[c] \notin {"user", "svc", "blocking"}
         \/ phase[c] = "user" /\ (c \in W \/ late[c] # None),
         \/ phase'[c] \notin {"user", "svc", "blocking"}
         \/ phase'[c] = "user" /\ (c \in V \/ late[c] # None),
         \A d \in Cpu \ {c} : phase'[d] = phase[d] /\ current'[d] = current[d],
         UNCHANGED <<call, frame, x0, due, late>>
  PROVE  DeliverInv(A, V)'
<1>1. Delivered(A, V)'
  BY DEF DeliverInv, Delivered, Executing, Me
<1>2. FrameInv(A, V)'
  BY DEF DeliverInv, FrameInv, Busy
<1>3. CreateInv(A)'
  BY DEF DeliverInv, CreateInv, InCall, Me
<1>4. LateInv(A)'
  BY DEF DeliverInv, LateInv
<1> QED
  BY <1>1, <1>2, <1>3, <1>4 DEF DeliverInv

LEMMA SwitchDelivers ==
  ASSUME KInv, NEW A \in SUBSET SteadyThreads, NEW W \in SUBSET Cpu, DeliverInv(A, W),
         NEW c \in Cpu, SwitchStep(c)
  PROVE  DeliverInv(A, W)'
<1>1. /\ phase[c] \in {"save", "lock", "process", "thread"}
      /\ phase'[c] \in {"lock", "process", "thread", "load"}
      /\ \A d \in Cpu \ {c} : phase'[d] = phase[d] /\ current'[d] = current[d]
      /\ UNCHANGED <<call, frame, x0, due, late>>
  BY SwitchIs DEF KInv
<1> QED
  BY <1>1, IdleDelivers

LEMMA TimerDelivers ==
  ASSUME KInv, NEW A \in SUBSET SteadyThreads, NEW W \in SUBSET Cpu, DeliverInv(A, W),
         NEW c \in Cpu \ W, TimerInterrupt(c)
  PROVE  DeliverInv(A, W)'
<1>1. /\ phase[c] = "user" /\ phase'[c] = "save" /\ late[c] = None
      /\ \A d \in Cpu \ {c} : phase'[d] = phase[d]
      /\ frame' = [t \in Thread |-> IF t = Me(c) THEN x0[t] ELSE frame[t]]
      /\ UNCHANGED <<current, call, x0, due, late>>
  BY Facts DEF KInv, TimerInterrupt, Pm!TimerInterrupt, Pm!Goto
<1>0. A \subseteq Thread
  BY DEF SteadyThreads
<1>2. Delivered(A, W)'
  BY <1>1 DEF DeliverInv, Delivered, Executing, Me
<1>3. FrameInv(A, W)'
  <2> SUFFICES ASSUME NEW t \in A, \A d \in Cpu : ~Busy(W, d, t)' /\ late'[d] # t
               PROVE  frame'[t] = due'[t]
    BY DEF FrameInv
  <2>1. CASE t = Me(c)
    BY <1>0, <1>1, <2>1, Facts DEF KInv, DeliverInv, Delivered, Executing, Me
  <2>2. CASE t # Me(c)
    BY <1>0, <1>1, <2>2 DEF DeliverInv, FrameInv, Busy, Me
  <2> QED
    BY <2>1, <2>2
<1>4. CreateInv(A)'
  <2> SUFFICES ASSUME NEW d \in Cpu, InCall(d, "create")', Me(d)' \in A, frame'[Me(d)'] # "CALL"
               PROVE  frame'[Me(d)'] = due'[Me(d)']
    BY DEF CreateInv
  <2>1. d # c /\ InCall(d, "create") /\ Me(d)' = Me(d) /\ current[d] # None
    BY <1>1, Facts DEF KInv, InCall, Me
  <2>2. Me(d) \in Thread /\ Me(d) # Me(c)
    BY <2>1, Facts DEF KInv, Me
  <2> QED
    BY <1>1, <2>1, <2>2 DEF DeliverInv, CreateInv
<1>5. LateInv(A)'
  BY <1>1 DEF DeliverInv, LateInv
<1> QED
  BY <1>2, <1>3, <1>4, <1>5 DEF DeliverInv

\* A loaded thread's frame is popped, by Resume or at the end of the window.
LEMMA PopDelivers ==
  ASSUME KInv, NEW A \in SUBSET SteadyThreads, NEW W \in SUBSET Cpu, NEW V \in SUBSET Cpu,
         DeliverInv(A, W), NEW c \in Cpu, current[c] # None, late[c] = None,
         \A d \in Cpu \ {c} : d \in V <=> d \in W,
         phase[c] = "load" \/ (phase[c] = "user" /\ c \in W),
         phase'[c] = "user", \A d \in Cpu \ {c} : phase'[d] = phase[d],
         x0' = [x0 EXCEPT ![Me(c)] = frame[Me(c)]],
         UNCHANGED <<current, call, frame, due, late>>
  PROVE  DeliverInv(A, V)'
<1>0. A \subseteq Thread /\ Me(c) \in Thread /\ None \notin Thread
  BY Facts DEF KInv, Me, SteadyThreads
<1>1. Me(c) \in A => frame[Me(c)] = due[Me(c)]
  BY <1>0, FrameIsDue
<1>2. /\ Me(c) \in A => x0'[Me(c)] = due[Me(c)]
      /\ \A t \in Thread \ {Me(c)} : x0'[t] = x0[t]
  BY <1>0, <1>1 DEF KInv, GlueInv, FrameTypes
<1>3. Delivered(A, V)'
  <2> SUFFICES ASSUME NEW d \in Cpu, d \notin V, Executing(d)', Me(d) \in A
               PROVE  x0'[Me(d)] = due[Me(d)]
    BY DEF Delivered, Me
  <2>1. CASE d = c
    BY <1>2, <2>1
  <2>2. CASE d # c
    <3>1. Me(d) # Me(c)
      BY <2>2, Alone DEF Me
    <3> QED
      BY <1>0, <1>2, <2>2, <3>1 DEF DeliverInv, Delivered, Executing, Me
  <2> QED
    BY <2>1, <2>2
<1>4. FrameInv(A, V)'
  <2> SUFFICES ASSUME NEW t \in A, \A d \in Cpu : ~Busy(V, d, t)' /\ late'[d] # t
               PROVE  frame[t] = due[t]
    BY DEF FrameInv
  <2>1. \A d \in Cpu : ~Busy(W, d, t) /\ late[d] # t
    BY DEF Busy
  <2> QED
    BY <2>1 DEF DeliverInv, FrameInv
<1>5. CreateInv(A)' /\ LateInv(A)'
  BY DEF DeliverInv, CreateInv, LateInv, InCall, Me
<1> QED
  BY <1>3, <1>4, <1>5 DEF DeliverInv

LEMMA ResumeDelivers ==
  ASSUME KInv, NEW A \in SUBSET SteadyThreads, NEW W \in SUBSET Cpu, DeliverInv(A, W),
         NEW c \in Cpu, Resume(c)
  PROVE  DeliverInv(A, W)'
<1>1. /\ phase[c] = "load" /\ phase'[c] = "user" /\ late[c] = None /\ current[c] # None
      /\ \A d \in Cpu \ {c} : phase'[d] = phase[d]
      /\ x0' = [x0 EXCEPT ![Me(c)] = frame[Me(c)]]
      /\ UNCHANGED <<current, call, frame, due, late>>
  BY Facts DEF KInv, Resume, Pm!LoadStack, Pm!Goto, Me
<1> QED
  BY <1>1, PopDelivers

LEMMA LoadAfterYieldDelivers ==
  ASSUME KInv, NEW A \in SUBSET SteadyThreads, NEW W \in SUBSET Cpu, DeliverInv(A, W),
         NEW c \in Cpu, LoadAfterYield(c)
  PROVE  DeliverInv(A, W)'
<1>1. /\ phase[c] = "load" /\ phase'[c] = "user" /\ late[c] # None
      /\ \A d \in Cpu \ {c} : phase'[d] = phase[d]
      /\ UNCHANGED <<current, call, frame, x0, due, late>>
  BY Facts DEF KInv, LoadAfterYield, Pm!LoadStack, Pm!Goto, frameVars
<1> QED
  BY <1>1, IdleDelivers

\* The result of a yield is written: it is due to its thread if that is steady.
LEMMA LateDelivers ==
  ASSUME KInv, NEW A \in SUBSET SteadyThreads, NEW W \in SUBSET Cpu, NEW V \in SUBSET Cpu,
         DeliverInv(A, W), NEW c \in Cpu,
         phase[c] = "user", late[c] # None, \A d \in Cpu \ {c} : d \in V <=> d \in W,
         frame' = [frame EXCEPT ![late[c]] = "OK"], late' = [late EXCEPT ![c] = None],
         \/ x0' = [x0 EXCEPT ![Me(c)] = frame'[Me(c)]]
         \/ c \in V /\ x0' = x0,
         UNCHANGED <<phase, current, call, due>>
  PROVE  DeliverInv(A, V)'
<1> DEFINE y == late[c]
<1>0. A \subseteq Thread /\ y \in Thread /\ None \notin Thread
  BY Facts DEF KInv, GlueInv, FrameTypes, Me, SteadyThreads
<1>1. y \in A => due[y] = "OK" /\ Affinity[y] = {c}
  BY DEF DeliverInv, LateInv
<1>2. /\ \A t \in Thread \ {y} : frame'[t] = frame[t]
      /\ y \in A => frame'[y] = due[y]
      /\ late'[c] = None /\ \A d \in Cpu \ {c} : late'[d] = late[d]
      /\ \A t \in Thread \ {Me(c)} : x0'[t] = x0[t]
      /\ c \notin V /\ Me(c) \in Thread => x0'[Me(c)] = frame'[Me(c)]
  BY <1>0, <1>1, Facts DEF KInv, GlueInv, FrameTypes
<1>3. c \notin V /\ Me(c) \in A => x0'[Me(c)] = due[Me(c)]
  <2>1. CASE Me(c) = y
    BY <1>0, <1>2, <2>1
  <2>2. CASE Me(c) # y
    BY <1>0, <1>2, <2>2, FrameIsDue DEF Me
  <2> QED
    BY <2>1, <2>2
<1>4. Delivered(A, V)'
  <2> SUFFICES ASSUME NEW d \in Cpu, d \notin V, Executing(d)', Me(d) \in A
               PROVE  x0'[Me(d)] = due[Me(d)]
    BY DEF Delivered, Me
  <2>1. CASE d = c
    BY <1>3, <2>1
  <2>2. CASE d # c
    <3>1. Executing(d) /\ Me(d) # Me(c)
      BY <1>0, <1>2, <2>2, Facts DEF KInv, Executing, Me
    <3> QED
      BY <1>0, <1>2, <2>2, <3>1 DEF DeliverInv, Delivered
  <2> QED
    BY <2>1, <2>2
<1>5. FrameInv(A, V)'
  <2> SUFFICES ASSUME NEW t \in A, \A d \in Cpu : ~Busy(V, d, t)' /\ late'[d] # t
               PROVE  frame'[t] = due[t]
    BY DEF FrameInv
  <2>1. CASE t = y
    BY <1>2, <2>1
  <2>2. CASE t # y
    <3>1. \A d \in Cpu : ~Busy(W, d, t) /\ late[d] # t
      BY <1>2, <2>2 DEF Busy
    <3> QED
      BY <1>0, <1>2, <2>2, <3>1 DEF DeliverInv, FrameInv
  <2> QED
    BY <2>1, <2>2
<1>6. CreateInv(A)'
  <2> SUFFICES ASSUME NEW d \in Cpu, InCall(d, "create"), Me(d) \in A, frame'[Me(d)] # "CALL"
               PROVE  frame'[Me(d)] = due[Me(d)]
    BY DEF CreateInv, InCall, Me
  <2> QED
    BY <1>0, <1>2 DEF DeliverInv, CreateInv
<1>7. LateInv(A)'
  BY <1>0, <1>2 DEF DeliverInv, LateInv
<1> QED
  BY <1>4, <1>5, <1>6, <1>7 DEF DeliverInv

LEMMA ResumeAfterYieldDelivers ==
  ASSUME KInv, NEW A \in SUBSET SteadyThreads, NEW W \in SUBSET Cpu, DeliverInv(A, W),
         NEW c \in Cpu, ResumeAfterYield(c)
  PROVE  DeliverInv(A, W)'
BY LateDelivers DEF ResumeAfterYield, pmOnly

LEMMA StepDelivers ==
  ASSUME KInv, NEW A \in SUBSET SteadyThreads, NEW W \in SUBSET Cpu, DeliverInv(A, W),
         NEW c \in Cpu \ W, UserStep(c) \/ TimerInterrupt(c) \/ KernelStep(c)
  PROVE  DeliverInv(A, W)'
<1>1. CASE UserStep(c)
  <2>1. PICK name \in CallName : Enter(c, name)
    BY <1>1 DEF UserStep, EnterWrite, EnterRead, EnterOther, CallName
  <2> QED
    BY <2>1, EnterDelivers
<1> QED
  BY <1>1, TimerDelivers, PipeDelivers, CallDelivers, SwitchDelivers, ResumeDelivers,
     LoadAfterYieldDelivers, ResumeAfterYieldDelivers DEF KernelStep, OtherCall

LEMMA SameDelivers ==
  ASSUME NEW A \in SUBSET SteadyThreads, NEW W \in SUBSET Cpu, DeliverInv(A, W), UNCHANGED vars
  PROVE  DeliverInv(A, W)'
BY DEF DeliverInv, Delivered, FrameInv, CreateInv, LateInv, Executing, Busy, InCall, Me,
       vars, pmOnly, frameVars

LEMMA InitDelivers ==
  ASSUME Init, NEW A \in SUBSET SteadyThreads, NEW W \in SUBSET Cpu
  PROVE  DeliverInv(A, W)
<1>1. A \subseteq Thread /\ None \notin Thread
  BY KernelAssumption DEF SteadyThreads, Pm!PmAssumption
<1> QED
  BY <1>1 DEF Init, DeliverInv, Delivered, FrameInv, CreateInv, LateInv, Executing, InCall, Me,
       Pm!Init

\* A thread that never yields, or has one CPU to run on, finds in X0 what its call
\* returned or what the timer interrupted, whatever the others do: the result of another
\* thread's yield, written by the CPU it gave up after it has let the thread go
\* (arch/aarch64/src/exceptions/exceptions.c:65-66), spoils that thread's frame only.
THEOREM ResultsDelivered == Spec => []ResultDelivered
<1> DEFINE Inv == DeliverInv(SteadyThreads, {})
<1>1. KInv /\ Inv /\ [Next]_vars => Inv'
  BY StepDelivers, SameDelivers DEF Next
<1>2. Spec => []KInv
  BY GlueInvariance, PTL DEF KInv
<1>3. KInv /\ Inv => ResultDelivered
  <2> SUFFICES ASSUME KInv, Inv, NEW c \in Cpu, Executing(c), Steady(Me(c))
               PROVE  x0[Me(c)] = due[Me(c)]
    BY DEF ResultDelivered
  <2>1. Me(c) \in SteadyThreads
    BY Facts DEF KInv, Executing, Me, SteadyThreads
  <2> QED
    BY <2>1 DEF DeliverInv, Delivered
<1>4. Init => Inv
  BY InitDelivers
<1> QED
  BY <1>1, <1>2, <1>3, <1>4, PTL DEF Spec

-----------------------------------------------------------------------------
\* The kernel with its interrupts.  What else InterruptsNext does is a step of the
\* scheduler, or none of Kernel.

\* The CPUs that are in the window, or have halted.
Windows == {c \in Cpu : serving[c] \in {"open", "halted"}}

\* What is due to the threads that have not gone astray.
SurviveInv == DeliverInv(SteadyThreads \ astray, Windows)

\* An interrupt is attached by a thread, which the CPU has had since; it stops the CPU
\* outside the kernel, or where it has just loaded a thread.
StopInv ==
  \A c \in Cpu :
    /\ registered[c] # None \/ late[c] # None => current[c] # None
    /\ serving[c] # "no" => current[c] # None /\ late[c] = None
    /\ serving[c] = "irq" => phase[c] \in {"save", "lock"}
    /\ serving[c] = "routine" => phase[c] = "lock"
    /\ serving[c] = "complete" => phase[c] \in {"save", "lock", "process", "thread", "load"}
    /\ serving[c] = "open" => phase[c] = "user"
    /\ serving[c] = "halted" => phase[c] \in {"lock", "user"}

IrqTypes ==
  /\ registered \in [Cpu -> Pm!Processes \cup {None}]
  /\ laid \in [Cpu -> Laid] /\ serving \in [Cpu -> Serving]
  /\ nested \in [Thread -> Nat] /\ astray \subseteq Thread

IrqInv == StopInv /\ IrqTypes

\* The steps that load a thread, pop the kernel's context or take an interrupt where
\* Kernel would not.
WindowStep(c) ==
  \/ OpenWindow(c) \/ CloseWindow(c) \/ TimerInWindow(c) \/ InterruptInWindow(c)
  \/ ResumeKernel(c) \/ ResumeKernelAfterYield(c) \/ CompleteAstray(c)

\* The steps of the routine, and of a thread on its stack.
RoutineStep(c) ==
  \/ StartRoutine(c) \/ Halt(c) \/ InterruptAgain(c) \/ Complete(c) \/ PopInWindow(c)
  \/ Trample(c) \/ Derail(c)

LEMMA StepCases ==
  ASSUME [InterruptsNext]_allVars
  PROVE  \/ UNCHANGED allVars
         \/ \E c \in Cpu : \/ ThreadGoesOn(c) \/ KernelGoesOn(c)
                           \/ EnterAttach(c) \/ Attach(c) \/ Interrupt(c) \/ PutAside(c)
                           \/ WindowStep(c) \/ RoutineStep(c)
BY DEF InterruptsNext, WindowStep, RoutineStep

LEMMA EnterAttachIs ==
  ASSUME KInv, NEW c \in Cpu, EnterAttach(c)
  PROVE  /\ [Ipc!Next]_(Ipc!vars) /\ [Pm!Next]_(Pm!pmVars) /\ GlueInv'
         /\ phase[c] = "user" /\ phase' = [phase EXCEPT ![c] = "svc"]
         /\ UNCHANGED <<current, late, registered, laid, serving, nested, astray>>
<1>1. Enter(c, "attach") /\ UNCHANGED ipcOnly /\ Pm!SystemCall(c) /\ "attach" \in CallName
  BY DEF EnterAttach, Enter, CallName
<1>2. UNCHANGED blockedBy
  BY <1>1 DEF Pm!SystemCall, Pm!threadVars
<1>3. pc' = pc
  BY <1>1 DEF ipcOnly
<1>4. [Ipc!Next]_(Ipc!vars) /\ [Pm!Next]_(Pm!pmVars)
  BY <1>1, <1>2, Unpiped DEF Pm!Next, Pm!Calls
<1>5. GlueInv'
  BY <1>1, <1>3, EnterGlue DEF KInv
<1> QED
  BY <1>1, <1>4, <1>5 DEF EnterAttach, Enter, Pm!SystemCall, Pm!Goto, irqVars

LEMMA AttachIs ==
  ASSUME KInv, NEW c \in Cpu, Attach(c)
  PROVE  /\ [Ipc!Next]_(Ipc!vars) /\ [Pm!Next]_(Pm!pmVars) /\ GlueInv'
         /\ phase[c] = "svc" /\ phase' = [phase EXCEPT ![c] = "user"]
         /\ current[c] # None /\ Me(c) \in Thread
         /\ UNCHANGED <<current, late, serving, nested, astray>>
         /\ registered' = registered \/ registered' = [registered EXCEPT ![c] = Parent[Me(c)]]
         /\ laid' = laid \/ laid' = [laid EXCEPT ![c] = "entry"]
         /\ \A A \in SUBSET SteadyThreads, W \in SUBSET Cpu :
              DeliverInv(A, W) /\ c \notin W => DeliverInv(A, W)'
<1>1. /\ phase[c] = "svc" /\ call[c] = "attach" /\ Pm!SystemReturn(c)
      /\ UNCHANGED <<ipcOnly, late>>
  BY DEF Attach, InCall
<1>2. PICK r \in {"OK", "ERROR"} :
        /\ frame' = [frame EXCEPT ![Me(c)] = r] /\ due' = [due EXCEPT ![Me(c)] = r]
        /\ x0' = [x0 EXCEPT ![Me(c)] = r]
  BY DEF Attach, Answer
<1>3. /\ phase' = [phase EXCEPT ![c] = "user"] /\ UNCHANGED <<current, blockedBy, pc>>
      /\ call' = [call EXCEPT ![c] = "none"]
  BY <1>1 DEF Attach, EndCall, Pm!SystemReturn, Pm!Goto, Pm!threadVars, ipcOnly
<1>4. /\ phase'[c] = "user" /\ current[c] # None /\ Me(c) \in Thread
      /\ \A d \in Cpu \ {c} : phase'[d] = phase[d] /\ call'[d] = call[d]
  BY <1>1, <1>3, Facts DEF KInv, GlueInv, FrameTypes, Me
<1>5. [Ipc!Next]_(Ipc!vars) /\ [Pm!Next]_(Pm!pmVars)
  BY <1>1, <1>3, Unpiped DEF Pm!Next, Pm!Calls
<1>6. GlueInv'
  <2>1. FrameTypes'
    BY <1>1, <1>2, <1>3, <1>4 DEF KInv, GlueInv, FrameTypes, Value, Ipc!Result
  <2>2. \A t \in Thread : pc'[t] # "user" => pc[t] # "user" /\ ~Handles(c, t)
    BY <1>1, <1>3 DEF Handles
  <2> QED
    BY <1>1, <1>3, <1>4, <2>1, <2>2, KeepsGlue DEF KInv, GlueInv
<1>7. ASSUME NEW A \in SUBSET SteadyThreads, NEW W \in SUBSET Cpu, DeliverInv(A, W), c \notin W
      PROVE  DeliverInv(A, W)'
  <2>1. /\ frame'[Me(c)] = due'[Me(c)] /\ x0'[Me(c)] = due'[Me(c)]
        /\ \A t \in Thread \ {Me(c)} :
             frame'[t] = frame[t] /\ x0'[t] = x0[t] /\ due'[t] = due[t]
    BY <1>2, <1>4 DEF KInv, GlueInv, FrameTypes
  <2> QED
    BY <1>1, <1>3, <1>4, <1>7, <2>1, OwnFrame
<1>8. /\ UNCHANGED <<serving, nested, astray>>
      /\ registered' = registered \/ registered' = [registered EXCEPT ![c] = Parent[Me(c)]]
      /\ laid' = laid \/ laid' = [laid EXCEPT ![c] = "entry"]
  BY DEF Attach
<1> QED
  BY <1>1, <1>3, <1>4, <1>5, <1>6, <1>7, <1>8

\* The phases that a step of the window moves its CPU between, and what it changes of
\* the frames.
LEMMA WindowIs ==
  ASSUME KInv, IrqInv, NEW c \in Cpu, WindowStep(c)
  PROVE  /\ [Ipc!Next]_(Ipc!vars) /\ [Pm!Next]_(Pm!pmVars) /\ GlueInv'
         /\ UNCHANGED <<current, registered, astray>>
         /\ \A d \in Cpu \ {c} : phase'[d] = phase[d] /\ late'[d] = late[d]
         /\ current[c] # None /\ late'[c] = None
<1> DEFINE Loads == OpenWindow(c) \/ ResumeKernel(c)
           Ticks == TimerInWindow(c) \/ InterruptInWindow(c) \/ CompleteAstray(c)
           Stays == CloseWindow(c) \/ ResumeKernelAfterYield(c)
<1>1. Loads \/ Ticks \/ Stays
  BY DEF WindowStep
<1>2. /\ UNCHANGED <<ipcOnly, blockedBy, current, call, due, registered, astray>>
      /\ Loads => Pm!LoadStack(c) /\ UNCHANGED frameVars
      /\ Ticks => Pm!TimerInterrupt(c) /\ UNCHANGED frameVars
      /\ Stays => UNCHANGED pmOnly
  BY <1>1 DEF OpenWindow, ResumeKernel, PopKernel, TimerInWindow, InterruptInWindow, Nest,
     CompleteAstray, CloseWindow, ResumeKernelAfterYield, Pm!LoadStack, Pm!TimerInterrupt,
     Pm!threadVars, frameVars, pmOnly
<1>3. /\ current[c] # None
      /\ late'[c] = None /\ \A d \in Cpu \ {c} : late'[d] = late[d]
  <2>1. CASE ResumeKernelAfterYield(c)
    <3>1. late[c] # None /\ late' = [late EXCEPT ![c] = None]
      BY <2>1 DEF ResumeKernelAfterYield
    <3> QED
      BY <3>1 DEF KInv, GlueInv, FrameTypes, IrqInv, StopInv
  <2>2. CASE ResumeKernel(c)
    <3>1. late[c] = None /\ late' = late /\ phase[c] = "load"
      BY <2>2 DEF ResumeKernel, frameVars, Pm!LoadStack, Pm!Goto
    <3> QED
      BY <3>1, Facts DEF KInv
  <2>3. CASE CompleteAstray(c)
    BY <2>3 DEF CompleteAstray, RunsAstray, Runs, Executing, frameVars
  <2>4. CASE OpenWindow(c) \/ CloseWindow(c) \/ TimerInWindow(c) \/ InterruptInWindow(c)
    <3>1. serving[c] # "no" /\ late' = late
      BY <2>4 DEF OpenWindow, CloseWindow, TimerInWindow, InterruptInWindow, Nest, Serves,
         frameVars
    <3> QED
      BY <3>1 DEF IrqInv, StopInv
  <2> QED
    BY <1>1, <2>1, <2>2, <2>3, <2>4
<1>4. /\ phase[c] \in {"load", "user"} /\ phase'[c] \in {"user", "save"}
      /\ \A d \in Cpu \ {c} : phase'[d] = phase[d]
  <2>1. Loads => phase[c] = "load" /\ phase' = [phase EXCEPT ![c] = "user"]
    BY <1>2 DEF Pm!LoadStack, Pm!Goto
  <2>2. Ticks => phase[c] = "user" /\ phase' = [phase EXCEPT ![c] = "save"]
    BY <1>2 DEF Pm!TimerInterrupt, Pm!Goto
  <2>3. Stays => phase[c] = "user" /\ phase' = phase
    BY <1>2 DEF pmOnly, CloseWindow, ResumeKernelAfterYield, Serves, IrqInv, StopInv
  <2> QED
    BY <1>1, <2>1, <2>2, <2>3, Facts DEF KInv
<1>5. [Ipc!Next]_(Ipc!vars) /\ [Pm!Next]_(Pm!pmVars)
  BY <1>1, <1>2, Unpiped DEF Pm!Next, Pm!Switch, pmOnly, Pm!pmVars
<1>6. GlueInv'
  <2>1. frame' \in [Thread -> Value] /\ x0' \in [Thread -> Value]
    BY <1>1, <1>2 DEF KInv, GlueInv, FrameTypes, frameVars, CloseWindow,
       ResumeKernelAfterYield, Value, Ipc!Result
  <2>2. late' \in [Cpu -> Thread \cup {None}]
    BY <1>1, <1>2 DEF KInv, GlueInv, FrameTypes, frameVars, CloseWindow,
       ResumeKernelAfterYield
  <2>3. FrameTypes'
    BY <1>2, <2>1, <2>2 DEF KInv, GlueInv, FrameTypes
  <2>4. pc' = pc
    BY <1>2 DEF ipcOnly
  <2>5. \A t \in Thread : pc'[t] # "user" => pc[t] # "user" /\ ~Handles(c, t)
    BY <1>4, <2>4 DEF Handles
  <2> QED
    BY <1>2, <1>3, <1>4, <2>3, <2>5, KeepsGlue DEF KInv, GlueInv
<1> QED
  BY <1>2, <1>3, <1>4, <1>5, <1>6

LEMMA RoutineIs ==
  ASSUME NEW c \in Cpu, RoutineStep(c)
  PROVE  UNCHANGED <<vars, registered>>
BY DEF RoutineStep, StartRoutine, Halt, InterruptAgain, Complete, PopInWindow, PopKernel,
   Trample, Derail

LEMMA CpusExist == Cpu # {}
BY KernelAssumption DEF Pm!PmAssumption

\* Whatever the kernel does with its interrupts, the pipes and the scheduler do as
\* they would.
LEMMA StepIs ==
  ASSUME KInv, IrqInv, [InterruptsNext]_allVars
  PROVE  [Ipc!Next]_(Ipc!vars) /\ [Pm!Next]_(Pm!pmVars) /\ KInv'
<1>1. PICK c \in Cpu :
        \/ UserStep(c) \/ TimerInterrupt(c) \/ KernelStep(c)
        \/ EnterAttach(c) \/ Attach(c) \/ WindowStep(c)
        \/ UNCHANGED vars
  <2>1. \A c \in Cpu : Interrupt(c) => TimerInterrupt(c)
    BY DEF Interrupt, TimerInterrupt
  <2>2. \A c \in Cpu : PutAside(c) => KernelStep(c)
    BY DEF PutAside, KernelStep, SwitchStep
  <2>3. \A c \in Cpu : SwitchStep(c) => KernelStep(c)
    BY DEF KernelStep
  <2>4. UNCHANGED allVars => UNCHANGED vars
    BY DEF allVars
  <2> QED
    BY <2>1, <2>2, <2>3, <2>4, StepCases, RoutineIs, CpusExist DEF ThreadGoesOn, KernelGoesOn
<1>2. [Ipc!Next]_(Ipc!vars) /\ [Pm!Next]_(Pm!pmVars)
  <2>1. CASE UNCHANGED vars
    BY <2>1, NextParts DEF KInv
  <2> QED
    BY <1>1, <2>1, StepParts, EnterAttachIs, AttachIs, WindowIs DEF KInv
<1>3. GlueInv'
  BY <1>1, StepGlue, SameGlue, EnterAttachIs, AttachIs, WindowIs DEF KInv
<1> QED
  BY <1>2, <1>3, KeepsPartsInv DEF KInv

\* A CPU never loses its thread but to another; a result is left to be written by a
\* CPU that has a thread.
LEMMA StepMoves ==
  ASSUME PartsInv, NEW c \in Cpu, UserStep(c) \/ TimerInterrupt(c) \/ KernelStep(c)
  PROVE  /\ current[c] # None => current'[c] # None
         /\ \A d \in Cpu \ {c} : phase'[d] = phase[d] /\ current'[d] = current[d]
<1>1. UserStep(c) \/ TimerInterrupt(c) =>
        current' = current /\ \E to : phase' = [phase EXCEPT ![c] = to]
  BY DEF UserStep, EnterWrite, EnterRead, EnterOther, Enter, TimerInterrupt,
     Pm!SystemCall, Pm!TimerInterrupt, Pm!Goto
<1>2. CASE PipeCall(c) \/ OtherCall(c) \/ Resume(c)
  <2>1. /\ current' = current
        /\ phase' = phase \/ \E to : phase' = [phase EXCEPT ![c] = to]
    <3>1. CASE PipeCall(c)
      BY <3>1 DEF PipeCall, PipeStep, PipeBlock, PipeNotify, PipeReturn, InCall, PipeSwitch,
         pmOnly, Pm!Block, Pm!Unblock, Pm!SystemReturn, Pm!BlockSwitch, Pm!Goto
    <3>2. CASE OtherCall(c) \/ Resume(c)
      BY <3>2 DEF OtherCall, Sleep, Yield, LoadAfterYield, ResumeAfterYield, Create,
         CreateReturn, Resume, pmOnly, Pm!SleepTicks, Pm!Yield, Pm!LoadStack,
         Pm!ThreadCreate, Pm!SystemReturn, Pm!Goto
    <3> QED
      BY <1>2, <3>1, <3>2
  <2> QED
    BY <1>1, <2>1, Facts
<1>3. CASE SwitchStep(c)
  <2>1. current'[c] = current[c] \/ current'[c] # None
    BY <1>3, Facts DEF SwitchStep, Pm!SaveStack, Pm!LockList, Pm!EnterProcess, Pm!VisitThread,
       Pm!PassThread, Pm!LeaveProcess, Pm!Select
  <2> QED
    BY <1>3, <2>1, SwitchIs
<1> QED
  BY <1>1, <1>2, <1>3, Facts DEF KernelStep

\* Only a yield leaves its result to be written.
LEMMA StepLate ==
  ASSUME KInv, NEW c \in Cpu, UserStep(c) \/ TimerInterrupt(c) \/ KernelStep(c)
  PROVE  /\ \A d \in Cpu \ {c} : late'[d] = late[d]
         /\ late'[c] # None => late'[c] = late[c] \/ current'[c] # None
<1>1. CASE Yield(c)
  <2>1. late' = [late EXCEPT ![c] = Me(c)] /\ phase[c] = "svc" /\ current' = current
    BY <1>1 DEF Yield, InCall, Pm!Yield
  <2> QED
    BY <2>1, Facts DEF KInv, GlueInv, FrameTypes
<1>2. CASE ResumeAfterYield(c)
  BY <1>2, Facts DEF ResumeAfterYield, KInv, GlueInv, FrameTypes
<1>3. CASE ~Yield(c) /\ ~ResumeAfterYield(c)
  <2>1. late' = late
    BY <1>3 DEF UserStep, EnterWrite, EnterRead, EnterOther, Enter, TimerInterrupt, KernelStep,
       PipeCall, PipeStep, PipeBlock, PipeNotify, PipeReturn, PipeSwitch, OtherCall, Sleep,
       LoadAfterYield, Create, CreateReturn, SwitchStep, Resume, frameVars
  <2> QED
    BY <2>1
<1> QED
  BY <1>1, <1>2, <1>3

LEMMA KernelMoves ==
  ASSUME KInv, IrqInv, NEW c \in Cpu,
         \/ ThreadGoesOn(c) \/ KernelGoesOn(c) \/ EnterAttach(c) \/ Attach(c)
         \/ Interrupt(c) \/ PutAside(c)
  PROVE  IrqInv'
<1>1. CASE ThreadGoesOn(c) \/ KernelGoesOn(c)
  <2>1. (UserStep(c) \/ TimerInterrupt(c) \/ KernelStep(c)) /\ UNCHANGED irqVars
    BY <1>1 DEF ThreadGoesOn, KernelGoesOn, KernelStep
  <2>2. /\ current[c] # None => current'[c] # None
        /\ \A d \in Cpu \ {c} : /\ phase'[d] = phase[d] /\ current'[d] = current[d]
                                /\ late'[d] = late[d]
        /\ late'[c] # None => late'[c] = late[c] \/ current'[c] # None
        /\ UNCHANGED <<registered, laid, serving, nested, astray>>
    BY <2>1, StepMoves, StepLate DEF KInv, irqVars
  <2>3. CASE serving[c] = "no"
    BY <2>2, <2>3 DEF IrqInv, StopInv, IrqTypes
  <2>4. CASE serving[c] = "complete" /\ SwitchStep(c)
    <3>1. phase'[c] \in {"lock", "process", "thread", "load"} /\ late' = late
      BY <2>4, SwitchIs DEF KInv
    <3> QED
      BY <2>2, <2>4, <3>1 DEF IrqInv, StopInv, IrqTypes
  <2> QED
    BY <1>1, <2>3, <2>4 DEF ThreadGoesOn, KernelGoesOn
<1>2. CASE EnterAttach(c)
  <2>1. /\ phase[c] = "user" /\ phase' = [phase EXCEPT ![c] = "svc"]
        /\ UNCHANGED <<current, late, registered, laid, serving, nested, astray>>
    BY <1>2, EnterAttachIs
  <2>2. serving[c] = "no"
    BY <1>2 DEF EnterAttach
  <2> QED
    BY <2>1, <2>2, Facts DEF KInv, IrqInv, StopInv, IrqTypes
<1>3. CASE Attach(c)
  <2>1. /\ phase[c] = "svc" /\ phase' = [phase EXCEPT ![c] = "user"]
        /\ current[c] # None /\ Me(c) \in Thread
        /\ UNCHANGED <<current, late, serving, nested, astray>>
        /\ registered' = registered \/ registered' = [registered EXCEPT ![c] = Parent[Me(c)]]
        /\ laid' = laid \/ laid' = [laid EXCEPT ![c] = "entry"]
    BY <1>3, AttachIs
  <2>2. Parent[Me(c)] \in Pm!Processes
    BY <2>1, KernelAssumption DEF Pm!PmAssumption
  <2>3. IrqTypes'
    BY <2>1, <2>2 DEF IrqInv, IrqTypes, Laid
  <2>4. StopInv'
    BY <2>1, Facts DEF KInv, IrqInv, StopInv, IrqTypes
  <2> QED
    BY <2>3, <2>4 DEF IrqInv
<1>4. CASE Interrupt(c)
  <2>1. /\ registered[c] # None /\ UNCHANGED <<current, late, registered, laid, nested, astray>>
        /\ late[c] = None /\ phase' = [phase EXCEPT ![c] = "save"]
        /\ serving' = [serving EXCEPT ![c] = "irq"]
    BY <1>4 DEF Interrupt, Serves, Pm!TimerInterrupt, Pm!Goto
  <2> QED
    BY <2>1, Facts DEF KInv, IrqInv, StopInv, IrqTypes, Serving
<1>5. CASE PutAside(c)
  <2>1. /\ serving[c] = "irq" /\ phase' = [phase EXCEPT ![c] = "lock"]
        /\ UNCHANGED <<current, late, registered, laid, serving, nested, astray>>
    BY <1>5 DEF PutAside, Pm!SaveStack, Pm!Goto, frameVars, irqVars
  <2> QED
    BY <2>1, Facts DEF KInv, IrqInv, StopInv, IrqTypes
<1> QED
  BY <1>1, <1>2, <1>3, <1>4, <1>5

LEMMA WindowMoves ==
  ASSUME KInv, IrqInv, NEW c \in Cpu, WindowStep(c)
  PROVE  IrqInv'
<1>1. /\ UNCHANGED <<current, registered, astray>>
      /\ \A d \in Cpu \ {c} : phase'[d] = phase[d] /\ late'[d] = late[d]
      /\ current[c] # None /\ late'[c] = None /\ Me(c) \in Thread
  BY WindowIs, Facts DEF KInv, Me
<1>2. nested' \in [Thread -> Nat]
  <2>1. nested' = nested \/ nested' = [nested EXCEPT ![Me(c)] = @ + 1]
          \/ (nested[Me(c)] > 0 /\ nested' = [nested EXCEPT ![Me(c)] = @ - 1])
    BY DEF WindowStep, OpenWindow, CloseWindow, TimerInWindow, InterruptInWindow, Nest,
       ResumeKernel, ResumeKernelAfterYield, PopKernel, CompleteAstray
  <2> QED
    BY <1>1, <2>1 DEF IrqInv, IrqTypes
<1>3. laid' = laid
  BY DEF WindowStep, OpenWindow, CloseWindow, TimerInWindow, InterruptInWindow, Nest,
     ResumeKernel, ResumeKernelAfterYield, PopKernel, CompleteAstray
<1>4. \E to \in {<<"open", "user">>, <<"halted", "user">>, <<"no", "user">>, <<"no", "save">>,
                 <<"irq", "save">>, <<"complete", "save">>} :
        serving' = [serving EXCEPT ![c] = to[1]] /\ phase'[c] = to[2]
  <2>1. CASE OpenWindow(c)
    <3>1. serving' = [serving EXCEPT ![c] = "open"] /\ phase' = [phase EXCEPT ![c] = "user"]
      BY <2>1 DEF OpenWindow, Serves, Pm!LoadStack, Pm!Goto
    <3> QED
      BY <3>1, Facts DEF KInv
  <2>2. CASE CloseWindow(c)
    <3>1. serving' = [serving EXCEPT ![c] = "no"] /\ phase' = phase /\ phase[c] = "user"
      BY <2>2 DEF CloseWindow, Serves, pmOnly, IrqInv, StopInv
    <3> QED
      BY <3>1
  <2>3. CASE TimerInWindow(c) \/ InterruptInWindow(c)
    <3>1. /\ \E to \in {"no", "irq"} : serving' = [serving EXCEPT ![c] = to]
          /\ phase' = [phase EXCEPT ![c] = "save"]
      BY <2>3 DEF TimerInWindow, InterruptInWindow, Nest, Serves, Pm!TimerInterrupt, Pm!Goto
    <3> QED
      BY <3>1, Facts DEF KInv
  <2>4. CASE ResumeKernel(c) \/ ResumeKernelAfterYield(c)
    <3>1. \E to \in {"open", "halted"} : serving' = [serving EXCEPT ![c] = to]
      BY <2>4 DEF ResumeKernel, ResumeKernelAfterYield, PopKernel, Serves
    <3>2. \/ phase' = [phase EXCEPT ![c] = "user"]
          \/ phase' = phase /\ phase[c] = "user"
      BY <2>4 DEF ResumeKernel, ResumeKernelAfterYield, Pm!LoadStack, Pm!Goto, pmOnly
    <3> QED
      BY <3>1, <3>2, Facts DEF KInv
  <2>5. CASE CompleteAstray(c)
    <3>1. serving' = [serving EXCEPT ![c] = "complete"] /\ phase' = [phase EXCEPT ![c] = "save"]
      BY <2>5 DEF CompleteAstray, Serves, Pm!TimerInterrupt, Pm!Goto
    <3> QED
      BY <3>1, Facts DEF KInv
  <2> QED
    BY <2>1, <2>2, <2>3, <2>4, <2>5 DEF WindowStep
<1>5. IrqTypes'
  BY <1>1, <1>2, <1>3, <1>4 DEF IrqInv, IrqTypes, Serving
<1>6. StopInv'
  BY <1>1, <1>4 DEF IrqInv, StopInv, IrqTypes
<1> QED
  BY <1>5, <1>6 DEF IrqInv

LEMMA RoutineMoves ==
  ASSUME KInv, IrqInv, NEW c \in Cpu, RoutineStep(c)
  PROVE  IrqInv'
<1>1. UNCHANGED <<phase, current, late, registered>>
  BY RoutineIs DEF vars, pmOnly, frameVars
<1>2. current[c] # None /\ late[c] = None /\ Me(c) \in Thread
  <2>1. serving[c] # "no" \/ RunsAstray(c) \/ Derail(c)
    BY DEF RoutineStep, StartRoutine, Halt, InterruptAgain, Complete, PopInWindow, PopKernel,
       Trample, Serves
  <2>2. serving[c] # "no" \/ RunsAstray(c)
    BY <2>1 DEF Derail, Serves
  <2> QED
    BY <2>2, Facts DEF IrqInv, StopInv, RunsAstray, Runs, Executing, KInv, Me
<1>3. \/ serving' = serving
      \/ \E to \in {"routine", "complete"} :
           serving' = [serving EXCEPT ![c] = to] /\ phase[c] = "lock"
      \/ serving' = [serving EXCEPT ![c] = "open"] /\ phase[c] = "user"
      \/ serving' = [serving EXCEPT ![c] = "halted"] /\ phase[c] \in {"lock", "user"}
  <2>1. CASE StartRoutine(c) \/ Halt(c)
    BY <2>1 DEF StartRoutine, Halt, Serves
  <2>2. CASE InterruptAgain(c) \/ Complete(c)
    BY <2>2 DEF InterruptAgain, Complete, Serves, IrqInv, StopInv
  <2>3. CASE PopInWindow(c) \/ Trample(c)
    BY <2>3 DEF PopInWindow, PopKernel, Trample, Serves, IrqInv, StopInv
  <2>4. CASE Derail(c)
    <3>1. /\ serving' = [serving EXCEPT ![c] = "halted"]
          /\ serving[c] = "routine" \/ phase[c] = "user"
      BY <2>4 DEF Derail, Serves, RunsAstray, Runs, Executing
    <3> QED
      BY <3>1 DEF IrqInv, StopInv
  <2> QED
    BY <2>1, <2>2, <2>3, <2>4 DEF RoutineStep
<1>4. laid' \in [Cpu -> Laid]
  BY DEF RoutineStep, StartRoutine, Halt, InterruptAgain, Complete, PopInWindow, PopKernel,
     Trample, Derail, IrqInv, IrqTypes, Laid
<1>5. nested' \in [Thread -> Nat] /\ astray' \subseteq Thread
  <2>1. \/ nested' = nested \/ nested' = [nested EXCEPT ![Me(c)] = 0]
        \/ nested[Me(c)] > 0 /\ nested' = [nested EXCEPT ![Me(c)] = @ - 1]
    BY DEF RoutineStep, StartRoutine, Halt, InterruptAgain, Complete, PopInWindow, PopKernel,
       Trample, Derail
  <2>2. astray' = astray \/ astray' = astray \cup {Me(c)}
    BY DEF RoutineStep, StartRoutine, Halt, InterruptAgain, Complete, PopInWindow, PopKernel,
       Trample, Derail
  <2> QED
    BY <1>2, <2>1, <2>2 DEF IrqInv, IrqTypes
<1>6. StopInv'
  BY <1>1, <1>2, <1>3 DEF IrqInv, StopInv, IrqTypes
<1> QED
  BY <1>1, <1>3, <1>4, <1>5, <1>6 DEF IrqInv, IrqTypes, Serving

LEMMA NextIrqInv == KInv /\ IrqInv /\ [InterruptsNext]_allVars => IrqInv'
<1>1. IrqInv /\ UNCHANGED allVars => IrqInv'
  BY DEF allVars, irqVars, vars, pmOnly, frameVars, IrqInv, StopInv, IrqTypes
<1> QED
  BY <1>1, StepCases, KernelMoves, WindowMoves, RoutineMoves

LEMMA InitIs == InterruptsInit => Init /\ KInv /\ IrqInv
<1>1. Init => KInv
  BY InitPartsInv, InitGlue DEF Init, KInv
<1>2. InterruptsInit => IrqInv
  BY DEF InterruptsInit, Init, Pm!Init, IrqInv, StopInv, IrqTypes, Serving, Laid
<1> QED
  BY <1>1, <1>2 DEF InterruptsInit

LEMMA IrqInvariance == InterruptsSpec => [](KInv /\ IrqInv)
<1>1. KInv /\ IrqInv /\ [InterruptsNext]_allVars => (KInv /\ IrqInv)'
  BY StepIs, NextIrqInv
<1> QED
  BY <1>1, InitIs, PTL DEF InterruptsSpec

\* What is well typed in Kernel is so with its interrupts.
THEOREM InterruptsTypeCorrect == InterruptsSpec => []InterruptsTypeOK
<1>1. IpcP!TypeOK => Ipc!TypeOK
  BY DEF Ipc!TypeOK, Ipc!Slot, Ipc!Label, Ipc!Result, IpcP!TypeOK, IpcP!Slot, IpcP!Label,
         IpcP!Result
<1>2. PmP!TypeOK => Pm!TypeOK
  BY DEF Pm!TypeOK, Pm!Phase, Pm!Processes, PmP!TypeOK, PmP!Phase, PmP!Processes
<1>3. KInv => TypeOK
  BY <1>1, <1>2 DEF KInv, PartsInv, PipesInv, SchedulerInv, IpcP!TypeInv, PmP!IInv, GlueInv,
     FrameTypes, TypeOK
<1>4. KInv /\ IrqInv => InterruptsTypeOK
  BY <1>3 DEF IrqInv, IrqTypes, InterruptsTypeOK
<1> QED
  BY <1>4, IrqInvariance, PTL

\* Routines, the window and the contexts that are lost change nothing in what the kernel
\* does with the pipes, which is what IpcManager says, nor in what it does with its
\* threads, which is what ProcessManager says of the scheduler
\* (arch/aarch64/src/managers/intm_arch.c).
THEOREM InterruptsSchedule ==
  InterruptsSpec => ImplementsIpcManager /\ DecidesAsProcessManager
<1>1. InterruptsInit => Ipc!Init /\ Pm!Init
  BY DEF InterruptsInit, Init
<1>2. KInv /\ IrqInv /\ [InterruptsNext]_allVars => [Ipc!Next]_(Ipc!vars) /\ [Pm!Next]_(Pm!pmVars)
  BY StepIs
<1> QED
  BY <1>1, <1>2, IrqInvariance, PTL
     DEF InterruptsSpec, ImplementsIpcManager, DecidesAsProcessManager, Ipc!Spec, Pm!Spec

-----------------------------------------------------------------------------
\* What the threads that have not gone astray find.

\* A step of a thread that has gone astray: nothing was due to it.
LEMMA AstrayDelivers ==
  ASSUME KInv, NEW A \in SUBSET SteadyThreads, NEW W \in SUBSET Cpu, NEW V \in SUBSET Cpu,
         DeliverInv(A, W), NEW c \in Cpu, Me(c) \notin A,
         \A d \in Cpu \ {c} : d \in V <=> d \in W,
         \A d \in Cpu \ {c} : phase'[d] = phase[d],
         phase'[c] \in {"user", "save"},
         UNCHANGED <<current, call, frame, x0, due, late>>
  PROVE  DeliverInv(A, V)'
<1>1. Delivered(A, V)'
  BY DEF DeliverInv, Delivered, Executing, Me
<1>2. FrameInv(A, V)'
  BY DEF DeliverInv, FrameInv, Busy, Me
<1>3. CreateInv(A)' /\ LateInv(A)'
  BY DEF DeliverInv, CreateInv, LateInv, InCall, Me
<1> QED
  BY <1>1, <1>2, <1>3 DEF DeliverInv

LEMMA WindowDelivers ==
  ASSUME KInv, IrqInv, NEW A \in SUBSET SteadyThreads, NEW W \in SUBSET Cpu,
         NEW V \in SUBSET Cpu, A \subseteq Thread \ astray, W = Windows, V = Windows',
         DeliverInv(A, W), NEW c \in Cpu, WindowStep(c)
  PROVE  DeliverInv(A, V)'
<1>1. /\ UNCHANGED current /\ current[c] # None
      /\ \A d \in Cpu \ {c} : phase'[d] = phase[d]
  BY WindowIs
<1>2. \E to \in Serving : serving' = [serving EXCEPT ![c] = to]
  BY DEF WindowStep, OpenWindow, CloseWindow, TimerInWindow, InterruptInWindow,
     ResumeKernel, ResumeKernelAfterYield, PopKernel, CompleteAstray, Serves, Serving
<1>3. \A d \in Cpu \ {c} : d \in V <=> d \in W
  BY <1>2 DEF Windows, IrqInv, IrqTypes
<1>4. CASE OpenWindow(c) \/ ResumeKernel(c)
  <2>1. /\ phase[c] = "load" /\ phase' = [phase EXCEPT ![c] = "user"]
        /\ UNCHANGED <<call, frame, x0, due, late>>
        /\ \E to \in {"open", "halted"} : serving' = [serving EXCEPT ![c] = to]
    BY <1>4 DEF OpenWindow, ResumeKernel, PopKernel, Serves, Pm!LoadStack, Pm!Goto, frameVars
  <2>2. c \in V /\ phase'[c] = "user"
    BY <2>1, Facts DEF Windows, KInv, IrqInv, IrqTypes
  <2> QED
    BY <1>1, <1>3, <2>1, <2>2, IdleDelivers
<1>5. CASE TimerInWindow(c) \/ InterruptInWindow(c)
  <2>1. /\ phase[c] = "user" /\ phase' = [phase EXCEPT ![c] = "save"] /\ serving[c] = "open"
        /\ UNCHANGED <<call, frame, x0, due, late>>
    BY <1>5 DEF TimerInWindow, InterruptInWindow, Nest, Serves, Pm!TimerInterrupt, Pm!Goto,
       frameVars
  <2>2. c \in W /\ phase'[c] = "save"
    BY <2>1, Facts DEF Windows, KInv
  <2> QED
    BY <1>1, <1>3, <2>1, <2>2, IdleDelivers
<1>6. CASE CloseWindow(c)
  <2>1. /\ serving[c] = "open" /\ UNCHANGED <<phase, call, frame, due, late>>
        /\ x0' = [x0 EXCEPT ![Me(c)] = frame[Me(c)]]
    BY <1>6 DEF CloseWindow, Serves, pmOnly
  <2>2. c \in W /\ phase[c] = "user" /\ late[c] = None
    BY <2>1 DEF Windows, IrqInv, StopInv
  <2> QED
    BY <1>1, <1>3, <2>1, <2>2, PopDelivers
<1>7. CASE ResumeKernelAfterYield(c)
  <2>1. /\ phase[c] = "user" /\ late[c] # None /\ UNCHANGED <<phase, call, due, x0>>
        /\ frame' = [frame EXCEPT ![late[c]] = "OK"] /\ late' = [late EXCEPT ![c] = None]
        /\ \E to \in {"open", "halted"} : serving' = [serving EXCEPT ![c] = to]
    BY <1>7 DEF ResumeKernelAfterYield, PopKernel, Serves, pmOnly
  <2>2. c \in V
    BY <2>1 DEF Windows, IrqInv, IrqTypes
  <2> QED
    BY <1>1, <1>3, <2>1, <2>2, LateDelivers
<1>8. CASE CompleteAstray(c)
  <2>1. /\ phase' = [phase EXCEPT ![c] = "save"] /\ Me(c) \in astray
        /\ UNCHANGED <<call, frame, x0, due, late>>
    BY <1>8 DEF CompleteAstray, RunsAstray, Pm!TimerInterrupt, Pm!Goto, frameVars
  <2>2. phase'[c] = "save" /\ Me(c) \notin A
    BY <2>1, Facts DEF KInv
  <2> QED
    BY <1>1, <1>3, <2>1, <2>2, AstrayDelivers
<1> QED
  BY <1>4, <1>5, <1>6, <1>7, <1>8 DEF WindowStep

LEMMA RoutineDelivers ==
  ASSUME KInv, IrqInv, NEW A \in SUBSET SteadyThreads, NEW W \in SUBSET Cpu,
         NEW V \in SUBSET Cpu, A \subseteq Thread \ astray, W = Windows, V = Windows',
         DeliverInv(A, W), NEW c \in Cpu, RoutineStep(c)
  PROVE  DeliverInv(A, V)'
<1>1. UNCHANGED <<phase, current, call, frame, x0, due, late>>
  BY RoutineIs DEF vars, pmOnly, frameVars
<1>2. serving' = serving \/ \E to \in Serving : serving' = [serving EXCEPT ![c] = to]
  BY DEF RoutineStep, StartRoutine, Halt, InterruptAgain, Complete, PopInWindow, PopKernel,
     Trample, Derail, Serves, Serving
<1>3. \A d \in Cpu \ {c} : d \in V <=> d \in W
  BY <1>2 DEF Windows, IrqInv, IrqTypes
<1>4. CASE RunsAstray(c)
  <2>1. Me(c) \notin A /\ phase[c] = "user"
    BY <1>4 DEF RunsAstray, Runs, Executing
  <2> QED
    BY <1>1, <1>3, <2>1, AstrayDelivers
<1>5. CASE serving[c] \in {"irq", "routine"} /\ ~RunsAstray(c)
  <2>1. phase[c] \in {"save", "lock"}
    BY <1>5 DEF IrqInv, StopInv
  <2> QED
    BY <1>1, <1>3, <2>1, IdleDelivers
<1>6. CASE PopInWindow(c)
  <2>1. /\ serving[c] = "open" /\ phase[c] = "user"
        /\ \E to \in {"open", "halted"} : serving' = [serving EXCEPT ![c] = to]
    BY <1>6 DEF PopInWindow, PopKernel, Serves, IrqInv, StopInv
  <2>2. c \in W /\ c \in V
    BY <2>1 DEF Windows, IrqInv, IrqTypes
  <2> QED
    BY <1>1, <1>3, <2>1, <2>2, IdleDelivers
<1> QED
  BY <1>4, <1>5, <1>6 DEF RoutineStep, StartRoutine, Halt, InterruptAgain, Complete, Trample,
     Derail, Serves

\* And every step of the kernel, where it is neither in the window nor in a routine.
LEMMA KernelDelivers ==
  ASSUME KInv, IrqInv, NEW A \in SUBSET SteadyThreads, NEW W \in SUBSET Cpu,
         NEW V \in SUBSET Cpu, W = Windows, V = Windows', DeliverInv(A, W), NEW c \in Cpu,
         \/ ThreadGoesOn(c) \/ KernelGoesOn(c) \/ EnterAttach(c) \/ Attach(c)
         \/ Interrupt(c) \/ PutAside(c)
  PROVE  DeliverInv(A, V)'
<1>1. V = W
  <2>1. serving' = serving \/ (serving[c] = "no" /\ serving' = [serving EXCEPT ![c] = "irq"])
    BY DEF ThreadGoesOn, KernelGoesOn, EnterAttach, Attach, Interrupt, PutAside, Serves, irqVars
  <2> QED
    BY <2>1 DEF Windows, IrqInv, IrqTypes
<1>2. CASE ThreadGoesOn(c) \/ Interrupt(c) \/ (serving[c] = "no" /\ KernelGoesOn(c))
  <2>1. c \notin W /\ (UserStep(c) \/ TimerInterrupt(c) \/ KernelStep(c))
    BY <1>2 DEF ThreadGoesOn, Interrupt, TimerInterrupt, KernelGoesOn, Serves, Windows
  <2> QED
    BY <1>1, <2>1, StepDelivers
<1>3. CASE PutAside(c) \/ (serving[c] = "complete" /\ KernelGoesOn(c))
  <2>1. SwitchStep(c)
    BY <1>3 DEF PutAside, SwitchStep, KernelGoesOn
  <2> QED
    BY <1>1, <2>1, SwitchDelivers
<1>4. CASE EnterAttach(c)
  <2>1. c \notin W /\ Enter(c, "attach") /\ "attach" \in CallName
    BY <1>4 DEF EnterAttach, CallName, Windows
  <2> QED
    BY <1>1, <2>1, EnterDelivers
<1>5. CASE Attach(c)
  <2>1. c \notin W
    BY <1>5 DEF Attach, InCall, Windows, IrqInv, StopInv
  <2> QED
    BY <1>1, <1>5, <2>1, AttachIs
<1> QED
  BY <1>2, <1>3, <1>4, <1>5 DEF KernelGoesOn

LEMMA NextSurviveInv ==
  ASSUME KInv, IrqInv, SurviveInv, [InterruptsNext]_allVars
  PROVE  SurviveInv'
<1>1. PICK A \in SUBSET SteadyThreads, B \in SUBSET SteadyThreads, W \in SUBSET Cpu,
           V \in SUBSET Cpu :
        /\ A = SteadyThreads \ astray /\ B = SteadyThreads \ astray'
        /\ W = Windows /\ V = Windows'
  BY DEF Windows
<1>2. A \subseteq Thread \ astray /\ DeliverInv(A, W)
  BY <1>1 DEF SteadyThreads, SurviveInv
<1>3. DeliverInv(A, V)'
  <2>1. CASE UNCHANGED allVars
    <3>1. W = V /\ UNCHANGED vars
      BY <1>1, <2>1 DEF allVars, irqVars, Windows
    <3> QED
      BY <1>2, <3>1, SameDelivers
  <2> QED
    BY <1>1, <1>2, <2>1, StepCases, KernelDelivers, WindowDelivers, RoutineDelivers
<1>4. astray \subseteq astray'
  BY StepCases DEF allVars, irqVars, ThreadGoesOn, KernelGoesOn, EnterAttach, Attach, Interrupt,
     PutAside, WindowStep, OpenWindow, CloseWindow, TimerInWindow, InterruptInWindow, Nest,
     ResumeKernel, ResumeKernelAfterYield, PopKernel, CompleteAstray, RoutineStep, StartRoutine,
     Halt, InterruptAgain, Complete, PopInWindow, Trample, Derail
<1>5. DeliverInv(B, V)'
  BY <1>1, <1>3, <1>4 DEF DeliverInv, Delivered, FrameInv, CreateInv, LateInv
<1> QED
  BY <1>1, <1>5 DEF SurviveInv

\* A thread that has not gone astray, and whose results do not come late, finds its
\* registers, and what its calls returned, as before, on whatever frames of routines and
\* of the kernel itself the interrupts have put above its own.
THEOREM InterruptsDeliver == InterruptsSpec => []ResultSurvives
<1>1. KInv /\ IrqInv /\ SurviveInv => ResultSurvives
  <2> SUFFICES ASSUME KInv, SurviveInv, NEW c \in Cpu, Runs(c), Me(c) \notin astray,
                      Steady(Me(c))
               PROVE  x0[Me(c)] = due[Me(c)]
    BY DEF ResultSurvives
  <2>1. Executing(c) /\ c \notin Windows /\ Me(c) \in SteadyThreads \ astray
    BY Facts DEF KInv, Runs, Executing, Me, Windows, SteadyThreads
  <2> QED
    BY <2>1 DEF SurviveInv, DeliverInv, Delivered
<1>2. InterruptsInit => SurviveInv
  <2> SUFFICES ASSUME InterruptsInit PROVE SurviveInv
    OBVIOUS
  <2>1. Windows \in SUBSET Cpu /\ SteadyThreads \ astray \in SUBSET SteadyThreads
    BY DEF Windows
  <2> QED
    BY <2>1, InitIs, InitDelivers DEF SurviveInv
<1> QED
  BY <1>1, <1>2, NextSurviveInv, IrqInvariance, PTL DEF InterruptsSpec

-----------------------------------------------------------------------------
\* Where an interrupt stops a CPU.

\* While a routine runs, while the kernel can be interrupted in its window, and when a
\* CPU has halted, neither the list of processes nor a pipe is locked by that CPU or by
\* the thread it has put aside or loaded: system calls run with interrupts masked, and
\* the switch has released its lock when it opens the window.
THEOREM NoLockIsLost == InterruptsSpec => []StoppedHoldsNoLock
<1>1. KInv /\ IrqInv => StoppedHoldsNoLock
  <2> SUFFICES ASSUME KInv, IrqInv, NEW c \in Cpu, serving[c] \notin {"no", "complete"}
               PROVE  listLock # c /\ \A p \in Pipe : lock[p] # Me(c)
    BY DEF StoppedHoldsNoLock
  <2>1. phase[c] \in {"save", "lock", "user"} /\ current[c] # None
    BY DEF IrqInv, StopInv, IrqTypes, Serving
  <2>2. listLock # c
    BY <2>1 DEF KInv, PartsInv, SchedulerInv, PmP!IInv, PmP!LockInv, PmP!Walking
  <2>3. ASSUME NEW p \in Pipe, lock[p] = Me(c) PROVE FALSE
    <3>1. Me(c) \in Thread /\ lock[p] # None
      BY <2>1, <2>3, Facts DEF KInv, Me
    <3>2. pc[Me(c)] # "user"
      BY <2>3, <3>1 DEF KInv, PartsInv, PipesInv, IpcP!LockInv, IpcP!HolderAtWork,
         IpcP!Locked, IpcP!Label
    <3> QED
      BY <2>1, <3>1, <3>2, ServedHere DEF KInv, Handles
  <2> QED
    BY <2>2, <2>3
<1> QED
  BY <1>1, IrqInvariance, PTL
=============================================================================
