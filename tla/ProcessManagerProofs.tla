------------------------ MODULE ProcessManagerProofs ------------------------
(* Any CPUs, processes, priorities and affinities: no thread executes on two *)
(* CPUs, from an old context, blocked or asleep; and a walk of the list always *)
(* finds a thread, of the ready ones a most urgent one.                      *)
EXTENDS ProcessManager, FiniteSetTheorems, TLAPS

\* A walk is a critical section of the list's lock.
LockInv == \A c \in Cpu : listLock = c <=> phase[c] \in Walking

\* A walk's place lies within the list, and a process's best is no other's.
WalkInv ==
  \A c \in Cpu :
    /\ phase[c] \in Walking => proc[c] >= 1
    /\ phase[c] # "thread" => best[c] = None
    /\ phase[c] = "thread" => proc[c] <= Len(Process) /\ idx[c] >= 1

\* RunningIsCurrent, thread by thread.
RunningInv ==
  \A t \in Thread : t \in running <=>
    \E c \in Cpu : phase[c] \notin Walking /\ current[c] = t

CurrentInv ==
  /\ \A c, d \in Cpu : c # d /\ current[c] # None => current[c] # current[d]
  /\ \A c \in Cpu : phase[c] \in {"svc", "blocking", "load"} => current[c] # None

MayRun(c, t) ==
  t \in Created /\ c \in Affinity[t] /\ blockedBy[t] = None /\ sleep[t] = 0

\* What a walk has picked stays fit to run until the walk ends: the calls that make
\* a thread wait are made by that thread, and it is not running.
ChoiceInv ==
  \A c \in Cpu : \A t \in {best[c], pick[c]} : t # None =>
    phase[c] \in Walking /\ t \notin running /\ MayRun(c, t)

\* It does so after the walk, until the thread itself calls.
EligibleInv ==
  \A c \in Cpu : phase[c] \in {"load", "user", "svc"} /\ current[c] # None =>
    MayRun(c, current[c])

\* The phases in which a CPU's registers hold its current thread's context.
Live == {"user", "svc", "blocking", "save"}

\* A thread's context is in the registers of the one CPU that executes it, or where
\* its stack_pointer points.
ContextInv ==
  /\ \A c \in Cpu : phase[c] \in Live => sp0[c] = current[c]
  /\ \A t \in Thread :
       (\A c \in Cpu : current[c] = t => phase[c] \notin Live) => stack[t] = t

IInv == /\ TypeOK /\ LockInv /\ WalkInv /\ RunningInv /\ CurrentInv
        /\ ChoiceInv /\ EligibleInv /\ ContextInv

USE DEF Phase, Walking, Live

LEMMA NoneIsNothing == None \notin Thread /\ None \notin Object /\ None \notin Cpu
BY PmAssumption

LEMMA SameThreads ==
  ASSUME threads' = threads
  PROVE  Created' = Created
BY DEF Created

LEMMA InitIInv == Init => IInv
<1> SUFFICES ASSUME Init
             PROVE  IInv
  OBVIOUS
<1>1. Created \subseteq Thread
  BY PmAssumption DEF Init, Created
<1>2. TypeOK
  BY <1>1, PmAssumption DEF Init, TypeOK
<1> QED
  BY <1>2, NoneIsNothing
     DEF Init, IInv, LockInv, WalkInv, RunningInv, CurrentInv, ChoiceInv, EligibleInv, ContextInv, MayRun

-----------------------------------------------------------------------------
\* System calls.

LEMMA EnterIInv ==
  ASSUME IInv, NEW c \in Cpu, TimerInterrupt(c) \/ SystemCall(c) \/ SystemReturn(c)
                              \/ Yield(c) \/ BlockSwitch(c)
  PROVE  IInv'
<1>1. PICK from \in Phase, to \in Phase :
        /\ <<from, to>> \in {<<"user", "save">>, <<"user", "svc">>, <<"svc", "user">>,
                             <<"svc", "save">>, <<"blocking", "save">>}
        /\ to = "svc" => current[c] # None
        /\ Goto(c, from, to)
        /\ UNCHANGED <<threadVars, current, listLock, sp0, walkVars>>
  BY DEF TimerInterrupt, SystemCall, SystemReturn, Yield, BlockSwitch
<1>2. UNCHANGED <<threads, running, ready, sleep, blockedBy, stack, current, listLock,
                  sp0, proc, idx, best, pick>>
  BY <1>1 DEF threadVars, walkVars
<1>3. Created' = Created
  BY <1>2, SameThreads
<1>4. TypeOK'
  BY <1>1, <1>2 DEF IInv, TypeOK, Goto
<1>5. phase' = [phase EXCEPT ![c] = to] /\ phase[c] = from
  BY <1>1 DEF Goto
<1>6. (LockInv /\ WalkInv /\ RunningInv /\ CurrentInv)'
  BY <1>1, <1>2, <1>5 DEF IInv, TypeOK, LockInv, WalkInv, RunningInv, CurrentInv
<1>7. (ChoiceInv /\ EligibleInv)'
  BY <1>1, <1>2, <1>3, <1>5 DEF IInv, TypeOK, ChoiceInv, EligibleInv, MayRun
<1>8. ContextInv'
  BY <1>1, <1>2, <1>5 DEF IInv, TypeOK, ContextInv
<1> QED
  BY <1>4, <1>6, <1>7, <1>8 DEF IInv

\* Nothing that a call does to its own thread concerns one that a walk has found.
LEMMA CallerIsRunning ==
  ASSUME IInv, NEW c \in Cpu, phase[c] = "svc"
  PROVE  /\ current[c] \in Thread /\ current[c] \in running
         /\ \A d \in Cpu : current[c] # best[d] /\ current[c] # pick[d]
         /\ \A d \in Cpu \ {c} : current[c] # current[d]
<1>1. current[c] \in Thread /\ current[c] # None
  BY DEF IInv, TypeOK, CurrentInv
<1>2. current[c] \in running
  BY <1>1 DEF IInv, RunningInv
<1>3. \A d \in Cpu : current[c] # best[d] /\ current[c] # pick[d]
  BY <1>1, <1>2 DEF IInv, ChoiceInv
<1>4. \A d \in Cpu \ {c} : current[c] # current[d]
  BY <1>1 DEF IInv, CurrentInv
<1> QED
  BY <1>1, <1>2, <1>3, <1>4

LEMMA SleepTicksIInv ==
  ASSUME IInv, NEW c \in Cpu, NEW n \in SleepArg, SleepTicks(c, n)
  PROVE  IInv'
<1> DEFINE t == current[c]
<1>1. /\ phase[c] = "svc" /\ phase' = [phase EXCEPT ![c] = "save"]
      /\ UNCHANGED <<threads, running, ready, blockedBy, stack, current, listLock, sp0,
                     proc, idx, best, pick>>
  BY DEF SleepTicks, Goto, walkVars
<1>2. /\ sleep' \in [Thread -> Nat]
      /\ \A u \in Thread : u # t => sleep'[u] = sleep[u]
  <2>1. Cardinality(Cpu) * (n + 1) \in Nat
    <3>1. Cardinality(Cpu) \in Nat /\ n \in Nat
      BY PmAssumption, FS_CardinalityType
    <3>2. \A i, j \in Nat : i * (j + 1) \in Nat
      OBVIOUS
    <3> QED
      BY <3>1, <3>2
  <2>2. sleep \in [Thread -> Nat] /\ t \in Thread
    BY <1>1, CallerIsRunning DEF IInv, TypeOK
  <2> QED
    BY <2>1, <2>2 DEF SleepTicks
<1>3. Created' = Created
  BY <1>1, SameThreads
<1>4. TypeOK'
  BY <1>1, <1>2 DEF IInv, TypeOK
<1>5. (LockInv /\ WalkInv /\ RunningInv /\ CurrentInv /\ ContextInv)'
  BY <1>1 DEF IInv, TypeOK, LockInv, WalkInv, RunningInv, CurrentInv, ContextInv
<1>6. (ChoiceInv /\ EligibleInv)'
  BY <1>1, <1>2, <1>3, CallerIsRunning DEF IInv, TypeOK, ChoiceInv, EligibleInv, MayRun
<1> QED
  BY <1>4, <1>5, <1>6 DEF IInv

LEMMA BlockIInv ==
  ASSUME IInv, NEW c \in Cpu, NEW o \in Object, Block(c, o)
  PROVE  IInv'
<1>1. /\ phase[c] = "svc" /\ phase' = [phase EXCEPT ![c] = "blocking"]
      /\ blockedBy' = [blockedBy EXCEPT ![current[c]] = o]
      /\ UNCHANGED <<threads, running, ready, sleep, stack, current, listLock, sp0,
                     proc, idx, best, pick>>
  BY DEF Block, Goto, walkVars
<1>2. Created' = Created
  BY <1>1, SameThreads
<1>3. TypeOK'
  BY <1>1 DEF IInv, TypeOK
<1>4. (LockInv /\ WalkInv /\ RunningInv /\ CurrentInv /\ ContextInv)'
  BY <1>1 DEF IInv, TypeOK, LockInv, WalkInv, RunningInv, CurrentInv, ContextInv
<1>5. (ChoiceInv /\ EligibleInv)'
  BY <1>1, <1>2, CallerIsRunning DEF IInv, TypeOK, ChoiceInv, EligibleInv, MayRun
<1> QED
  BY <1>3, <1>4, <1>5 DEF IInv

LEMMA UnblockIInv ==
  ASSUME IInv, NEW c \in Cpu, NEW t \in Thread, Unblock(c, t)
  PROVE  IInv'
<1>1. /\ blockedBy' = [blockedBy EXCEPT ![t] = None]
      /\ UNCHANGED <<threads, running, ready, sleep, stack, current, listLock, phase,
                     sp0, proc, idx, best, pick>>
  BY DEF Unblock, walkVars
<1>2. Created' = Created
  BY <1>1, SameThreads
<1>3. TypeOK'
  BY <1>1 DEF IInv, TypeOK
<1>4. (LockInv /\ WalkInv /\ RunningInv /\ CurrentInv /\ ContextInv)'
  BY <1>1 DEF IInv, LockInv, WalkInv, RunningInv, CurrentInv, ContextInv
<1>5. (ChoiceInv /\ EligibleInv)'
  BY <1>1, <1>2 DEF IInv, TypeOK, ChoiceInv, EligibleInv, MayRun
<1> QED
  BY <1>3, <1>4, <1>5 DEF IInv

LEMMA CreatedGrows ==
  ASSUME TypeOK, NEW c \in Cpu, NEW t \in Thread, ThreadCreate(c, t)
  PROVE  Created \subseteq Created' /\ threads' \in [Processes -> Seq(Thread)]
<1> DEFINE p == Parent[current[c]]
<1>1. /\ p \in Processes
      /\ threads \in [Processes -> Seq(Thread)]
      /\ threads' = [threads EXCEPT ![p] = Append(@, t)]
  <2>1. Parent[t] \in Processes
    BY PmAssumption
  <2>2. Parent[t] = p /\ threads' = [threads EXCEPT ![p] = Append(@, t)]
    BY DEF ThreadCreate
  <2> QED
    BY <2>1, <2>2 DEF TypeOK
<1>2. threads' \in [Processes -> Seq(Thread)]
  BY <1>1
<1>3. ASSUME NEW r \in Processes, NEW i \in 1..Len(threads[r])
      PROVE  i \in 1..Len(threads'[r]) /\ threads'[r][i] = threads[r][i]
  <2>1. threads[r] \in Seq(Thread)
    BY <1>1
  <2>2. CASE r = p
    <3>1. threads'[r] = Append(threads[r], t)
      BY <1>1, <2>2
    <3> QED
      BY <2>1, <3>1
  <2>3. CASE r # p
    BY <1>1, <2>3
  <2> QED
    BY <2>2, <2>3
<1>4. Created \subseteq Created'
  BY <1>3 DEF Created
<1> QED
  BY <1>2, <1>4

LEMMA ThreadCreateIInv ==
  ASSUME IInv, NEW c \in Cpu, NEW t \in Thread, ThreadCreate(c, t)
  PROVE  IInv'
<1>1. /\ t \notin Created
      /\ ready' = ready \cup {t}
      /\ UNCHANGED <<running, blockedBy, stack, current, listLock, phase, sp0,
                     proc, idx, best, pick>>
  BY DEF ThreadCreate, walkVars
<1>2. PICK g \in Garbage : sleep' = [sleep EXCEPT ![t] = g]
  BY DEF ThreadCreate
<1>3. Created \subseteq Created' /\ threads' \in [Processes -> Seq(Thread)]
  BY CreatedGrows DEF IInv
<1>4. TypeOK'
  BY <1>1, <1>2, <1>3, PmAssumption DEF IInv, TypeOK
<1>5. (LockInv /\ WalkInv /\ RunningInv /\ CurrentInv /\ ContextInv)'
  BY <1>1 DEF IInv, LockInv, WalkInv, RunningInv, CurrentInv, ContextInv
<1>6. \A d \in Cpu, u \in Thread : MayRun(d, u) => MayRun(d, u)'
  BY <1>1, <1>2, <1>3 DEF IInv, TypeOK, MayRun
<1>7. (ChoiceInv /\ EligibleInv)'
  BY <1>1, <1>6 DEF IInv, TypeOK, ChoiceInv, EligibleInv
<1> QED
  BY <1>4, <1>5, <1>7 DEF IInv

-----------------------------------------------------------------------------
\* The switch.

LEMMA SaveStackIInv ==
  ASSUME IInv, NEW c \in Cpu, SaveStack(c)
  PROVE  IInv'
<1>1. /\ phase[c] = "save" /\ phase' = [phase EXCEPT ![c] = "lock"]
      /\ UNCHANGED <<threads, running, ready, sleep, blockedBy, current, listLock, sp0,
                     proc, idx, best, pick>>
  BY DEF SaveStack, Goto, walkVars
<1>2. stack' = IF current[c] = None THEN stack
               ELSE [stack EXCEPT ![current[c]] = sp0[c]]
  BY DEF SaveStack
<1>3. Created' = Created
  BY <1>1, SameThreads
<1>4. TypeOK'
  BY <1>1, <1>2 DEF IInv, TypeOK
<1>5. (LockInv /\ WalkInv /\ RunningInv /\ CurrentInv)'
  BY <1>1 DEF IInv, TypeOK, LockInv, WalkInv, RunningInv, CurrentInv
<1>6. (ChoiceInv /\ EligibleInv)'
  BY <1>1, <1>3 DEF IInv, TypeOK, ChoiceInv, EligibleInv, MayRun
<1>7. \A d \in Cpu : phase'[d] \in Live => sp0'[d] = current'[d]
  BY <1>1 DEF IInv, TypeOK, ContextInv
<1>8. ASSUME NEW t \in Thread, \A d \in Cpu : current'[d] = t => phase'[d] \notin Live
      PROVE  stack'[t] = t
  <2>1. CASE t = current[c]
    BY <1>1, <1>2, <2>1, NoneIsNothing DEF IInv, TypeOK, ContextInv
  <2>2. CASE t # current[c]
    <3>1. stack'[t] = stack[t]
      BY <1>2, <2>2 DEF IInv, TypeOK
    <3>2. \A d \in Cpu : current[d] = t => phase[d] \notin Live
      BY <1>1, <1>8, <2>2 DEF IInv, TypeOK
    <3> QED
      BY <3>1, <3>2 DEF IInv, ContextInv
  <2> QED
    BY <2>1, <2>2
<1>9. ContextInv'
  BY <1>7, <1>8 DEF ContextInv
<1> QED
  BY <1>4, <1>5, <1>6, <1>9 DEF IInv

LEMMA LockListIInv ==
  ASSUME IInv, NEW c \in Cpu, LockList(c)
  PROVE  IInv'
<1>1. /\ listLock = None /\ listLock' = c
      /\ phase[c] = "lock" /\ phase' = [phase EXCEPT ![c] = "process"]
      /\ running' = running \ {current[c]}
      /\ proc' = [proc EXCEPT ![c] = 1]
      /\ UNCHANGED <<threads, ready, sleep, blockedBy, stack, current, sp0, idx, best,
                     pick>>
  BY DEF LockList, Goto
<1>2. Created' = Created
  BY <1>1, SameThreads
<1>3. TypeOK'
  BY <1>1 DEF IInv, TypeOK
<1>4. (LockInv /\ WalkInv /\ CurrentInv)'
  BY <1>1, NoneIsNothing DEF IInv, TypeOK, LockInv, WalkInv, CurrentInv
<1>5. RunningInv'
  <2> SUFFICES ASSUME NEW t \in Thread
               PROVE  t \in running' <=>
                        \E d \in Cpu : phase'[d] \notin Walking /\ current'[d] = t
    BY DEF RunningInv
  <2>1. CASE t = current[c]
    <3>1. \A d \in Cpu : current[d] = t => d = c
      BY <2>1, NoneIsNothing DEF IInv, CurrentInv
    <3> QED
      BY <1>1, <2>1, <3>1 DEF IInv, TypeOK
  <2>2. CASE t # current[c]
    <3>1. t \in running' <=> t \in running
      BY <1>1, <2>2
    <3>2. t \in running <=> \E d \in Cpu : phase[d] \notin Walking /\ current[d] = t
      BY DEF IInv, RunningInv
    <3> QED
      BY <1>1, <2>2, <3>1, <3>2 DEF IInv, TypeOK
  <2> QED
    BY <2>1, <2>2
<1>6. (ChoiceInv /\ EligibleInv)'
  BY <1>1, <1>2 DEF IInv, TypeOK, ChoiceInv, EligibleInv, MayRun
<1>7. ContextInv'
  BY <1>1 DEF IInv, TypeOK, ContextInv
<1> QED
  BY <1>3, <1>4, <1>5, <1>6, <1>7 DEF IInv

LEMMA EnterProcessIInv ==
  ASSUME IInv, NEW c \in Cpu, EnterProcess(c)
  PROVE  IInv'
<1>1. /\ phase[c] = "process" /\ phase' = [phase EXCEPT ![c] = "thread"]
      /\ idx' = [idx EXCEPT ![c] = 1]
      /\ UNCHANGED <<threads, running, ready, sleep, blockedBy, stack, current, listLock,
                     sp0, proc, best, pick>>
      /\ proc[c] <= Len(Process)
  BY DEF EnterProcess, Goto, threadVars
<1>2. Created' = Created
  BY <1>1, SameThreads
<1>3. TypeOK'
  BY <1>1 DEF IInv, TypeOK
<1>4. (LockInv /\ WalkInv /\ RunningInv /\ CurrentInv)'
  BY <1>1 DEF IInv, TypeOK, LockInv, WalkInv, RunningInv, CurrentInv
<1>5. (ChoiceInv /\ EligibleInv)'
  BY <1>1, <1>2 DEF IInv, TypeOK, ChoiceInv, EligibleInv, MayRun
<1>6. ContextInv'
  BY <1>1 DEF IInv, TypeOK, ContextInv
<1> QED
  BY <1>3, <1>4, <1>5, <1>6 DEF IInv

LEMMA VisitedIsCreated ==
  ASSUME IInv, NEW c \in Cpu, NEW t \in Thread, AtThread(c, t)
  PROVE  t \in Created
<1> DEFINE p == Process[proc[c]]
<1>1. proc[c] \in 1..Len(Process) /\ idx[c] \in 1..Len(threads[p])
  BY DEF IInv, TypeOK, WalkInv, AtThread
<1>2. p \in Processes
  BY <1>1 DEF Processes
<1>3. t = threads[p][idx[c]]
  BY DEF AtThread
<1> QED
  BY <1>1, <1>2, <1>3 DEF Created

LEMMA VisitThreadIInv ==
  ASSUME IInv, NEW c \in Cpu, NEW t \in Thread, VisitThread(c, t)
  PROVE  IInv'
<1>1. /\ phase[c] = "thread" /\ c \in Affinity[t]
      /\ sleep' = [sleep EXCEPT ![t] = TicksLeft(t)]
      /\ idx' = [idx EXCEPT ![c] = @ + 1]
      /\ UNCHANGED <<threads, running, blockedBy, stack, current, listLock, phase, sp0,
                     proc, pick>>
  BY DEF VisitThread, AtThread
<1>2. ready' \subseteq ready \cup {t}
  BY DEF VisitThread
<1>3. \/ best' = best
      \/ best' = [best EXCEPT ![c] = t] /\ Eligible(t)
  BY DEF VisitThread, Better, IInv, TypeOK
<1>4. TicksLeft(t) \in Nat /\ (sleep[t] = 0 => TicksLeft(t) = 0)
  BY DEF IInv, TypeOK, TicksLeft
<1>5. Created' = Created /\ t \in Created
  BY <1>1, SameThreads, VisitedIsCreated DEF VisitThread
<1>6. TypeOK'
  <2>1. sleep' \in [Thread -> Nat] /\ idx' \in [Cpu -> Nat] /\ ready' \subseteq Thread
    BY <1>1, <1>2, <1>4 DEF IInv, TypeOK
  <2>2. best' \in [Cpu -> Thread \cup {None}]
    BY <1>3 DEF IInv, TypeOK
  <2> QED
    BY <1>1, <2>1, <2>2 DEF IInv, TypeOK
<1>7. (LockInv /\ WalkInv /\ RunningInv /\ CurrentInv /\ ContextInv)'
  BY <1>1, <1>3 DEF IInv, TypeOK, LockInv, WalkInv, RunningInv, CurrentInv, ContextInv
<1>8. \A d \in Cpu, u \in Thread : MayRun(d, u) => MayRun(d, u)'
  BY <1>1, <1>4, <1>5 DEF IInv, TypeOK, MayRun
<1>9. Eligible(t) => t \notin running' /\ MayRun(c, t)'
  BY <1>1, <1>5 DEF IInv, TypeOK, MayRun, Eligible
<1>10. ChoiceInv'
  <2> SUFFICES ASSUME NEW d \in Cpu, NEW u \in {best'[d], pick'[d]}, u # None
               PROVE  phase'[d] \in Walking /\ u \notin running' /\ MayRun(d, u)'
    BY DEF ChoiceInv
  <2>1. CASE u = best[d] \/ u = pick[d]
    BY <1>1, <1>8, <2>1 DEF IInv, TypeOK, ChoiceInv
  <2>2. CASE d = c /\ u = t /\ Eligible(t)
    BY <1>1, <1>9, <2>2
  <2> QED
    BY <1>1, <1>3, <2>1, <2>2 DEF IInv, TypeOK
<1>11. EligibleInv'
  BY <1>1, <1>8 DEF IInv, TypeOK, EligibleInv
<1> QED
  BY <1>6, <1>7, <1>10, <1>11 DEF IInv

LEMMA PassThreadIInv ==
  ASSUME IInv, NEW c \in Cpu, NEW t \in Thread, PassThread(c, t)
  PROVE  IInv'
<1>1. /\ idx' = [idx EXCEPT ![c] = @ + 1]
      /\ UNCHANGED <<threads, running, ready, sleep, blockedBy, stack, current, listLock,
                     phase, sp0, proc, best, pick>>
  BY DEF PassThread, threadVars
<1>2. Created' = Created
  BY <1>1, SameThreads
<1>3. TypeOK'
  BY <1>1 DEF IInv, TypeOK
<1>4. (LockInv /\ WalkInv /\ RunningInv /\ CurrentInv /\ ContextInv)'
  BY <1>1 DEF IInv, TypeOK, LockInv, WalkInv, RunningInv, CurrentInv, ContextInv
<1>5. (ChoiceInv /\ EligibleInv)'
  BY <1>1, <1>2 DEF IInv, ChoiceInv, EligibleInv, MayRun
<1> QED
  BY <1>3, <1>4, <1>5 DEF IInv

LEMMA LeaveProcessIInv ==
  ASSUME IInv, NEW c \in Cpu, LeaveProcess(c)
  PROVE  IInv'
<1>1. /\ phase[c] = "thread" /\ phase' = [phase EXCEPT ![c] = "process"]
      /\ proc' = [proc EXCEPT ![c] = @ + 1]
      /\ idx' = [idx EXCEPT ![c] = 0]
      /\ best' = [best EXCEPT ![c] = None]
      /\ UNCHANGED <<threads, running, ready, sleep, blockedBy, stack, current, listLock,
                     sp0>>
  BY DEF LeaveProcess, Goto, threadVars
<1>2. /\ pick' = [pick EXCEPT ![c] = Better(best[c], @)]
      /\ Better(best[c], pick[c]) \in {best[c], pick[c]}
  BY DEF LeaveProcess, Better
<1>3. Created' = Created
  BY <1>1, SameThreads
<1>4. TypeOK'
  BY <1>1, <1>2 DEF IInv, TypeOK
<1>5. (LockInv /\ WalkInv /\ RunningInv /\ CurrentInv)'
  BY <1>1 DEF IInv, TypeOK, LockInv, WalkInv, RunningInv, CurrentInv
<1>6. ChoiceInv'
  <2> SUFFICES ASSUME NEW d \in Cpu, NEW u \in {best'[d], pick'[d]}, u # None
               PROVE  phase'[d] \in Walking /\ u \notin running' /\ MayRun(d, u)'
    BY DEF ChoiceInv
  <2>1. u \in {best[d], pick[d]}
    BY <1>1, <1>2 DEF IInv, TypeOK
  <2> QED
    BY <1>1, <1>3, <2>1 DEF IInv, TypeOK, ChoiceInv, MayRun
<1>7. EligibleInv'
  BY <1>1, <1>3 DEF IInv, TypeOK, EligibleInv, MayRun
<1>8. ContextInv'
  BY <1>1 DEF IInv, TypeOK, ContextInv
<1> QED
  BY <1>4, <1>5, <1>6, <1>7, <1>8 DEF IInv

LEMMA SelectIInv ==
  ASSUME IInv, NEW c \in Cpu, Select(c)
  PROVE  IInv'
<1> DEFINE t == pick[c]
<1>1. /\ t # None
      /\ phase[c] = "process" /\ phase' = [phase EXCEPT ![c] = "load"]
      /\ current' = [current EXCEPT ![c] = t]
      /\ running' = running \cup {t}
      /\ listLock' = None
      /\ proc' = [proc EXCEPT ![c] = 0]
      /\ pick' = [pick EXCEPT ![c] = None]
      /\ UNCHANGED <<threads, ready, sleep, blockedBy, stack, sp0, idx, best>>
  BY DEF Select, Goto
<1>2. t \in Thread /\ t \notin running /\ MayRun(c, t)
  BY <1>1 DEF IInv, TypeOK, ChoiceInv
<1>3. \A d \in Cpu \ {c} : phase[d] \notin Walking
  BY <1>1 DEF IInv, LockInv
<1>4. \A d \in Cpu \ {c} : current[d] # t
  BY <1>2, <1>3 DEF IInv, RunningInv
<1>5. Created' = Created
  BY <1>1, SameThreads
<1>6. TypeOK'
  BY <1>1, <1>2 DEF IInv, TypeOK
<1>7. (LockInv /\ WalkInv)'
  BY <1>1, <1>3, NoneIsNothing DEF IInv, TypeOK, LockInv, WalkInv
<1>8. RunningInv'
  <2> SUFFICES ASSUME NEW u \in Thread
               PROVE  u \in running' <=>
                        \E d \in Cpu : phase'[d] \notin Walking /\ current'[d] = u
    BY DEF RunningInv
  <2>1. CASE u = t
    BY <1>1, <2>1 DEF IInv, TypeOK
  <2>2. CASE u # t
    <3>1. u \in running <=> \E d \in Cpu : phase[d] \notin Walking /\ current[d] = u
      BY DEF IInv, RunningInv
    <3> QED
      BY <1>1, <2>2, <3>1 DEF IInv, TypeOK
  <2> QED
    BY <2>1, <2>2
<1>9. CurrentInv'
  BY <1>1, <1>4 DEF IInv, TypeOK, CurrentInv
<1>10. ChoiceInv'
  <2> SUFFICES ASSUME NEW d \in Cpu, NEW u \in {best'[d], pick'[d]}, u # None
               PROVE  phase'[d] \in Walking /\ u \notin running' /\ MayRun(d, u)'
    BY DEF ChoiceInv
  <2>1. u \in {best[d], pick[d]} /\ phase[d] \in Walking
    BY <1>1 DEF IInv, TypeOK, ChoiceInv
  <2>2. d = c /\ u = best[c]
    BY <1>1, <1>3, <2>1 DEF IInv, TypeOK
  <2>3. best[c] = None
    BY <1>1 DEF IInv, WalkInv
  <2> QED
    BY <2>2, <2>3
<1>11. EligibleInv'
  BY <1>1, <1>2, <1>5 DEF IInv, TypeOK, EligibleInv, MayRun
<1>12. ContextInv'
  BY <1>1 DEF IInv, TypeOK, ContextInv
<1> QED
  BY <1>6, <1>7, <1>8, <1>9, <1>10, <1>11, <1>12 DEF IInv

LEMMA LoadStackIInv ==
  ASSUME IInv, NEW c \in Cpu, LoadStack(c)
  PROVE  IInv'
<1> DEFINE t == current[c]
<1>1. /\ phase[c] = "load" /\ phase' = [phase EXCEPT ![c] = "user"]
      /\ sp0' = [sp0 EXCEPT ![c] = stack[t]]
      /\ stack' = [stack EXCEPT ![t] = None]
      /\ UNCHANGED <<threads, running, ready, sleep, blockedBy, current, listLock,
                     proc, idx, best, pick>>
  BY DEF LoadStack, Goto, walkVars
<1>2. t \in Thread /\ t # None
  BY <1>1 DEF IInv, TypeOK, CurrentInv
<1>3. \A d \in Cpu : current[d] = t => d = c
  BY <1>2 DEF IInv, CurrentInv
<1>4. stack[t] = t
  BY <1>1, <1>2, <1>3 DEF IInv, ContextInv
<1>5. Created' = Created
  BY <1>1, SameThreads
<1>6. TypeOK'
  BY <1>1, <1>2, <1>4 DEF IInv, TypeOK
<1>7. (LockInv /\ WalkInv /\ RunningInv /\ CurrentInv)'
  BY <1>1 DEF IInv, TypeOK, LockInv, WalkInv, RunningInv, CurrentInv
<1>8. (ChoiceInv /\ EligibleInv)'
  BY <1>1, <1>5 DEF IInv, TypeOK, ChoiceInv, EligibleInv, MayRun
<1>9. \A d \in Cpu : phase'[d] \in Live => sp0'[d] = current'[d]
  BY <1>1, <1>4 DEF IInv, TypeOK, ContextInv
<1>10. ASSUME NEW u \in Thread, \A d \in Cpu : current'[d] = u => phase'[d] \notin Live
       PROVE  stack'[u] = u
  <2>1. u # t
    BY <1>1, <1>10 DEF IInv, TypeOK
  <2>2. \A d \in Cpu : current[d] = u => phase[d] \notin Live
    BY <1>1, <1>10, <2>1 DEF IInv, TypeOK
  <2>3. stack[u] = u
    BY <2>2 DEF IInv, ContextInv
  <2> QED
    BY <1>1, <2>1, <2>3 DEF IInv, TypeOK
<1>11. ContextInv'
  BY <1>9, <1>10 DEF ContextInv
<1> QED
  BY <1>6, <1>7, <1>8, <1>11 DEF IInv

-----------------------------------------------------------------------------

LEMMA StutterIInv == IInv /\ UNCHANGED pmVars => IInv'
BY SameThreads
   DEF IInv, pmVars, TypeOK, LockInv, WalkInv, RunningInv, CurrentInv, ChoiceInv,
       EligibleInv, ContextInv, MayRun

LEMMA NextIInv == IInv /\ [Next]_pmVars => IInv'
<1> SUFFICES ASSUME IInv, Next
             PROVE  IInv'
  BY StutterIInv
<1>1. PICK c \in Cpu : TimerInterrupt(c) \/ Calls(c) \/ Switch(c)
  BY DEF Next
<1>2. CASE TimerInterrupt(c)
  BY <1>2, EnterIInv
<1>3. CASE Calls(c)
  BY <1>3, EnterIInv, SleepTicksIInv, ThreadCreateIInv, UnblockIInv, BlockIInv DEF Calls
<1>4. CASE Switch(c)
  BY <1>4, SaveStackIInv, LockListIInv, EnterProcessIInv, VisitThreadIInv,
     PassThreadIInv, LeaveProcessIInv, SelectIInv, LoadStackIInv DEF Switch
<1> QED
  BY <1>1, <1>2, <1>3, <1>4

LEMMA Invariance == Spec => []IInv
BY InitIInv, NextIInv, PTL DEF Spec

\* The scheduler's state is well typed, for any CPUs, processes and threads.
THEOREM TypeCorrect == Spec => []TypeOK
<1>1. IInv => TypeOK
  BY DEF IInv
<1> QED
  BY <1>1, Invariance, PTL

\* No thread executes on two CPUs, however the CPUs interleave their switches: the
\* walk skips a RUNNING thread, and the flag is cleared and set under the list's lock.
THEOREM Exclusive == Spec => []ExclusiveExecution
<1>1. IInv => ExclusiveExecution
  <2> SUFFICES ASSUME IInv, NEW c \in Cpu, NEW d \in Cpu, c # d
               PROVE  /\ current[c] # None => current[c] # current[d]
                      /\ phase[c] = "user" /\ phase[d] = "user" /\ sp0[c] # None
                           => sp0[c] # sp0[d]
    BY DEF ExclusiveExecution
  <2> QED
    BY DEF IInv, CurrentInv, ContextInv
<1> QED
  BY <1>1, Invariance, PTL

\* A thread resumes where it last stopped: the stack pointer that one CPU saved is
\* the one that the next CPU loads.
THEOREM Fresh == Spec => []ContextFresh
<1>1. IInv => ContextFresh
  BY DEF IInv, ContextInv, ContextFresh
<1> QED
  BY <1>1, Invariance, PTL

\* A thread that executes is not blocked, not asleep and allowed on its CPU, though
\* the walk that chose it read those fields some steps earlier.
THEOREM Fit == Spec => []RunnersEligible
<1>1. IInv => RunnersEligible
  BY DEF IInv, EligibleInv, MayRun, RunnersEligible
<1> QED
  BY <1>1, Invariance, PTL

\* The RUNNING flags and CURRENT_THREAD agree outside the walk.
THEOREM FlagsAgree == Spec => []RunningIsCurrent
<1>1. IInv => RunningIsCurrent
  <2> SUFFICES ASSUME IInv
               PROVE  \A t : t \in running <=>
                        t # None /\ \E c \in Cpu : phase[c] \notin Walking /\ current[c] = t
    BY DEF RunningIsCurrent
  <2>1. running \subseteq Thread /\ \A c \in Cpu : current[c] \in Thread \cup {None}
    BY DEF IInv, TypeOK
  <2> QED
    BY <2>1, NoneIsNothing DEF IInv, RunningInv
<1> QED
  BY <1>1, Invariance, PTL

-----------------------------------------------------------------------------
\* What the walk of the process list finds.

\* A list of threads only grows, at its end.
BootInv ==
  \A p \in Processes :
    /\ Len(BootThreads[p]) <= Len(threads[p])
    /\ \A i \in 1..Len(BootThreads[p]) : threads[p][i] = BootThreads[p][i]

\* The calls that make a thread wait are not made by an idle thread, and an idle
\* thread that may run on one CPU only is found running by no walk of that CPU.
IdleInv ==
  /\ \A c \in Cpu : phase[c] \in {"svc", "blocking"} => current[c] \notin Idle
  /\ \A c \in Cpu : current[c] # None => c \in Affinity[current[c]]
  /\ \A t \in Booted \cap Idle : sleep[t] = 0 /\ blockedBy[t] = None
  /\ \A c \in Cpu, t \in Booted \cap Idle : Affinity[t] = {c} => t \in ready

\* c's walk is past the place i of the process k.
Past(c, k, i) == k < proc[c] \/ (k = proc[c] /\ phase[c] = "thread" /\ i < idx[c])

Visited(c, t) ==
  \E k \in 1..Len(Process) : \E i \in 1..Len(BootThreads[Process[k]]) :
    BootThreads[Process[k]][i] = t /\ Past(c, k, i)

\* What the walk has so far is at least as urgent as each ready thread it visited.
Covers(c, t) == Rank(pick[c]) <= Priority[t] \/ Rank(best[c]) <= Priority[t]

Scan(c) ==
  phase[c] \in Walking =>
    \A t \in Booted : t \in ready /\ c \in Affinity[t] /\ Visited(c, t) => Covers(c, t)

ScanInv == \A c \in Cpu : Scan(c)

WInv == BootInv /\ IdleInv /\ ScanInv

-----------------------------------------------------------------------------

LEMMA BootedThreads == Booted \subseteq Thread
<1> SUFFICES ASSUME NEW p \in Processes, NEW i \in 1..Len(BootThreads[p])
             PROVE  BootThreads[p][i] \in Thread
  BY DEF Booted
<1>1. BootThreads[p] \in Seq(Thread)
  BY PmAssumption
<1> QED
  BY <1>1

LEMMA ListsAre ==
  ASSUME TypeOK, NEW k \in 1..Len(Process)
  PROVE  /\ Process[k] \in Processes
         /\ BootThreads[Process[k]] \in Seq(Thread) /\ threads[Process[k]] \in Seq(Thread)
<1>1. Process[k] \in Processes
  BY DEF Processes
<1> QED
  BY <1>1, PmAssumption DEF TypeOK

LEMMA BootedIsCreated ==
  ASSUME TypeOK, BootInv
  PROVE  Booted \subseteq Created
<1> SUFFICES ASSUME NEW p \in Processes, NEW i \in 1..Len(BootThreads[p])
             PROVE  i \in 1..Len(threads[p]) /\ threads[p][i] = BootThreads[p][i]
  BY DEF Booted, Created
<1>1. BootThreads[p] \in Seq(Thread) /\ threads[p] \in Seq(Thread)
  BY PmAssumption DEF TypeOK
<1> QED
  BY <1>1 DEF BootInv

LEMMA RankIs ==
  ASSUME NEW t \in Thread \cup {None}
  PROVE  Rank(t) \in Nat /\ Rank(t) <= MaxPriority /\ (t # None => Rank(t) = Priority[t])
<1>1. MaxPriority \in Nat /\ Priority \in [Thread -> 0..MaxPriority]
  BY PmAssumption
<1> QED
  BY <1>1 DEF Rank

LEMMA BetterIs ==
  ASSUME NEW t \in Thread \cup {None}, NEW u \in Thread \cup {None}
  PROVE  Rank(Better(t, u)) <= Rank(t) /\ Rank(Better(t, u)) <= Rank(u)
BY RankIs DEF Better

LEMMA InitWInv == Init => WInv
<1> SUFFICES ASSUME Init PROVE WInv
  OBVIOUS
<1>1. BootInv
  <2> SUFFICES ASSUME NEW p \in Processes PROVE Len(BootThreads[p]) <= Len(BootThreads[p])
    BY DEF Init, BootInv
  <2>1. BootThreads[p] \in Seq(Thread)
    BY PmAssumption
  <2> QED
    BY <2>1
<1>2. Booted \subseteq Created
  BY DEF Init, Booted, Created
<1>3. IdleInv
  BY <1>2, BootedThreads DEF Init, IdleInv
<1>4. ScanInv
  BY DEF Init, ScanInv, Scan
<1> QED
  BY <1>1, <1>3, <1>4 DEF WInv

-----------------------------------------------------------------------------
\* The lists

LEMMA BootGrows ==
  ASSUME TypeOK, BootInv, NEW c \in Cpu, NEW t \in Thread, ThreadCreate(c, t)
  PROVE  BootInv'
<1> DEFINE q == Parent[current[c]]
<1>1. threads' = [threads EXCEPT ![q] = Append(@, t)]
  BY DEF ThreadCreate
<1> SUFFICES ASSUME NEW p \in Processes
             PROVE  /\ Len(BootThreads[p]) <= Len(threads'[p])
                    /\ \A i \in 1..Len(BootThreads[p]) : threads'[p][i] = BootThreads[p][i]
  BY DEF BootInv
<1>2. threads[p] \in Seq(Thread) /\ BootThreads[p] \in Seq(Thread)
  BY PmAssumption DEF TypeOK
<1>3. /\ Len(BootThreads[p]) <= Len(threads[p])
      /\ \A i \in 1..Len(BootThreads[p]) : threads[p][i] = BootThreads[p][i]
  BY DEF BootInv
<1>4. CASE p = q
  <2>1. threads'[p] = Append(threads[p], t)
    BY <1>1, <1>4 DEF TypeOK
  <2> QED
    BY <1>2, <1>3, <2>1
<1>5. CASE p # q
  BY <1>1, <1>3, <1>5 DEF TypeOK
<1> QED
  BY <1>4, <1>5

LEMMA NextBootInv == TypeOK /\ BootInv /\ [Next]_pmVars => BootInv'
<1> SUFFICES ASSUME TypeOK, BootInv, [Next]_pmVars PROVE BootInv'
  OBVIOUS
<1>1. CASE threads' = threads
  BY <1>1 DEF BootInv
<1>2. (\E c \in Cpu, t \in Thread : ThreadCreate(c, t)) \/ threads' = threads
  BY DEF Next, Calls, Switch, pmVars, threadVars, TimerInterrupt, SystemCall, SystemReturn,
         Yield, SleepTicks, Block, BlockSwitch, Unblock, SaveStack, LockList, EnterProcess,
         VisitThread, PassThread, LeaveProcess, Select, LoadStack
<1> QED
  BY <1>1, <1>2, BootGrows

-----------------------------------------------------------------------------
\* Idle threads

LEMMA CallsIdleInv ==
  ASSUME IInv, BootInv, IdleInv, NEW c \in Cpu, TimerInterrupt(c) \/ Calls(c)
  PROVE  IdleInv'
<1>1. current' = current
  BY DEF Calls, TimerInterrupt, SystemCall, SystemReturn, Yield, SleepTicks, Block,
         BlockSwitch, Unblock, ThreadCreate
<1>2. \A d \in Cpu : phase'[d] \in {"svc", "blocking"} => current[d] \notin Idle
  BY DEF IInv, TypeOK, IdleInv, Calls, TimerInterrupt, SystemCall, SystemReturn, Yield,
         SleepTicks, Block, BlockSwitch, Unblock, ThreadCreate, Goto
<1>3. ready \subseteq ready'
  BY DEF Calls, TimerInterrupt, SystemCall, SystemReturn, Yield, SleepTicks, Block,
         BlockSwitch, Unblock, ThreadCreate, threadVars
<1>4. ASSUME NEW t \in Booted \cap Idle
      PROVE  sleep'[t] = 0 /\ blockedBy'[t] = None
  <2>1. sleep[t] = 0 /\ blockedBy[t] = None /\ t \in Thread /\ t \in Created
    BY BootedThreads, BootedIsCreated DEF IInv, IdleInv
  <2>2. phase[c] = "svc" => current[c] # t
    BY DEF IdleInv
  <2>3. CASE UNCHANGED <<sleep, blockedBy>>
    BY <2>1, <2>3
  <2>4. CASE \E n \in SleepArg : SleepTicks(c, n)
    BY <2>1, <2>2, <2>4 DEF IInv, TypeOK, SleepTicks, Goto
  <2>5. CASE \E u \in Thread : ThreadCreate(c, u) \/ Unblock(c, u)
    BY <2>1, <2>5 DEF IInv, TypeOK, ThreadCreate, Unblock
  <2>6. CASE \E o \in Object : Block(c, o)
    BY <2>1, <2>2, <2>6 DEF IInv, TypeOK, Block, Goto
  <2> QED
    BY <2>3, <2>4, <2>5, <2>6 DEF Calls, TimerInterrupt, SystemCall, SystemReturn, Yield,
       BlockSwitch, threadVars
<1> QED
  BY <1>1, <1>2, <1>3, <1>4 DEF IdleInv

LEMMA SwitchIdleInv ==
  ASSUME IInv, IdleInv, NEW c \in Cpu, Switch(c)
  PROVE  IdleInv'
<1>1. CASE \E t \in Thread : VisitThread(c, t)
  <2> PICK t \in Thread : VisitThread(c, t)
    BY <1>1
  <2>1. /\ phase[c] = "thread" /\ c \in Affinity[t]
        /\ sleep' = [sleep EXCEPT ![t] = TicksLeft(t)]
        /\ ready' = IF Eligible(t) THEN ready \cup {t} ELSE ready \ {t}
        /\ UNCHANGED <<running, blockedBy, current, phase>>
    BY DEF VisitThread, AtThread
  <2>2. \A u \in Booted \cap Idle : sleep'[u] = 0 /\ blockedBy'[u] = None
    BY <2>1, BootedThreads DEF IInv, TypeOK, IdleInv, TicksLeft
  <2>3. ASSUME NEW d \in Cpu, NEW u \in Booted \cap Idle, Affinity[u] = {d}
        PROVE  u \in ready'
    <3>1. CASE u = t
      <4>1. d = c /\ sleep[t] = 0 /\ blockedBy[t] = None
        BY <2>1, <2>3, <3>1 DEF IdleInv
      <4>2. t \notin running
        <5>1. \A e \in Cpu : current[e] = t => e = c
          BY <2>3, <3>1, <4>1, NoneIsNothing DEF IdleInv
        <5> QED
          BY <2>1, <5>1 DEF IInv, RunningInv
      <4> QED
        BY <2>1, <3>1, <4>1, <4>2 DEF Eligible, TicksLeft
    <3>2. CASE u # t
      BY <2>1, <2>3, <3>2 DEF IdleInv
    <3> QED
      BY <3>1, <3>2
  <2> QED
    BY <2>1, <2>2, <2>3 DEF IdleInv
<1>2. CASE Select(c)
  <2>1. /\ pick[c] # None /\ phase' = [phase EXCEPT ![c] = "load"]
        /\ current' = [current EXCEPT ![c] = pick[c]]
        /\ UNCHANGED <<ready, sleep, blockedBy>>
    BY <1>2 DEF Select, Goto
  <2>2. c \in Affinity[pick[c]]
    BY <2>1 DEF IInv, ChoiceInv, MayRun
  <2> QED
    BY <2>1, <2>2 DEF IInv, TypeOK, IdleInv
<1>3. CASE SaveStack(c) \/ LockList(c) \/ EnterProcess(c) \/ LeaveProcess(c) \/ LoadStack(c)
           \/ \E t \in Thread : PassThread(c, t)
  <2>1. UNCHANGED <<ready, sleep, blockedBy, current>>
    BY <1>3 DEF SaveStack, LockList, EnterProcess, LeaveProcess, LoadStack, PassThread, threadVars
  <2>2. \A d \in Cpu : phase'[d] \in {"svc", "blocking"} => phase'[d] = phase[d]
    BY <1>3 DEF IInv, TypeOK, SaveStack, LockList, EnterProcess, LeaveProcess, LoadStack,
                PassThread, Goto
  <2> QED
    BY <2>1, <2>2 DEF IdleInv
<1> QED
  BY <1>1, <1>2, <1>3 DEF Switch

LEMMA NextIdleInv == IInv /\ BootInv /\ IdleInv /\ [Next]_pmVars => IdleInv'
<1>1. IdleInv /\ UNCHANGED pmVars => IdleInv'
  BY DEF IdleInv, pmVars
<1> QED
  BY <1>1, CallsIdleInv, SwitchIdleInv DEF Next

-----------------------------------------------------------------------------
\* The walk

LEMMA SameScan ==
  ASSUME NEW d \in Cpu, Scan(d),
         phase'[d] = phase[d], proc'[d] = proc[d], idx'[d] = idx[d],
         best'[d] = best[d], pick'[d] = pick[d],
         \A t \in Booted : t \in ready' => t \in ready
  PROVE  Scan(d)'
<1>1. \A t : Covers(d, t)' <=> Covers(d, t)
  BY DEF Covers, Rank
<1>2. \A t : Visited(d, t)' <=> Visited(d, t)
  BY DEF Visited, Past
<1> QED
  BY <1>1, <1>2 DEF Scan

LEMMA VisitScan ==
  ASSUME IInv, BootInv, NEW c \in Cpu, NEW u \in Thread, Scan(c),
         VisitThread(c, u) \/ PassThread(c, u)
  PROVE  Scan(c)'
<1>1. /\ phase[c] = "thread" /\ idx' = [idx EXCEPT ![c] = @ + 1]
      /\ u = threads[Process[proc[c]]][idx[c]]
      /\ UNCHANGED <<proc, pick, phase>>
  BY DEF VisitThread, PassThread, AtThread
<1>2. proc[c] \in 1..Len(Process) /\ idx[c] \in Nat /\ idx[c] >= 1 /\ idx'[c] = idx[c] + 1
  BY <1>1 DEF IInv, TypeOK, WalkInv
<1>3. best[c] \in Thread \cup {None} /\ pick[c] \in Thread \cup {None}
  BY DEF IInv, TypeOK
<1> SUFFICES ASSUME NEW t \in Booted, t \in ready', c \in Affinity[t], Visited(c, t)'
             PROVE  Covers(c, t)'
  BY DEF Scan
<1>4. t \in Thread /\ Priority[t] \in Nat
  BY BootedThreads, PmAssumption
<1>5. t = u \/ Visited(c, t)
  <2>0. PICK k \in 1..Len(Process) : \E i \in 1..Len(BootThreads[Process[k]]) :
         BootThreads[Process[k]][i] = t /\ Past(c, k, i)'
    BY DEF Visited
  <2>1. PICK i \in 1..Len(BootThreads[Process[k]]) :
         BootThreads[Process[k]][i] = t /\ Past(c, k, i)'
    BY <2>0
  <2>2. k < proc[c] \/ (k = proc[c] /\ i < idx[c] + 1)
    BY <1>1, <1>2, <2>1 DEF Past
  <2>3. i \in Nat
    BY ListsAre DEF IInv
  <2>4. CASE Past(c, k, i)
    BY <2>1, <2>4 DEF Visited
  <2>5. CASE k = proc[c] /\ i = idx[c]
    <3>1. threads[Process[k]][i] = BootThreads[Process[k]][i]
      BY ListsAre DEF IInv, BootInv
    <3> QED
      BY <1>1, <2>1, <2>5, <3>1
  <2> QED
    BY <1>1, <1>2, <2>2, <2>3, <2>4, <2>5 DEF Past
<1>6. CASE t = u
  <2>1. VisitThread(c, t) /\ Eligible(t)
    BY <1>6 DEF VisitThread, PassThread
  <2>2. best'[c] = Better(t, best[c])
    BY <2>1 DEF VisitThread, IInv, TypeOK
  <2>3. Rank(Better(t, best[c])) <= Priority[t]
    BY <1>3, <1>4, BetterIs, RankIs, NoneIsNothing
  <2> QED
    BY <2>2, <2>3 DEF Covers, Rank
<1>7. CASE t # u
  <2>1. t \in ready /\ Covers(c, t)
    <3>1. t \in ready
      BY <1>7 DEF VisitThread, PassThread, threadVars
    <3> QED
      BY <1>1, <1>5, <1>7, <3>1 DEF Scan
  <2>2. best'[c] = best[c] \/ best'[c] = Better(u, best[c])
    BY DEF VisitThread, PassThread, IInv, TypeOK
  <2>3. Rank(best'[c]) <= Rank(best[c])
    BY <2>2, <1>3, BetterIs, RankIs
  <2>4. Rank(best[c]) \in Nat /\ Rank(best'[c]) \in Nat
    BY <2>2, <1>3, RankIs DEF Better
  <2> QED
    BY <1>1, <1>4, <2>1, <2>3, <2>4 DEF Covers, Rank
<1> QED
  BY <1>6, <1>7

LEMMA LeaveScan ==
  ASSUME IInv, BootInv, NEW c \in Cpu, Scan(c), LeaveProcess(c)
  PROVE  Scan(c)'
<1>1. /\ phase[c] = "thread" /\ phase'[c] = "process" /\ proc'[c] = proc[c] + 1
      /\ idx[c] > Len(threads[Process[proc[c]]])
      /\ pick'[c] = Better(best[c], pick[c]) /\ best'[c] = None /\ ready' = ready
  BY DEF LeaveProcess, Goto, IInv, TypeOK, threadVars
<1>2. proc[c] \in 1..Len(Process) /\ idx[c] \in Nat
  BY <1>1 DEF IInv, TypeOK, WalkInv
<1>3. best[c] \in Thread \cup {None} /\ pick[c] \in Thread \cup {None}
  BY DEF IInv, TypeOK
<1> SUFFICES ASSUME NEW t \in Booted, t \in ready, c \in Affinity[t], Visited(c, t)'
             PROVE  Covers(c, t)'
  BY <1>1 DEF Scan
<1>4. Visited(c, t)
  <2>0. PICK k \in 1..Len(Process) : \E i \in 1..Len(BootThreads[Process[k]]) :
         BootThreads[Process[k]][i] = t /\ Past(c, k, i)'
    BY DEF Visited
  <2>1. PICK i \in 1..Len(BootThreads[Process[k]]) :
         BootThreads[Process[k]][i] = t /\ Past(c, k, i)'
    BY <2>0
  <2>2. k < proc[c] + 1
    BY <1>1, <2>1 DEF Past
  <2>3. CASE k < proc[c]
    BY <2>1, <2>3 DEF Visited, Past
  <2>4. CASE k = proc[c]
    <3>1. Len(BootThreads[Process[k]]) <= Len(threads[Process[k]])
      BY ListsAre DEF IInv, BootInv
    <3>2. i < idx[c]
      BY <1>1, <1>2, <2>4, <3>1, ListsAre DEF IInv
    <3> QED
      BY <1>1, <2>1, <2>4, <3>2 DEF Visited, Past
  <2> QED
    BY <1>2, <2>2, <2>3, <2>4
<1>5. Covers(c, t)
  BY <1>1, <1>4 DEF Scan
<1>6. Rank(pick'[c]) <= Rank(best[c]) /\ Rank(pick'[c]) <= Rank(pick[c])
  BY <1>1, <1>3, BetterIs
<1>7. Rank(best[c]) \in Nat /\ Rank(pick[c]) \in Nat /\ Rank(pick'[c]) \in Nat
      /\ Priority[t] \in Nat
  BY <1>1, <1>3, RankIs, BootedThreads, PmAssumption DEF Better
<1> QED
  BY <1>5, <1>6, <1>7 DEF Covers, Rank

\* The steps that begin a walk or a process have visited nothing more.
LEMMA BeginScan ==
  ASSUME IInv, NEW c \in Cpu, Scan(c), LockList(c) \/ EnterProcess(c)
  PROVE  Scan(c)'
<1>1. CASE LockList(c)
  <2>1. phase'[c] = "process" /\ proc'[c] = 1
    BY <1>1 DEF LockList, Goto, IInv, TypeOK
  <2>2. \A t : ~ Visited(c, t)'
    BY <2>1 DEF Visited, Past
  <2> QED
    BY <2>2 DEF Scan
<1>2. CASE EnterProcess(c)
  <2>1. phase[c] = "process" /\ phase'[c] = "thread" /\ proc' = proc /\ idx'[c] = 1
        /\ UNCHANGED <<best, pick, ready>>
    BY <1>2 DEF EnterProcess, Goto, IInv, TypeOK, threadVars
  <2>2. ASSUME NEW t, Visited(c, t)' PROVE Visited(c, t)
    <3>0. PICK k \in 1..Len(Process) : \E i \in 1..Len(BootThreads[Process[k]]) :
           BootThreads[Process[k]][i] = t /\ Past(c, k, i)'
      BY <2>2 DEF Visited
    <3>1. PICK i \in 1..Len(BootThreads[Process[k]]) :
           BootThreads[Process[k]][i] = t /\ Past(c, k, i)'
      BY <3>0
    <3>2. k < proc[c]
      BY <2>1, <3>1 DEF Past
    <3> QED
      BY <3>1, <3>2 DEF Visited, Past
  <2>3. \A t : Covers(c, t)' <=> Covers(c, t)
    BY <2>1 DEF Covers, Rank
  <2> QED
    BY <2>1, <2>2, <2>3 DEF Scan
<1> QED
  BY <1>1, <1>2

\* A step of one CPU leaves the walks of the others as they are, and only the one
\* that holds the list's lock takes a thread that it visits.
LEMMA NextScanInv == IInv /\ BootInv /\ ScanInv /\ [Next]_pmVars => ScanInv'
<1> SUFFICES ASSUME IInv, BootInv, ScanInv, [Next]_pmVars PROVE ScanInv'
  OBVIOUS
<1>1. CASE UNCHANGED pmVars
  BY <1>1, SameScan DEF ScanInv, pmVars
<1>2. ASSUME NEW c \in Cpu, Calls(c) \/ TimerInterrupt(c) PROVE ScanInv'
  <2>1. UNCHANGED <<proc, idx, best, pick>>
    BY <1>2 DEF Calls, TimerInterrupt, SystemCall, SystemReturn, Yield, SleepTicks, Block,
                BlockSwitch, Unblock, ThreadCreate, walkVars
  <2>2. \A t \in Booted : t \in ready' => t \in ready
    BY <1>2, BootedIsCreated DEF IInv, Calls, TimerInterrupt, SystemCall, SystemReturn, Yield,
       SleepTicks, Block, BlockSwitch, Unblock, ThreadCreate, threadVars
  <2>3. ASSUME NEW d \in Cpu PROVE phase'[d] = phase[d] \/ phase'[d] \notin Walking
    BY <1>2 DEF IInv, TypeOK, Calls, TimerInterrupt, SystemCall, SystemReturn, Yield,
       SleepTicks, Block, BlockSwitch, Unblock, ThreadCreate, Goto
  <2>4. ASSUME NEW d \in Cpu PROVE Scan(d)'
    <3>1. CASE phase'[d] = phase[d]
      BY <2>1, <2>2, <3>1, SameScan DEF ScanInv
    <3>2. CASE phase'[d] \notin Walking
      BY <3>2 DEF Scan
    <3> QED
      BY <2>3, <3>1, <3>2
  <2> QED
    BY <2>4 DEF ScanInv
<1>3. ASSUME NEW c \in Cpu, Switch(c) PROVE ScanInv'
  <2>1. Scan(c)'
    <3>1. CASE SaveStack(c) \/ LoadStack(c) \/ Select(c)
      <4>1. phase'[c] \notin Walking
        BY <3>1 DEF IInv, TypeOK, SaveStack, LoadStack, Select, Goto
      <4> QED
        BY <4>1 DEF Scan
    <3> QED
      BY <1>3, <3>1, VisitScan, LeaveScan, BeginScan DEF ScanInv, Switch
  <2>2. ASSUME NEW d \in Cpu \ {c} PROVE Scan(d)'
    <3>1. /\ phase'[d] = phase[d] /\ proc'[d] = proc[d] /\ idx'[d] = idx[d]
          /\ best'[d] = best[d] /\ pick'[d] = pick[d]
      BY <1>3 DEF IInv, TypeOK, Switch, SaveStack, LockList, EnterProcess, VisitThread,
         PassThread, LeaveProcess, Select, LoadStack, Goto, walkVars
    <3>2. ready' = ready \/ phase[c] = "thread"
      BY <1>3 DEF Switch, SaveStack, LockList, EnterProcess, VisitThread, AtThread,
         PassThread, LeaveProcess, Select, LoadStack, threadVars
    <3>3. CASE ready' = ready
      BY <3>1, <3>3, SameScan DEF ScanInv
    <3>4. CASE phase[c] = "thread"
      <4>1. phase'[d] \notin Walking
        BY <3>1, <3>4 DEF IInv, LockInv
      <4> QED
        BY <4>1 DEF Scan
    <3> QED
      BY <3>2, <3>3, <3>4
  <2> QED
    BY <2>1, <2>2 DEF ScanInv
<1> QED
  BY <1>1, <1>2, <1>3 DEF Next

LEMMA WInvariance == Spec => [](IInv /\ WInv)
<1>1. IInv /\ WInv /\ [Next]_pmVars => WInv'
  BY NextBootInv, NextIdleInv, NextScanInv DEF IInv, WInv
<1> QED
  BY <1>1, InitIInv, InitWInv, NextIInv, PTL DEF Spec

-----------------------------------------------------------------------------
\* Results

\* Behind the last process the walk has visited every thread there was at boot.
LEMMA AllVisited ==
  ASSUME NEW c \in Cpu, TypeOK, proc[c] > Len(Process), NEW t \in Booted
  PROVE  Visited(c, t)
<1>1. PICK p \in Processes : \E i \in 1..Len(BootThreads[p]) : BootThreads[p][i] = t
  BY DEF Booted
<1>2. PICK k \in 1..Len(Process) : Process[k] = p
  BY DEF Processes
<1>3. k < proc[c]
  BY PmAssumption DEF TypeOK
<1> QED
  BY <1>1, <1>2, <1>3 DEF Visited, Past

\* What the walk ends with is at least as urgent as each ready thread it visited.
LEMMA WalkEnds ==
  ASSUME IInv, WInv, NEW c \in Cpu, phase[c] = "process", proc[c] > Len(Process),
         NEW t \in Booted, t \in ready, c \in Affinity[t]
  PROVE  Rank(pick[c]) <= Priority[t]
<1>1. Covers(c, t)
  BY AllVisited DEF IInv, WInv, ScanInv, Scan
<1>2. best[c] = None /\ pick[c] \in Thread \cup {None}
  BY DEF IInv, TypeOK, WalkInv
<1>3. Rank(best[c]) = MaxPriority
  BY <1>2 DEF Rank
<1>4. Rank(pick[c]) \in Nat /\ Rank(pick[c]) <= MaxPriority /\ MaxPriority \in Nat
      /\ Priority[t] \in Nat
  BY <1>2, RankIs, BootedThreads, PmAssumption
<1> QED
  BY <1>1, <1>3, <1>4 DEF Covers

\* The kernel never follows a null "selected" (process-manager.c:194): the idle
\* thread of a CPU neither waits nor runs elsewhere, and its walk does not miss it.
THEOREM AlwaysFinds == Spec => []NeverNull
<1>1. IInv /\ WInv => NeverNull
  <2> SUFFICES ASSUME IInv, WInv, NEW c \in Cpu, phase[c] = "process",
                      proc[c] > Len(Process)
               PROVE  pick[c] # None
    BY DEF NeverNull
  <2>1. PICK t \in Booted \cap Idle : Affinity[t] = {c} /\ Priority[t] < MaxPriority
    BY PmAssumption
  <2>2. t \in ready /\ c \in Affinity[t]
    BY <2>1 DEF WInv, IdleInv
  <2>3. Rank(pick[c]) <= Priority[t]
    BY <2>2, WalkEnds
  <2>4. Priority[t] \in Nat /\ MaxPriority \in Nat
    BY BootedThreads, PmAssumption
  <2> QED
    BY <2>1, <2>3, <2>4 DEF Rank
<1> QED
  BY <1>1, WInvariance, PTL

\* Of the threads that were found ready the walk picks a most urgent one, though
\* other CPUs' calls block, wake and create threads while it goes on.
THEOREM MostUrgentPicked == Spec => PicksMostUrgent
<1>1. IInv /\ WInv /\ [Next]_pmVars =>
        [\A c \in Cpu : Select(c) =>
           \A t \in ready \cap Booted :
             c \in Affinity[t] => Priority[pick[c]] <= Priority[t]]_pmVars
  <2> SUFFICES ASSUME IInv, WInv, NEW c \in Cpu, Select(c), NEW t \in ready \cap Booted,
                      c \in Affinity[t]
               PROVE  Priority[pick[c]] <= Priority[t]
    OBVIOUS
  <2>1. phase[c] = "process" /\ proc[c] > Len(Process) /\ pick[c] # None
    BY DEF Select, Goto
  <2> QED
    BY <2>1, WalkEnds DEF Rank
<1> QED
  BY <1>1, WInvariance, PTL DEF Spec, PicksMostUrgent
=============================================================================
