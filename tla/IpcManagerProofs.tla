-------------------------- MODULE IpcManagerProofs --------------------------
(* Any pipes, threads, messages, depths and sizes: the calls keep the types, *)
(* work on a pipe only with its lock, lose no wakeup, keep blocked_by and the  *)
(* wait lists in agreement, and make of a ring, its lock and its lists the     *)
(* queue of PipeChannel.                                                       *)
EXTENDS IpcManager, FiniteSetTheorems, SequenceTheorems, TLAPS

-----------------------------------------------------------------------------
\* The ring's arithmetic.

LEMMA Remainder ==
  ASSUME NEW n \in Nat \ {0}, NEW i \in 0..(n - 1)
  PROVE  (i + 1) % n = IF i + 1 = n THEN 0 ELSE i + 1
OBVIOUS

LEMMA IdxIncValue ==
  ASSUME NEW p \in Pipe, NEW i \in Nat, i < Depth[p]
  PROVE  IdxInc(p, i) = IF i + 1 = Depth[p] THEN 0 ELSE i + 1
<1>1. Depth[p] \in Nat \ {0} /\ i \in 0..(Depth[p] - 1)
  BY IpcAssumption
<1> QED
  BY <1>1, Remainder DEF IdxInc

LEMMA IdxIncInRing ==
  ASSUME NEW p \in Pipe, NEW i \in Nat, i < Depth[p]
  PROVE  IdxInc(p, i) \in Nat /\ IdxInc(p, i) < Depth[p]
<1>1. Depth[p] \in Nat \ {0}
  BY IpcAssumption
<1> QED
  BY <1>1, IdxIncValue

LEMMA FullNotEmpty ==
  ASSUME NEW p \in Pipe, TypeOK, IsFull(p)
  PROVE  ~IsEmpty(p)
<1>1. CASE Depth[p] > 1
  <2>1. head[p] \in Nat /\ head[p] < Depth[p] /\ Depth[p] \in Nat
    BY IpcAssumption DEF TypeOK
  <2>2. IdxInc(p, head[p]) # head[p]
    BY <1>1, <2>1, IdxIncValue
  <2> QED
    BY <1>1, <2>2 DEF IsFull, IsEmpty
<1>2. CASE ~(Depth[p] > 1)
  BY <1>2 DEF IsFull, IsEmpty
<1> QED
  BY <1>1, <1>2

-----------------------------------------------------------------------------
\* Types.

\* What a call has in its arguments while it runs.
Arguments ==
  \A t \in Thread :
    /\ pc[t] # "user" => pipe[t] \in Pipe
    /\ pc[t] \in {"write_lock", "write_check", "write_fill", "write_commit"} =>
         msg[t] \in Message

TypeInv == TypeOK /\ Arguments

USE DEF Label, Result, At

LEMMA NoDataIsSlot == NoData \in Slot
BY DEF NoData, Slot

LEMMA SlotUpdate ==
  ASSUME NEW s \in Slot
  PROVE  /\ [s EXCEPT !.len = 0] \in Slot
         /\ \A m \in Message : /\ [s EXCEPT !.len = m.len] \in Slot
                              /\ [s EXCEPT !.body = m.body] \in Slot
BY DEF Slot

LEMMA InitTypeInv == Init => TypeInv
BY IpcAssumption, NoDataIsSlot DEF Init, TypeInv, TypeOK, Arguments

\* A step that leaves the ring, the lists and the lock's type alone.
LEMMA CallTypeInv ==
  ASSUME TypeInv, NEW t \in Thread, Call(t)
  PROVE  TypeInv'
<1> USE DEF TypeInv, TypeOK, Arguments
<1>1. ASSUME NEW r \in Result, Fail(t, r)
      PROVE  TypeInv'
  BY <1>1 DEF Fail, pipeVars, callVars
<1>2. ASSUME NEW p \in Pipe, NEW m \in Message, Enter(t, p, m, "write_lock")
      PROVE  TypeInv'
  BY <1>2 DEF Enter, pipeVars
<1>3. ASSUME NEW p \in Pipe, Enter(t, p, None, "read_lock")
      PROVE  TypeInv'
  BY <1>3 DEF Enter, pipeVars
<1> QED
  BY <1>1, <1>2, <1>3 DEF Call, PipeWriteCall, PipeReadCall

LEMMA AcquireTypeInv ==
  ASSUME TypeInv, NEW t \in Thread, WriteLock(t) \/ ReadLock(t)
  PROVE  TypeInv'
<1>1. PICK label \in {"write_lock", "read_lock"} :
        pc[t] = label /\ Acquire(t, label, IF label = "write_lock" THEN "write_check"
                                                                  ELSE "read_check")
  BY DEF WriteLock, ReadLock, Acquire
<1> USE DEF TypeInv, TypeOK, Arguments
<1>2. pipe[t] \in Pipe
  BY <1>1
<1> QED
  BY <1>1, <1>2 DEF Acquire, Goto, pipeVars

LEMMA ReturnTypeInv ==
  ASSUME TypeInv, NEW t \in Thread, NEW r \in Result, Return(t, r), pc[t] # "user"
  PROVE  TypeInv'
BY NoDataIsSlot DEF TypeInv, TypeOK, Arguments, Return, pipeVars

LEMMA StepTypeInv ==
  ASSUME TypeInv, NEW t \in Thread, Step(t)
  PROVE  TypeInv'
<1> DEFINE p == pipe[t]
<1> USE DEF TypeInv, TypeOK, Arguments, Goto
<1>0. pc[t] # "user" => p \in Pipe /\ Depth[p] \in Nat \ {0}
  BY IpcAssumption
<1>1. CASE PurgeOldest(t)
  <2>1. p \in Pipe /\ tail[p] \in Nat /\ tail[p] < Depth[p]
    BY <1>0, <1>1 DEF PurgeOldest
  <2>2. IdxInc(p, tail[p]) \in Nat /\ IdxInc(p, tail[p]) < Depth[p]
    BY <2>1, IdxIncInRing
  <2> QED
    BY <1>1, <2>1, <2>2 DEF PurgeOldest
<1>2. CASE FindRoom(t)
  BY <1>2 DEF FindRoom, pipeVars
<1>3. CASE WriterWaits(t)
  BY <1>0, <1>3 DEF WriterWaits
<1>4. CASE WriteFill(t)
  <2>1. /\ head[p] \in 0..(Depth[p] - 1) /\ msg[t] \in Message /\ p \in Pipe
        /\ slot[p][head[p]] \in Slot
    BY <1>0, <1>4 DEF WriteFill
  <2>2. [slot[p][head[p]] EXCEPT !.body = msg[t].body] \in Slot
    BY <2>1, SlotUpdate
  <2> QED
    BY <1>0, <1>4, <2>1, <2>2 DEF WriteFill
<1>5. CASE WriteCommit(t)
  <2>1. /\ head[p] \in 0..(Depth[p] - 1) /\ msg[t] \in Message /\ p \in Pipe
        /\ slot[p][head[p]] \in Slot
    BY <1>0, <1>5 DEF WriteCommit
  <2>2. [slot[p][head[p]] EXCEPT !.len = msg[t].len] \in Slot
    BY <2>1, SlotUpdate
  <2>3. IdxInc(p, head[p]) \in Nat /\ IdxInc(p, head[p]) < Depth[p]
    BY <2>1, IdxIncInRing
  <2> QED
    BY <1>0, <1>5, <2>1, <2>2, <2>3 DEF WriteCommit
<1>6. CASE ReaderWaits(t)
  BY <1>0, <1>6 DEF ReaderWaits
<1>7. CASE ReadCopy(t)
  <2>1. tail[p] \in 0..(Depth[p] - 1)
    BY <1>0, <1>7 DEF ReadCopy
  <2> QED
    BY <1>0, <1>7, <2>1 DEF ReadCopy, pipeVars
<1>8. CASE ReadAdvance(t)
  <2>1. tail[p] \in 0..(Depth[p] - 1) /\ p \in Pipe /\ slot[p][tail[p]] \in Slot
    BY <1>0, <1>8 DEF ReadAdvance
  <2>2. [slot[p][tail[p]] EXCEPT !.len = 0] \in Slot
    BY <2>1, SlotUpdate
  <2>3. IdxInc(p, tail[p]) \in Nat /\ IdxInc(p, tail[p]) < Depth[p]
    BY <2>1, IdxIncInRing
  <2> QED
    BY <1>0, <1>8, <2>1, <2>2, <2>3 DEF ReadAdvance
<1>9. CASE MarkBlocked(t)
  BY <1>0, <1>9 DEF MarkBlocked, pipeVars
<1>10. CASE NotifyReader(t)
  <2>1. Last(readers[p]) \in Thread /\ Front(readers[p]) \in Seq(Thread)
    BY <1>0, <1>10 DEF NotifyReader, Last, Front
  <2> QED
    BY <1>0, <1>10, <2>1 DEF NotifyReader, callVars
<1>11. CASE NotifyWriter(t)
  <2>1. Last(writers[p]) \in Thread /\ Front(writers[p]) \in Seq(Thread)
    BY <1>0, <1>11 DEF NotifyWriter, Last, Front
  <2> QED
    BY <1>0, <1>11, <2>1 DEF NotifyWriter, callVars
<1>12. CASE ReturnBlocked(t) \/ ReturnOk(t)
  BY <1>12, ReturnTypeInv DEF ReturnBlocked, ReturnOk
<1> QED
  BY <1>1, <1>2, <1>3, <1>4, <1>5, <1>6, <1>7, <1>8, <1>9, <1>10, <1>11, <1>12,
     AcquireTypeInv DEF Step

LEMMA NextTypeInv == TypeInv /\ [Next]_vars => TypeInv'
<1> SUFFICES ASSUME TypeInv, [Next]_vars
             PROVE  TypeInv'
  OBVIOUS
<1>1. CASE UNCHANGED vars
  BY <1>1 DEF vars, pipeVars, callVars, TypeInv, TypeOK, Arguments
<1>2. CASE Next
  BY <1>2, CallTypeInv, StepTypeInv DEF Next
<1> QED
  BY <1>1, <1>2

LEMMA TypeInvariance == Spec => []TypeInv
BY InitTypeInv, NextTypeInv, PTL DEF Spec

\* The indices stay inside the ring, slots hold what was written to them, and the
\* lists hold threads.
THEOREM TypeCorrect == Spec => []TypeOK
BY TypeInvariance, PTL DEF TypeInv

-----------------------------------------------------------------------------
\* The pipe's lock.

\* The other direction of LockHeld: a lock's holder is at work on that pipe.
HolderAtWork ==
  \A p \in Pipe : lock[p] # None =>
    pc[lock[p]] \in Locked /\ pipe[lock[p]] = p

LockInv == LockHeld /\ HolderAtWork

USE DEF Locked

LEMMA InitLockInv == Init => LockInv
BY DEF Init, LockInv, LockHeld, HolderAtWork

\* Most steps of a call are made inside the lock and stay inside.
LEMMA InsideLockInv ==
  ASSUME TypeInv, LockInv, NEW t \in Thread, NEW label \in Locked,
         pc[t] \in Locked, pc' = [pc EXCEPT ![t] = label],
         UNCHANGED <<pipe, lock>>
  PROVE  LockInv'
BY DEF TypeInv, TypeOK, LockInv, LockHeld, HolderAtWork

LEMMA AcquireLockInv ==
  ASSUME TypeInv, LockInv, NEW t \in Thread,
         NEW from \in {"write_lock", "read_lock"}, NEW to \in Locked,
         Acquire(t, from, to)
  PROVE  LockInv'
<1>0. None \notin Pipe \cup Thread
  BY IpcAssumption
<1> USE <1>0 DEF TypeInv, TypeOK, Arguments
<1>1. pipe[t] \in Pipe
  BY DEF Acquire
<1> QED
  BY <1>1 DEF Acquire, Goto, LockInv, LockHeld, HolderAtWork

LEMMA ReturnLockInv ==
  ASSUME TypeInv, LockInv, NEW t \in Thread, NEW r, Return(t, r), pc[t] \in Locked
  PROVE  LockInv'
<1>0. None \notin Pipe \cup Thread
  BY IpcAssumption
<1> USE <1>0 DEF TypeInv, TypeOK, Arguments
<1>1. pipe[t] \in Pipe /\ lock[pipe[t]] = t
  BY DEF LockInv, LockHeld
<1> QED
  BY <1>1 DEF Return, LockInv, LockHeld, HolderAtWork

LEMMA CallLockInv ==
  ASSUME TypeInv, LockInv, NEW t \in Thread, Call(t)
  PROVE  LockInv'
<1> USE DEF TypeInv, TypeOK, LockInv, LockHeld, HolderAtWork
<1>1. ASSUME NEW r, Fail(t, r)
      PROVE  LockInv'
  BY <1>1 DEF Fail, callVars
<1>2. ASSUME NEW p \in Pipe, NEW m, NEW label \in {"write_lock", "read_lock"},
             pc[t] = "user", Enter(t, p, m, label)
      PROVE  LockInv'
  BY <1>2 DEF Enter
<1> QED
  BY <1>1, <1>2 DEF Call, PipeWriteCall, PipeReadCall

LEMMA NextLockInv == TypeInv /\ LockInv /\ [Next]_vars => LockInv'
<1> SUFFICES ASSUME TypeInv, LockInv, [Next]_vars
             PROVE  LockInv'
  OBVIOUS
<1>1. CASE UNCHANGED vars
  BY <1>1 DEF vars, callVars, LockInv, LockHeld, HolderAtWork
<1>2. ASSUME NEW t \in Thread, WriteLock(t) \/ ReadLock(t)
      PROVE  LockInv'
  BY <1>2, AcquireLockInv DEF WriteLock, ReadLock
<1>3. ASSUME NEW t \in Thread,
             PurgeOldest(t) \/ FindRoom(t) \/ WriterWaits(t) \/ WriteFill(t)
               \/ WriteCommit(t) \/ ReaderWaits(t) \/ ReadCopy(t) \/ ReadAdvance(t)
               \/ MarkBlocked(t)
      PROVE  LockInv'
  <2>1. PICK label \in Locked : pc' = [pc EXCEPT ![t] = label]
    BY <1>3 DEF PurgeOldest, FindRoom, WriterWaits, WriteFill, WriteCommit,
                ReaderWaits, ReadCopy, ReadAdvance, MarkBlocked, Goto
  <2>2. pc[t] \in Locked /\ UNCHANGED <<pipe, lock>>
    BY <1>3 DEF PurgeOldest, FindRoom, WriterWaits, WriteFill, WriteCommit,
                ReaderWaits, ReadCopy, ReadAdvance, MarkBlocked, Goto
  <2> QED
    BY <2>1, <2>2, InsideLockInv
<1>4. ASSUME NEW t \in Thread, NotifyReader(t) \/ NotifyWriter(t)
      PROVE  LockInv'
  BY <1>4 DEF NotifyReader, NotifyWriter, callVars, LockInv, LockHeld, HolderAtWork
<1>5. ASSUME NEW t \in Thread, ReturnBlocked(t) \/ ReturnOk(t)
      PROVE  LockInv'
  BY <1>5, ReturnLockInv DEF ReturnBlocked, ReturnOk
<1> QED
  BY <1>1, <1>2, <1>3, <1>4, <1>5, CallLockInv DEF Next, Step

LEMMA LockInvariance == Spec => [](TypeInv /\ LockInv)
BY InitTypeInv, NextTypeInv, InitLockInv, NextLockInv, PTL DEF Spec

\* Between PIPE_LOCK and PIPE_UNLOCK a call has its pipe to itself.
THEOREM LocksExclude == Spec => []LockHeld
BY LockInvariance, PTL DEF LockInv

-----------------------------------------------------------------------------
\* Waiting.

\* What a call found when it looked stays true until it acts on it, and whoever
\* waits on a pipe waits for good reason or is about to be notified.
WaitInv ==
  /\ \A t \in Thread :
       /\ pc[t] \in {"write_fill", "write_commit"} =>
            ~IsFull(pipe[t]) \/ pipe[t] \in Purging
       /\ pc[t] = "read_advance" => ~IsEmpty(pipe[t])
  /\ \A p \in Pipe :
       /\ readers[p] # <<>> =>
            IsEmpty(p) \/ (lock[p] # None /\ pc[lock[p]] = "notify_readers")
       /\ writers[p] # <<>> =>
            \/ IsFull(p) /\ p \notin Purging
            \/ lock[p] # None /\ pc[lock[p]] = "notify_writers"

LEMMA InitWaitInv == Init => WaitInv
BY DEF Init, WaitInv

\* The condition of a pipe on which nothing that it speaks of has changed.
LEMMA SameRing ==
  ASSUME NEW p \in Pipe,
         head'[p] = head[p], tail'[p] = tail[p], slot'[p][0].len = slot[p][0].len
  PROVE  (IsEmpty(p)' <=> IsEmpty(p)) /\ (IsFull(p)' <=> IsFull(p))
BY DEF IsEmpty, IsFull, IdxInc

\* What a step does to its own pipe decides: the other pipes' holders are others.
LEMMA OwnPipe ==
  ASSUME TypeInv, LockInv, WaitInv, TypeInv', LockInv',
         NEW t \in Thread, pc[t] \in Locked,
         NEW p \in Pipe, pipe[t] = p,
         \A u \in Thread \ {t} : pc'[u] = pc[u] /\ pipe'[u] = pipe[u],
         \A o \in Pipe \ {p} :
           /\ head'[o] = head[o] /\ tail'[o] = tail[o] /\ slot'[o] = slot[o]
           /\ readers'[o] = readers[o] /\ writers'[o] = writers[o]
           /\ lock'[o] = lock[o],
         pc'[t] # "user" => pipe'[t] = p,
         pc'[t] \in {"write_fill", "write_commit"} => ~IsFull(p)' \/ p \in Purging,
         pc'[t] = "read_advance" => ~IsEmpty(p)',
         readers'[p] # <<>> => IsEmpty(p)' \/ pc'[t] = "notify_readers",
         writers'[p] # <<>> => \/ IsFull(p)' /\ p \notin Purging
                               \/ pc'[t] = "notify_writers"
  PROVE  WaitInv'
<1>0. None \notin Pipe \cup Thread
  BY IpcAssumption
<1> USE <1>0 DEF TypeInv, TypeOK, Arguments
<1>1. lock[p] = t
  BY DEF LockInv, LockHeld
<1>2. ASSUME NEW o \in Pipe \ {p}
      PROVE  /\ IsEmpty(o)' <=> IsEmpty(o)
             /\ IsFull(o)' <=> IsFull(o)
             /\ lock[o] # t
  <2>1. lock[o] # t
    BY DEF LockInv, HolderAtWork
  <2> QED
    BY <2>1, SameRing
<1>3. ASSUME NEW u \in Thread \ {t}, pc[u] \in Locked
      PROVE  pipe[u] \in Pipe \ {p}
  BY <1>1, <1>3 DEF LockInv, LockHeld
<1>4. ASSUME NEW u \in Thread, pc'[u] \in {"write_fill", "write_commit"}
      PROVE  ~IsFull(pipe[u])' \/ pipe'[u] \in Purging
  <2>1. CASE u = t
    BY <1>4, <2>1
  <2>2. CASE u # t
    <3>1. pipe[u] \in Pipe \ {p} /\ pipe'[u] = pipe[u]
      BY <1>3, <1>4, <2>2
    <3>2. IsFull(pipe[u])' <=> IsFull(pipe[u])
      BY <1>2, <3>1
    <3> QED
      BY <1>4, <2>2, <3>1, <3>2 DEF WaitInv
  <2> QED
    BY <2>1, <2>2
<1>5. ASSUME NEW u \in Thread, pc'[u] = "read_advance"
      PROVE  ~IsEmpty(pipe[u])'
  <2>1. CASE u = t
    BY <1>5, <2>1
  <2>2. CASE u # t
    <3>1. pipe[u] \in Pipe \ {p} /\ pipe'[u] = pipe[u]
      BY <1>3, <1>5, <2>2
    <3>2. IsEmpty(pipe[u])' <=> IsEmpty(pipe[u])
      BY <1>2, <3>1
    <3> QED
      BY <1>5, <2>2, <3>1, <3>2 DEF WaitInv
  <2> QED
    BY <2>1, <2>2
<1>6. ASSUME NEW o \in Pipe
      PROVE  /\ readers'[o] # <<>> =>
                  IsEmpty(o)' \/ (lock'[o] # None /\ pc'[lock'[o]] = "notify_readers")
             /\ writers'[o] # <<>> =>
                  \/ IsFull(o)' /\ o \notin Purging
                  \/ lock'[o] # None /\ pc'[lock'[o]] = "notify_writers"
  <2>1. CASE o = p
    <3>1. LockHeld'
      BY DEF LockInv
    <3>2. pc'[t] \in {"notify_readers", "notify_writers"} =>
            lock'[p] = t /\ pipe'[t] = p
      BY <3>1 DEF LockHeld
    <3> QED
      BY <2>1, <3>2
  <2>2. CASE o # p
    <3>1. lock'[o] = lock[o] /\ (lock[o] # None => pc'[lock[o]] = pc[lock[o]])
      BY <1>2, <2>2
    <3> QED
      BY <1>2, <2>2, <3>1 DEF WaitInv
  <2> QED
    BY <2>1, <2>2
<1> QED
  BY <1>4, <1>5, <1>6 DEF WaitInv

LEMMA StepWaitInv ==
  ASSUME TypeInv, LockInv, WaitInv, TypeInv', LockInv',
         NEW t \in Thread, pc[t] \in Locked, Step(t)
  PROVE  WaitInv'
<1>0. PICK p \in Pipe : p = pipe[t]
  BY DEF TypeInv, Arguments
<1>1. /\ pc \in [Thread -> Label]
      /\ slot = [o \in Pipe |-> slot[o]]
      /\ \A o \in Pipe : slot[o] \in [0..(Depth[o] - 1) -> Slot]
      /\ head \in [Pipe -> Nat] /\ tail \in [Pipe -> Nat]
      /\ head[p] < Depth[p] /\ tail[p] < Depth[p]
      /\ readers \in [Pipe -> Seq(Thread)] /\ writers \in [Pipe -> Seq(Thread)]
      /\ lock \in [Pipe -> Thread \cup {None}]
  BY DEF TypeInv, TypeOK
\* On its own pipe, t is the holder.
<1>2. /\ readers[p] # <<>> => IsEmpty(p) \/ pc[t] = "notify_readers"
      /\ writers[p] # <<>> => \/ IsFull(p) /\ p \notin Purging
                              \/ pc[t] = "notify_writers"
  BY <1>0 DEF WaitInv, LockInv, LockHeld
<1>3. CASE PurgeOldest(t)
  <2>1. IsFull(p) /\ p \in Purging /\ ~IsEmpty(p)
    BY <1>0, <1>3, FullNotEmpty DEF PurgeOldest, TypeInv
  <2>2. readers[p] = <<>> /\ writers[p] = <<>>
    BY <1>2, <1>3, <2>1 DEF PurgeOldest
  <2>3. /\ \A o \in Pipe \ {p} : tail'[o] = tail[o]
        /\ pc' = [pc EXCEPT ![t] = "write_fill"]
        /\ UNCHANGED <<slot, head, readers, writers, lock, pipe>>
    BY <1>0, <1>1, <1>3 DEF PurgeOldest, Goto
  <2> QED
    BY <1>0, <1>1, <1>3, <2>1, <2>2, <2>3, OwnPipe DEF PurgeOldest
<1>4. CASE FindRoom(t)
  <2>1. (IsEmpty(p)' <=> IsEmpty(p)) /\ (IsFull(p)' <=> IsFull(p))
    BY <1>4, SameRing DEF FindRoom, pipeVars
  <2> QED
    BY <1>0, <1>1, <1>2, <1>4, <2>1, OwnPipe DEF FindRoom, Goto, pipeVars
<1>5. CASE WriterWaits(t)
  <2>1. (IsEmpty(p)' <=> IsEmpty(p)) /\ (IsFull(p)' <=> IsFull(p))
    BY <1>5, SameRing DEF WriterWaits
  <2>2. IsFull(p) /\ p \notin Purging /\ pc[t] = "write_check"
    BY <1>0, <1>5 DEF WriterWaits
  <2>3. /\ \A o \in Pipe \ {p} : writers'[o] = writers[o]
        /\ pc' = [pc EXCEPT ![t] = "write_block"]
        /\ UNCHANGED <<slot, head, tail, readers, lock, pipe>>
    BY <1>0, <1>1, <1>5 DEF WriterWaits, Goto
  <2> QED
    BY <1>0, <1>1, <1>2, <2>1, <2>2, <2>3, OwnPipe, ZenonT(40)
<1>6. CASE WriteFill(t)
  <2>1. slot'[p][0].len = slot[p][0].len
    BY <1>0, <1>1, <1>6 DEF WriteFill, Slot
  <2>2. (IsEmpty(p)' <=> IsEmpty(p)) /\ (IsFull(p)' <=> IsFull(p))
    BY <1>6, <2>1, SameRing DEF WriteFill
  <2>3. ~IsFull(p) \/ p \in Purging
    BY <1>0, <1>6 DEF WriteFill, WaitInv
  <2>4. /\ \A o \in Pipe \ {p} : slot'[o] = slot[o]
        /\ pc[t] = "write_fill" /\ pc' = [pc EXCEPT ![t] = "write_commit"]
        /\ UNCHANGED <<head, tail, readers, writers, lock, pipe>>
    BY <1>0, <1>1, <1>6 DEF WriteFill, Goto
  <2> QED
    BY <1>0, <1>1, <1>2, <2>2, <2>3, <2>4, OwnPipe, ZenonT(40)
<1>7. CASE WriteCommit(t)
  <2>1. ~IsFull(p) \/ p \in Purging
    BY <1>0, <1>7 DEF WriteCommit, WaitInv
  <2>2. writers[p] = <<>>
    BY <1>2, <1>7, <2>1 DEF WriteCommit
  <2> QED
    BY <1>0, <1>1, <1>7, <2>2, OwnPipe DEF WriteCommit, Goto
<1>8. CASE ReaderWaits(t)
  <2>1. (IsEmpty(p)' <=> IsEmpty(p)) /\ (IsFull(p)' <=> IsFull(p))
    BY <1>8, SameRing DEF ReaderWaits
  <2>2. IsEmpty(p) /\ pc[t] = "read_check"
    BY <1>0, <1>8 DEF ReaderWaits
  <2>3. /\ \A o \in Pipe \ {p} : readers'[o] = readers[o]
        /\ pc' = [pc EXCEPT ![t] = "read_block"]
        /\ UNCHANGED <<slot, head, tail, writers, lock, pipe>>
    BY <1>0, <1>1, <1>8 DEF ReaderWaits, Goto
  <2> QED
    BY <1>0, <1>1, <1>2, <2>1, <2>2, <2>3, OwnPipe, ZenonT(40)
<1>9. CASE ReadCopy(t)
  <2>1. (IsEmpty(p)' <=> IsEmpty(p)) /\ (IsFull(p)' <=> IsFull(p))
    BY <1>9, SameRing DEF ReadCopy, pipeVars
  <2> QED
    BY <1>0, <1>1, <1>2, <1>9, <2>1, OwnPipe DEF ReadCopy, Goto, pipeVars
<1>10. CASE ReadAdvance(t)
  <2>1. ~IsEmpty(p)
    BY <1>0, <1>10 DEF ReadAdvance, WaitInv
  <2>2. readers[p] = <<>>
    BY <1>2, <1>10, <2>1 DEF ReadAdvance
  <2> QED
    BY <1>0, <1>1, <1>10, <2>2, OwnPipe DEF ReadAdvance, Goto
<1>11. CASE MarkBlocked(t)
  <2>1. (IsEmpty(p)' <=> IsEmpty(p)) /\ (IsFull(p)' <=> IsFull(p))
    BY <1>11, SameRing DEF MarkBlocked, pipeVars
  <2> QED
    BY <1>0, <1>1, <1>2, <1>11, <2>1, OwnPipe DEF MarkBlocked, Goto, pipeVars
<1>12. CASE NotifyReader(t)
  <2>1. (IsEmpty(p)' <=> IsEmpty(p)) /\ (IsFull(p)' <=> IsFull(p))
    BY <1>12, SameRing DEF NotifyReader
  <2> QED
    BY <1>0, <1>1, <1>2, <1>12, <2>1, OwnPipe DEF NotifyReader, callVars
<1>13. CASE NotifyWriter(t)
  <2>1. (IsEmpty(p)' <=> IsEmpty(p)) /\ (IsFull(p)' <=> IsFull(p))
    BY <1>13, SameRing DEF NotifyWriter
  <2> QED
    BY <1>0, <1>1, <1>2, <1>13, <2>1, OwnPipe DEF NotifyWriter, callVars
<1>14. CASE ReturnBlocked(t) \/ ReturnOk(t)
  <2>1. PICK r \in Result : Return(t, r)
    BY <1>14 DEF ReturnBlocked, ReturnOk, TypeInv, TypeOK
  <2>2. (IsEmpty(p)' <=> IsEmpty(p)) /\ (IsFull(p)' <=> IsFull(p))
    BY <2>1, SameRing DEF Return, pipeVars
  <2>3. /\ pc[t] = "notify_readers" => readers[p] = <<>>
        /\ pc[t] = "notify_writers" => writers[p] = <<>>
    BY <1>0, <1>14 DEF ReturnBlocked, ReturnOk
  <2> QED
    BY <1>0, <1>1, <1>2, <2>1, <2>2, <2>3, OwnPipe DEF Return, pipeVars
<1> QED
  BY <1>3, <1>4, <1>5, <1>6, <1>7, <1>8, <1>9, <1>10, <1>11, <1>12, <1>13, <1>14
     DEF Step, WriteLock, ReadLock, Acquire

\* Entering a call or taking its lock finds the pipe's users as they are.
LEMMA EnterWaitInv ==
  ASSUME TypeInv, LockInv, WaitInv,
         NEW t \in Thread, pc[t] \notin Locked,
         \A u \in Thread \ {t} : pc'[u] = pc[u] /\ pipe'[u] = pipe[u],
         pc'[t] \notin {"write_fill", "write_commit", "read_advance"},
         \A p \in Pipe : lock'[p] = lock[p] \/ lock[p] = None,
         UNCHANGED pipeVars
  PROVE  WaitInv'
<1>0. None \notin Pipe \cup Thread
  BY IpcAssumption
<1> USE <1>0
<1>1. ASSUME NEW p \in Pipe
      PROVE  (IsEmpty(p)' <=> IsEmpty(p)) /\ (IsFull(p)' <=> IsFull(p))
  BY SameRing DEF pipeVars
<1>2. ASSUME NEW u \in Thread, pc'[u] \in {"write_fill", "write_commit", "read_advance"}
      PROVE  pipe'[u] = pipe[u] /\ pc'[u] = pc[u] /\ pipe[u] \in Pipe
  BY <1>2 DEF TypeInv, Arguments
<1>3. ASSUME NEW u \in Thread
      PROVE  /\ pc'[u] \in {"write_fill", "write_commit"} =>
                  ~IsFull(pipe[u])' \/ pipe'[u] \in Purging
             /\ pc'[u] = "read_advance" => ~IsEmpty(pipe[u])'
  <2>1. pc'[u] \in {"write_fill", "write_commit", "read_advance"} =>
          /\ IsEmpty(pipe[u])' <=> IsEmpty(pipe[u])
          /\ IsFull(pipe[u])' <=> IsFull(pipe[u])
    BY <1>1, <1>2
  <2> QED
    BY <1>2, <2>1 DEF WaitInv
<1>4. ASSUME NEW p \in Pipe, lock[p] # None
      PROVE  lock'[p] = lock[p] /\ pc'[lock[p]] = pc[lock[p]]
  <2>1. lock[p] \in Thread \ {t}
    BY <1>4 DEF TypeInv, TypeOK, LockInv, HolderAtWork
  <2> QED
    BY <1>4, <2>1
<1> QED
  BY <1>1, <1>3, <1>4 DEF WaitInv, pipeVars

LEMMA NextWaitInv ==
  TypeInv /\ LockInv /\ WaitInv /\ [Next]_vars => WaitInv'
<1> SUFFICES ASSUME TypeInv, LockInv, WaitInv, [Next]_vars
             PROVE  WaitInv'
  OBVIOUS
<1>1. TypeInv' /\ LockInv'
  BY NextTypeInv, NextLockInv
<1>2. CASE UNCHANGED vars
  BY <1>2 DEF vars, pipeVars, callVars, WaitInv, IsEmpty, IsFull, IdxInc
<1>3. ASSUME NEW t \in Thread, Call(t)
      PROVE  WaitInv'
  <2>1. pc[t] = "user" /\ UNCHANGED pipeVars /\ UNCHANGED lock
    BY <1>3 DEF Call, PipeWriteCall, PipeReadCall, Fail, Enter
  <2>2. /\ \A u \in Thread \ {t} : pc'[u] = pc[u] /\ pipe'[u] = pipe[u]
        /\ pc'[t] \in {"user", "write_lock", "read_lock"}
    BY <1>3 DEF Call, PipeWriteCall, PipeReadCall, Fail, Enter, callVars,
                TypeInv, TypeOK
  <2> QED
    BY <2>1, <2>2, EnterWaitInv
<1>4. ASSUME NEW t \in Thread, WriteLock(t) \/ ReadLock(t)
      PROVE  WaitInv'
  <2>1. pc[t] \in {"write_lock", "read_lock"} /\ UNCHANGED pipeVars /\ UNCHANGED pipe
    BY <1>4 DEF WriteLock, ReadLock, Acquire, Goto
  <2>2. /\ \A u \in Thread \ {t} : pc'[u] = pc[u]
        /\ pc'[t] \in {"write_check", "read_check"}
    BY <1>4 DEF WriteLock, ReadLock, Acquire, Goto, TypeInv, TypeOK
  <2>3. \A p \in Pipe : lock'[p] = lock[p] \/ lock[p] = None
    BY <1>4 DEF WriteLock, ReadLock, Acquire, TypeInv, TypeOK
  <2> QED
    BY <2>1, <2>2, <2>3, EnterWaitInv
<1>5. ASSUME NEW t \in Thread, Step(t), pc[t] \in Locked
      PROVE  WaitInv'
  BY <1>1, <1>5, StepWaitInv
<1>6. ASSUME NEW t \in Thread, Step(t), pc[t] \notin Locked
      PROVE  WriteLock(t) \/ ReadLock(t)
  BY <1>6 DEF Step, PurgeOldest, FindRoom, WriterWaits, WriteFill, WriteCommit,
              ReaderWaits, ReadCopy, ReadAdvance, MarkBlocked, ReturnBlocked,
              NotifyReader, NotifyWriter, ReturnOk
<1> QED
  BY <1>2, <1>3, <1>4, <1>5, <1>6 DEF Next

\* While a pipe is unlocked its readers wait for an empty pipe and its writers for a
\* full one that does not purge: no call checks, is overtaken and then sleeps.
THEOREM NoWakeupLost == Spec => []NoLostWakeup
<1>1. WaitInv => NoLostWakeup
  BY DEF WaitInv, NoLostWakeup
<1>2. Spec => [](TypeInv /\ LockInv /\ WaitInv)
  BY InitTypeInv, InitLockInv, InitWaitInv, NextTypeInv, NextLockInv, NextWaitInv, PTL
     DEF Spec
<1> QED
  BY <1>1, <1>2, PTL

-----------------------------------------------------------------------------
\* The wait lists.  They have locks of their own and so has a thread; that a list and
\* blocked_by are changed together is due to the pipe's lock.

Side == {"reader", "writer"}

\* The node i of a pipe's list is t's.
Waits(t, p, side, i) == i \in 1..Len(List(p, side)) /\ List(p, side)[i] = t

Waiting(t) == \E p \in Pipe, side \in Side, i \in Nat : Waits(t, p, side, i)

\* The labels from a call's entry into a list to its return.
Blocking == {"write_block", "read_block"}

\* A thread on a list is at the end of a call that put it there or outside one; it
\* has one place, and blocked_by names its pipe once it has been set.
PlaceInv ==
  \A t \in Thread :
    /\ \A p, q \in Pipe, e, f \in Side, i, j \in Nat :
         Waits(t, p, e, i) /\ Waits(t, q, f, j) => p = q /\ e = f /\ i = j
    /\ \A p \in Pipe, e \in Side, i \in Nat : Waits(t, p, e, i) =>
         \/ pc[t] \in {"user", "blocked"} /\ blockedBy[t] = p
         \/ pc[t] \in Blocking /\ pipe[t] = p
    /\ pc[t] \in Blocking => Waiting(t)
    /\ blockedBy[t] # None => Waiting(t) /\ pc[t] \in {"user", "blocked"}

USE DEF Side, Blocking, Label, Locked, At

LEMMA InitPlaceInv == Init => PlaceInv
BY DEF Init, PlaceInv, Waits, Waiting, List

\* Lists that are as they were have the threads they had.
LEMMA SamePlaces ==
  ASSUME readers' = readers, writers' = writers
  PROVE  /\ \A t, p, e, i : Waits(t, p, e, i)' <=> Waits(t, p, e, i)
         /\ \A t : Waiting(t)' <=> Waiting(t)
BY DEF Waits, Waiting, List

\* A step that changes no list, and no thread's state but its own.
LEMMA OwnPlaceInv ==
  ASSUME TypeInv, PlaceInv, NEW t \in Thread,
         readers' = readers, writers' = writers,
         \A u \in Thread \ {t} :
           pc'[u] = pc[u] /\ pipe'[u] = pipe[u] /\ blockedBy'[u] = blockedBy[u],
         \/ /\ pc[t] \notin Blocking \cup {"user", "blocked"} \/ ~Waiting(t)
            /\ pc'[t] \notin Blocking /\ blockedBy'[t] = blockedBy[t]
         \/ /\ pc[t] = "blocked" /\ pc'[t] = "user" /\ blockedBy'[t] = blockedBy[t]
         \/ /\ pc[t] \in Blocking /\ pc'[t] = "blocked" /\ blockedBy'[t] = pipe[t]
  PROVE  PlaceInv'
<1>1. \A u, p, e, i : Waits(u, p, e, i)' <=> Waits(u, p, e, i)
  BY SamePlaces
<1>2. \A u : Waiting(u)' <=> Waiting(u)
  BY SamePlaces
<1> SUFFICES ASSUME NEW u \in Thread PROVE PlaceInv!(u)'
  BY DEF PlaceInv
<1>3. PlaceInv!(u)
  BY DEF PlaceInv
<1>4. CASE u # t
  BY <1>1, <1>2, <1>3, <1>4
<1>5. CASE u = t
  <2>1. Waiting(t) <=> \E p \in Pipe, e \in Side, i \in Nat : Waits(t, p, e, i)
    BY DEF Waiting
  <2>2. \A p \in Pipe, e \in Side, i \in Nat : Waits(t, p, e, i) =>
          pc[t] \in Blocking \cup {"user", "blocked"}
    BY <1>3, <1>5
  <2> QED
    BY <1>1, <1>2, <1>3, <1>5, <2>1, <2>2
<1> QED
  BY <1>4, <1>5

LEMMA ListIs ==
  ASSUME TypeInv, NEW p \in Pipe, NEW e \in Side
  PROVE  List(p, e) \in Seq(Thread)
BY DEF TypeInv, TypeOK, List

\* A thread that finds it must wait is on no list yet.
LEMMA EnqueueInv ==
  ASSUME TypeInv, PlaceInv, NEW t \in Thread, NEW p \in Pipe, NEW e \in Side,
         pipe[t] = p, pc[t] \notin Blocking \cup {"user", "blocked"},
         \A q \in Pipe, f \in Side :
           List(q, f)' = IF q = p /\ f = e THEN Append(List(q, f), t) ELSE List(q, f),
         NEW label \in Blocking, pc' = [pc EXCEPT ![t] = label],
         UNCHANGED <<pipe, blockedBy>>
  PROVE  PlaceInv'
<1> DEFINE n == Len(List(p, e)) + 1
<1>1. \A q \in Pipe, f \in Side, i \in Nat : ~Waits(t, q, f, i)
  BY DEF PlaceInv
<1>2. ASSUME NEW q \in Pipe, NEW f \in Side, NEW i \in Nat, NEW u \in Thread
      PROVE  Waits(u, q, f, i)' <=>
               Waits(u, q, f, i) \/ (u = t /\ q = p /\ f = e /\ i = n)
  <2>1. List(q, f) \in Seq(Thread)
    BY ListIs
  <2>2. CASE q = p /\ f = e
    <3>1. List(q, f)' = Append(List(q, f), t)
      BY <2>2
    <3> QED
      BY <2>1, <2>2, <3>1 DEF Waits
  <2>3. CASE ~(q = p /\ f = e)
    <3>1. List(q, f)' = List(q, f)
      BY <2>3
    <3> QED
      BY <2>3, <3>1 DEF Waits
  <2> QED
    BY <2>2, <2>3
<1>3. n \in Nat
  BY ListIs
<1>4. \A u \in Thread : Waiting(u)' <=> Waiting(u) \/ u = t
  BY <1>2, <1>3 DEF Waiting
<1>5. pc'[t] \in Blocking /\ \A u \in Thread \ {t} : pc'[u] = pc[u]
  BY DEF TypeInv, TypeOK
<1>6. blockedBy[t] = None
  BY DEF PlaceInv
<1> HIDE DEF n
<1> SUFFICES ASSUME NEW u \in Thread PROVE PlaceInv!(u)'
  BY DEF PlaceInv
<1>7. PlaceInv!(u)
  BY DEF PlaceInv
<1>8. CASE u = t
  BY <1>1, <1>2, <1>4, <1>5, <1>6, <1>8
<1>9. CASE u # t
  BY <1>2, <1>4, <1>5, <1>7, <1>9
<1> QED
  BY <1>8, <1>9

LEMMA FrontIs ==
  ASSUME NEW s \in Seq(Thread), Len(s) \in Nat \ {0}
  PROVE  /\ Len(SubSeq(s, 1, Len(s) - 1)) = Len(s) - 1
         /\ \A j \in 1..(Len(s) - 1) : SubSeq(s, 1, Len(s) - 1)[j] = s[j]
<1> DEFINE m == Len(s) - 1
<1>1. m \in Nat /\ \A j \in 1..m : s[j] \in Thread
  OBVIOUS
<1> HIDE DEF m
<1>2. /\ Len(SubSeq(s, 1, m)) = IF 1 <= m THEN m - 1 + 1 ELSE 0
      /\ \A j \in 1..(m - 1 + 1) : SubSeq(s, 1, m)[j] = s[1 + j - 1]
  BY <1>1, SubSeqProperties
<1>3. Len(SubSeq(s, 1, m)) = m /\ \A j \in 1..m : SubSeq(s, 1, m)[j] = s[j]
  BY <1>1, <1>2
<1> QED
  BY <1>3 DEF m

\* A notification takes the last thread from the list, and that was its one place.
LEMMA DequeueInv ==
  ASSUME TypeInv, LockInv, PlaceInv, NEW t \in Thread, NEW p \in Pipe, NEW e \in Side,
         pipe[t] = p, pc[t] \in {"notify_readers", "notify_writers"},
         List(p, e) # <<>>,
         \A q \in Pipe, f \in Side :
           List(q, f)' = IF q = p /\ f = e THEN Front(List(q, f)) ELSE List(q, f),
         blockedBy' = [blockedBy EXCEPT ![Last(List(p, e))] = None],
         UNCHANGED <<pc, pipe>>
  PROVE  PlaceInv'
<1> DEFINE n == Len(List(p, e))
<1> PICK w : w = Last(List(p, e))
  OBVIOUS
<1>1. List(p, e) \in Seq(Thread) /\ n \in Nat \ {0} /\ w = List(p, e)[n] /\ w \in Thread
  BY ListIs DEF Last
<1>2. Waits(w, p, e, n)
  BY <1>1 DEF Waits
<1>3. ASSUME NEW q \in Pipe, NEW f \in Side, NEW i \in Nat, NEW u \in Thread
      PROVE  Waits(u, q, f, i)' <=>
               Waits(u, q, f, i) /\ ~(q = p /\ f = e /\ i = n)
  <2>1. CASE q = p /\ f = e
    <3>1. List(q, f)' = SubSeq(List(p, e), 1, n - 1)
      BY <2>1 DEF Front
    <3>2. Len(SubSeq(List(p, e), 1, n - 1)) = n - 1
          /\ \A j \in 1..(n - 1) : SubSeq(List(p, e), 1, n - 1)[j] = List(p, e)[j]
      BY <1>1, FrontIs
    <3> QED
      BY <1>1, <2>1, <3>1, <3>2 DEF Waits
  <2>2. CASE ~(q = p /\ f = e)
    <3>1. List(q, f)' = List(q, f)
      BY <2>2
    <3> QED
      BY <2>2, <3>1 DEF Waits
  <2> QED
    BY <2>1, <2>2
<1>4. \A u \in Thread \ {w}, q \in Pipe, f \in Side, i \in Nat :
        Waits(u, q, f, i)' <=> Waits(u, q, f, i)
  BY <1>1, <1>3 DEF Waits
<1>5. \A q \in Pipe, f \in Side, i \in Nat : ~Waits(w, q, f, i)'
  BY <1>1, <1>2, <1>3 DEF PlaceInv
<1>6. pc[w] \notin Blocking
  <2> SUFFICES ASSUME pc[w] \in Blocking PROVE FALSE
    OBVIOUS
  <2>1. pipe[w] = p
    BY <1>1, <1>2 DEF PlaceInv
  <2>2. lock[p] = w /\ lock[p] = t
    BY <1>1, <2>1 DEF LockInv, LockHeld
  <2> QED
    BY <2>2
<1>7. blockedBy'[w] = None /\ \A u \in Thread \ {w} : blockedBy'[u] = blockedBy[u]
  BY <1>1 DEF TypeInv, TypeOK
<1> HIDE DEF n
<1> SUFFICES ASSUME NEW u \in Thread PROVE PlaceInv!(u)'
  BY DEF PlaceInv
<1>8. PlaceInv!(u)
  BY DEF PlaceInv
<1>9. CASE u = w
  BY <1>5, <1>6, <1>7, <1>9
<1>10. CASE u # w
  <2>1. Waiting(u)' <=> Waiting(u)
    BY <1>4, <1>10 DEF Waiting
  <2> QED
    BY <1>4, <1>7, <1>8, <1>10, <2>1
<1> QED
  BY <1>9, <1>10

\* The steps that touch no list.
LEMMA PlainPlaceInv ==
  ASSUME TypeInv, PlaceInv, NEW t \in Thread,
         \/ Call(t) \/ WriteLock(t) \/ PurgeOldest(t) \/ FindRoom(t) \/ WriteFill(t)
         \/ WriteCommit(t) \/ ReadLock(t) \/ ReadCopy(t) \/ ReadAdvance(t)
         \/ MarkBlocked(t) \/ ReturnBlocked(t) \/ ReturnOk(t)
  PROVE  PlaceInv'
<1>1. UNCHANGED <<readers, writers>>
  BY DEF Call, PipeWriteCall, PipeReadCall, Fail, Enter, WriteLock, PurgeOldest, FindRoom,
         WriteFill, WriteCommit, ReadLock, ReadCopy, ReadAdvance, MarkBlocked, ReturnBlocked,
         ReturnOk, Acquire, Return, pipeVars
<1>2. ASSUME NEW u \in Thread \ {t}
      PROVE  pc'[u] = pc[u] /\ pipe'[u] = pipe[u] /\ blockedBy'[u] = blockedBy[u]
  BY DEF TypeInv, TypeOK, Call, PipeWriteCall, PipeReadCall, Fail, Enter, WriteLock,
         PurgeOldest, FindRoom, WriteFill, WriteCommit, ReadLock, ReadCopy, ReadAdvance,
         MarkBlocked, ReturnBlocked, ReturnOk, Acquire, Return, Goto, callVars
<1>3. CASE Call(t)
  <2>1. pc[t] = "user" /\ blockedBy[t] = None /\ blockedBy' = blockedBy /\ pc'[t] \notin Blocking
    BY <1>3 DEF TypeInv, TypeOK, Call, PipeWriteCall, PipeReadCall, Fail, Enter, callVars
  <2>2. ~Waiting(t)
    BY <2>1, IpcAssumption DEF PlaceInv, Waiting
  <2> QED
    BY <1>1, <1>2, <2>1, <2>2, OwnPlaceInv
<1>4. CASE MarkBlocked(t)
  <2>1. pc[t] \in Blocking /\ pc'[t] = "blocked" /\ blockedBy'[t] = pipe[t]
    BY <1>4 DEF TypeInv, TypeOK, MarkBlocked, Goto
  <2> QED
    BY <1>1, <1>2, <2>1, OwnPlaceInv
<1>5. CASE ReturnBlocked(t)
  <2>1. pc[t] = "blocked" /\ pc'[t] = "user" /\ blockedBy' = blockedBy
    BY <1>5 DEF TypeInv, TypeOK, ReturnBlocked, Return
  <2> QED
    BY <1>1, <1>2, <2>1, OwnPlaceInv
<1>6. CASE WriteLock(t) \/ PurgeOldest(t) \/ FindRoom(t) \/ WriteFill(t) \/ WriteCommit(t)
           \/ ReadLock(t) \/ ReadCopy(t) \/ ReadAdvance(t) \/ ReturnOk(t)
  <2>1. pc[t] \notin Blocking \cup {"user", "blocked"} /\ pc'[t] \notin Blocking
        /\ blockedBy' = blockedBy
    BY <1>6 DEF TypeInv, TypeOK, WriteLock, PurgeOldest, FindRoom, WriteFill, WriteCommit,
       ReadLock, ReadCopy, ReadAdvance, ReturnOk, Acquire, Return, Goto
  <2> QED
    BY <1>1, <1>2, <2>1, OwnPlaceInv
<1> QED
  BY <1>3, <1>4, <1>5, <1>6

LEMMA ListPlaceInv ==
  ASSUME TypeInv, LockInv, PlaceInv, NEW t \in Thread,
         WriterWaits(t) \/ ReaderWaits(t) \/ NotifyReader(t) \/ NotifyWriter(t)
  PROVE  PlaceInv'
<1> PICK p : p = pipe[t]
  OBVIOUS
<1>1. p \in Pipe
  BY DEF WriterWaits, ReaderWaits, NotifyReader, NotifyWriter, TypeInv, Arguments
<1>2. readers \in [Pipe -> Seq(Thread)] /\ writers \in [Pipe -> Seq(Thread)]
  BY DEF TypeInv, TypeOK
<1>3. CASE WriterWaits(t)
  <2>1. \A q \in Pipe, f \in Side :
          List(q, f)' = IF q = p /\ f = "writer" THEN Append(List(q, f), t) ELSE List(q, f)
    BY <1>2, <1>3 DEF WriterWaits, List
  <2>2. pc' = [pc EXCEPT ![t] = "write_block"] /\ UNCHANGED <<pipe, blockedBy>>
        /\ pc[t] = "write_check"
    BY <1>3 DEF WriterWaits, Goto
  <2> QED
    BY <1>1, <2>1, <2>2, EnqueueInv
<1>4. CASE ReaderWaits(t)
  <2>1. \A q \in Pipe, f \in Side :
          List(q, f)' = IF q = p /\ f = "reader" THEN Append(List(q, f), t) ELSE List(q, f)
    BY <1>2, <1>4 DEF ReaderWaits, List
  <2>2. pc' = [pc EXCEPT ![t] = "read_block"] /\ UNCHANGED <<pipe, blockedBy>>
        /\ pc[t] = "read_check"
    BY <1>4 DEF ReaderWaits, Goto
  <2> QED
    BY <1>1, <2>1, <2>2, EnqueueInv
<1>5. CASE NotifyReader(t)
  <2>1. \A q \in Pipe, f \in Side :
          List(q, f)' = IF q = p /\ f = "reader" THEN Front(List(q, f)) ELSE List(q, f)
    BY <1>2, <1>5 DEF NotifyReader, List
  <2>2. /\ pc[t] = "notify_readers" /\ List(p, "reader") # <<>>
        /\ blockedBy' = [blockedBy EXCEPT ![Last(List(p, "reader"))] = None]
        /\ UNCHANGED <<pc, pipe>>
    BY <1>5 DEF NotifyReader, callVars, List
  <2> QED
    BY <1>1, <2>1, <2>2, DequeueInv
<1>6. CASE NotifyWriter(t)
  <2>1. \A q \in Pipe, f \in Side :
          List(q, f)' = IF q = p /\ f = "writer" THEN Front(List(q, f)) ELSE List(q, f)
    BY <1>2, <1>6 DEF NotifyWriter, List
  <2>2. /\ pc[t] = "notify_writers" /\ List(p, "writer") # <<>>
        /\ blockedBy' = [blockedBy EXCEPT ![Last(List(p, "writer"))] = None]
        /\ UNCHANGED <<pc, pipe>>
    BY <1>6 DEF NotifyWriter, callVars, List
  <2> QED
    BY <1>1, <2>1, <2>2, DequeueInv
<1> QED
  BY <1>3, <1>4, <1>5, <1>6

LEMMA NextPlaceInv == TypeInv /\ LockInv /\ PlaceInv /\ [Next]_vars => PlaceInv'
<1> SUFFICES ASSUME TypeInv, LockInv, PlaceInv, [Next]_vars PROVE PlaceInv'
  OBVIOUS
<1>1. CASE UNCHANGED vars
  BY <1>1, SamePlaces DEF PlaceInv, vars, pipeVars, callVars
<1>2. ASSUME NEW t \in Thread, Call(t) \/ Step(t) PROVE PlaceInv'
  BY <1>2, PlainPlaceInv, ListPlaceInv DEF Step
<1> QED
  BY <1>1, <1>2 DEF Next

\* Outside a call a thread is blocked if and only if it is on one list, in one place,
\* of the pipe that blocked_by names (ipc-manager.c:61-68, 159-161, 192-194): nobody
\* sleeps where no notification looks, or is woken by a pipe it does not wait for.
THEOREM BlockedMeansListed == Spec => []BlockedIffWaiting
<1>1. TypeInv /\ PlaceInv => BlockedIffWaiting
  <2> SUFFICES ASSUME TypeInv, PlaceInv, NEW t \in Thread, pc[t] = "user"
               PROVE  IF blockedBy[t] = None
                      THEN Places(t) = {}
                      ELSE /\ Cardinality(Places(t)) = 1
                           /\ \A w \in Places(t) : w[1] = blockedBy[t]
    BY DEF BlockedIffWaiting
  <2>1. \A w \in Places(t) : \E p \in Pipe, e \in Side, i \in Nat :
          w = <<p, e, i>> /\ Waits(t, p, e, i)
    BY DEF Places, Waits
  <2>2. \A p \in Pipe, e \in Side, i \in Nat : Waits(t, p, e, i) =>
          <<p, e, i>> \in Places(t) /\ blockedBy[t] = p
    <3> SUFFICES ASSUME NEW p \in Pipe, NEW e \in Side, NEW i \in Nat, Waits(t, p, e, i)
                 PROVE  <<p, e, i>> \in Places(t) /\ blockedBy[t] = p
      OBVIOUS
    <3>1. i \in {j \in 1..Len(List(p, e)) : List(p, e)[j] = t}
      BY DEF Waits
    <3>2. <<p, e, i>> \in Places(t)
      <4> DEFINE Nodes(q, f) == {j \in 1..Len(List(q, f)) : List(q, f)[j] = t}
                 Of(q, f) == {<<q, f, k>> : k \in Nodes(q, f)}
      <4>1. <<p, e, i>> \in Of(p, e)
        BY <3>1
      <4>2. Of(p, e) \in {Of(q, f) : q \in Pipe, f \in Side}
        OBVIOUS
      <4>3. Places(t) = UNION {Of(q, f) : q \in Pipe, f \in Side}
        BY DEF Places
      <4> HIDE DEF Of
      <4> QED
        BY <4>1, <4>2, <4>3
    <3>3. blockedBy[t] = p
      BY DEF PlaceInv
    <3> QED
      BY <3>2, <3>3
  <2>3. CASE blockedBy[t] = None
    BY <2>1, <2>2, <2>3, IpcAssumption
  <2>4. CASE blockedBy[t] # None
    <3>1. PICK p \in Pipe, e \in Side, i \in Nat : Waits(t, p, e, i)
      BY <2>4 DEF PlaceInv, Waiting
    <3>2. Places(t) = {<<p, e, i>>}
      <4>1. \A w \in Places(t) : w = <<p, e, i>>
        BY <2>1, <3>1 DEF PlaceInv
      <4> QED
        BY <2>2, <3>1, <4>1
    <3>3. Cardinality(Places(t)) = 1
      BY <3>2, FS_Singleton
    <3> QED
      BY <2>2, <2>4, <3>1, <3>2, <3>3
  <2> QED
    BY <2>3, <2>4
<1>2. Spec => [](TypeInv /\ LockInv /\ PlaceInv)
  BY InitTypeInv, InitLockInv, InitPlaceInv, NextTypeInv, NextLockInv, NextPlaceInv, PTL
     DEF Spec
<1> QED
  BY <1>1, <1>2, PTL

-----------------------------------------------------------------------------
\* The ring as a queue.

\* What a ring of n slots s holds between tail t and head h.
Queue(n, s, h, t) ==
  [i \in 1..(IF n > 1 THEN (h - t) % n ELSE IF s[0].len = 0 THEN 0 ELSE 1) |->
     s[(t + i - 1) % n]]

\* The same while a writer is at the head: the only slot is then no message.
Rest(n, s, h, t) == IF n > 1 THEN Queue(n, s, h, t) ELSE <<>>

FullRing(n, s, h, t) == IF n > 1 THEN (h + 1) % n = t ELSE s[0].len # 0

EmptyRing(n, s, h, t) == IF n > 1 THEN h = t ELSE s[0].len = 0

\* Rings that differ in one slot only.
SameBut(n, k, s, r) == \A i \in (0..(n - 1)) \ {k} : r[i] = s[i]

\* How far it is from the tail to the head.
Span(n, h, t) == IF t <= h THEN h - t ELSE h - t + n

\* The index that x is in the ring.
Wrap(n, x) == IF x < n THEN x ELSE x - n

\* Of several slots, the queue is those from the tail on.
FromTail(n, s, h, t) ==
  /\ Span(n, h, t) \in 0..(n - 1)
  /\ Queue(n, s, h, t) \in Seq(Slot) /\ Len(Queue(n, s, h, t)) = Span(n, h, t)
  /\ \A i \in 1..Span(n, h, t) : Queue(n, s, h, t)[i] = s[Wrap(n, t + i - 1)]

LEMMA QueueOfSeveral ==
  ASSUME NEW n \in Nat, n > 1, NEW s \in [0..(n - 1) -> Slot],
         NEW h \in 0..(n - 1), NEW t \in 0..(n - 1)
  PROVE  FromTail(n, s, h, t)
<1> PICK k : k = Span(n, h, t)
  OBVIOUS
<1>1. k \in 0..(n - 1) /\ (h - t) % n = k
  <2>1. PICK x \in Int : x = h - t
    OBVIOUS
  <2>2. x + n > 0 /\ x < n
    BY <2>1
  <2>3. x % n = IF x < 0 THEN x + n ELSE x
    BY <2>2
  <2> QED
    BY <2>1, <2>3 DEF Span
<1>2. ASSUME NEW i \in 1..k
      PROVE  /\ (t + i - 1) % n = Wrap(n, t + i - 1)
             /\ (t + i - 1) % n \in 0..(n - 1)
  <2>1. PICK x \in Int : x = t + i - 1
    BY <1>1
  <2>2. 0 <= x /\ x < n + n
    BY <1>1, <2>1
  <2>3. x % n = IF x < n THEN x ELSE x - n
    BY <2>2
  <2>4. x % n \in 0..(n - 1)
    BY <2>2, <2>3
  <2> QED
    BY <2>1, <2>3, <2>4 DEF Wrap
<1>3. Queue(n, s, h, t) = [i \in 1..k |-> s[(t + i - 1) % n]]
  BY <1>1 DEF Queue
<1>4. \A i \in 1..k : s[(t + i - 1) % n] \in Slot
  BY <1>2
<1>5. [i \in 1..k |-> s[(t + i - 1) % n]] \in Seq(Slot)
  <2>1. [i \in 1..k |-> s[(t + i - 1) % n]] \in [1..k -> Slot]
    BY <1>4
  <2> QED
    BY <1>1, <2>1, SeqDef
<1>6. Len([i \in 1..k |-> s[(t + i - 1) % n]]) = k
  BY <1>1
<1> QED
  BY <1>1, <1>2, <1>3, <1>5, <1>6 DEF FromTail

LEMMA QueueOfOne ==
  ASSUME NEW s
  PROVE  Queue(1, s, 0, 0) = IF s[0].len = 0 THEN <<>> ELSE <<s[0]>>
<1>1. [i \in 1..1 |-> s[(0 + i - 1) % 1]] = <<s[0]>>
  OBVIOUS
<1>2. [i \in 1..0 |-> s[(0 + i - 1) % 1]] = <<>>
  OBVIOUS
<1> QED
  BY <1>1, <1>2 DEF Queue

\* The queue is made of slots.
LEMMA QueueType ==
  ASSUME NEW n \in Nat \ {0}, NEW s \in [0..(n - 1) -> Slot],
         NEW h \in 0..(n - 1), NEW t \in 0..(n - 1)
  PROVE  Queue(n, s, h, t) \in Seq(Slot) /\ Rest(n, s, h, t) \in Seq(Slot)
<1>1. CASE n > 1
  <2>1. FromTail(n, s, h, t)
    BY <1>1, QueueOfSeveral
  <2> QED
    BY <1>1, <2>1 DEF FromTail, Rest
<1>2. CASE n = 1
  <2>1. h = 0 /\ t = 0 /\ s[0] \in Slot
    BY <1>2
  <2>2. <<>> \in Seq(Slot) /\ <<s[0]>> \in Seq(Slot)
    BY <2>1
  <2> QED
    BY <1>2, <2>1, <2>2, QueueOfOne DEF Rest
<1> QED
  BY <1>1, <1>2

\* A queue is as long as there is room if the ring is full, and empty if it is empty.
LEMMA QueueLength ==
  ASSUME NEW n \in Nat \ {0}, NEW s \in [0..(n - 1) -> Slot],
         NEW h \in 0..(n - 1), NEW t \in 0..(n - 1)
  PROVE  /\ Len(Queue(n, s, h, t)) = (IF n > 1 THEN n - 1 ELSE 1) <=> FullRing(n, s, h, t)
         /\ Queue(n, s, h, t) = <<>> <=> EmptyRing(n, s, h, t)
<1>1. CASE n > 1
  <2>1. FromTail(n, s, h, t)
    BY <1>1, QueueOfSeveral
  <2> PICK k, a : k = Span(n, h, t) /\ a = Queue(n, s, h, t)
    OBVIOUS
  <2>2. k \in 0..(n - 1) /\ a \in Seq(Slot) /\ Len(a) = k
    BY <2>1 DEF FromTail
  <2>3. (h + 1) % n = IF h + 1 = n THEN 0 ELSE h + 1
    BY Remainder
  <2>4. k = n - 1 <=> (h + 1) % n = t
    BY <1>1, <2>3 DEF Span
  <2>5. k = 0 <=> h = t
    BY <1>1 DEF Span
  <2>6. a = <<>> <=> k = 0
    BY <2>2, EmptySeq
  <2> QED
    BY <1>1, <2>2, <2>4, <2>5, <2>6 DEF FullRing, EmptyRing
<1>2. CASE n = 1
  <2>1. h = 0 /\ t = 0
    BY <1>2
  <2>2. Len(<<s[0]>>) = 1 /\ Len(<<>>) = 0 /\ <<s[0]>> # <<>>
    OBVIOUS
  <2> QED
    BY <1>2, <2>1, <2>2, QueueOfOne DEF FullRing, EmptyRing
<1>3. n > 1 \/ n = 1
  OBVIOUS
<1> QED
  BY <1>1, <1>2, <1>3

\* Filling the slot at the head is not seen.
LEMMA QueueFill ==
  ASSUME NEW n \in Nat \ {0}, NEW s \in [0..(n - 1) -> Slot], NEW r \in [0..(n - 1) -> Slot],
         NEW h \in 0..(n - 1), NEW t \in 0..(n - 1),
         SameBut(n, h, s, r)
  PROVE  Rest(n, r, h, t) = Rest(n, s, h, t)
<1>1. CASE n > 1
  <2>1. FromTail(n, s, h, t)
    BY <1>1, QueueOfSeveral
  <2>2. FromTail(n, r, h, t)
    BY <1>1, QueueOfSeveral
  <2> PICK a, b, k : a = Queue(n, s, h, t) /\ b = Queue(n, r, h, t) /\ k = Span(n, h, t)
    OBVIOUS
  <2>4. ASSUME NEW i \in 1..k
        PROVE  Wrap(n, t + i - 1) \in (0..(n - 1)) \ {h}
    BY <1>1, <2>1 DEF Wrap, Span, FromTail
  <2>5. \A i \in 1..k : a[i] = b[i]
    BY <2>1, <2>2, <2>4 DEF FromTail, SameBut
  <2>6. a = b
    BY <2>1, <2>2, <2>5, SeqEqual DEF FromTail
  <2> QED
    BY <2>6 DEF Rest
<1>2. CASE ~(n > 1)
  BY <1>2 DEF Rest
<1> QED
  BY <1>1, <1>2

\* A writer that finds room changes nothing by going to work ...
LEMMA QueuePlace ==
  ASSUME NEW n \in Nat \ {0}, NEW s, NEW h \in 0..(n - 1), NEW t \in 0..(n - 1),
         ~FullRing(n, s, h, t)
  PROVE  Rest(n, s, h, t) = Queue(n, s, h, t)
<1>1. CASE n = 1
  <2>1. h = 0 /\ t = 0
    BY <1>1
  <2> QED
    BY <1>1, <2>1, QueueOfOne DEF FullRing, Rest
<1>2. CASE n # 1
  BY <1>2 DEF Rest
<1> QED
  BY <1>1, <1>2

\* Moving the tail, with the slots s becoming r, takes the oldest message out.
Takes(n, s, r, h, t) ==
  /\ Queue(n, r, h, (t + 1) % n) = Tail(Queue(n, s, h, t))
  /\ Head(Queue(n, s, h, t)) = s[t]

LEMMA QueueTail ==
  ASSUME NEW n \in Nat, n > 1, NEW s \in [0..(n - 1) -> Slot],
         NEW r \in [0..(n - 1) -> Slot], NEW h \in 0..(n - 1), NEW t \in 0..(n - 1), h # t,
         SameBut(n, t, s, r)
  PROVE  Takes(n, s, r, h, t)
<1>0. (t + 1) % n = IF t + 1 = n THEN 0 ELSE t + 1
  <2>1. n \in Nat \ {0}
    OBVIOUS
  <2> QED
    BY <2>1, Remainder
<1>1. PICK u \in 0..(n - 1) : u = (t + 1) % n /\ u = IF t + 1 = n THEN 0 ELSE t + 1
  BY <1>0
<1>2. FromTail(n, s, h, t)
  BY QueueOfSeveral
<1>3. FromTail(n, r, h, u)
  BY QueueOfSeveral
<1> PICK a, b, k, l : /\ a = Queue(n, s, h, t) /\ b = Queue(n, r, h, u)
                      /\ k = Span(n, h, t) /\ l = Span(n, h, u)
  OBVIOUS
<1>4. /\ k \in 0..(n - 1) /\ a \in Seq(Slot) /\ Len(a) = k
      /\ \A i \in 1..k : a[i] = s[Wrap(n, t + i - 1)]
  BY <1>2 DEF FromTail
<1>5. /\ l \in 0..(n - 1) /\ b \in Seq(Slot) /\ Len(b) = l
      /\ \A i \in 1..l : b[i] = r[Wrap(n, u + i - 1)]
  BY <1>3 DEF FromTail
<1>6. l = k - 1 /\ k # 0
  BY <1>1 DEF Span
<1>7. a # <<>>
  BY <1>4, <1>6, EmptySeq
<1>8. /\ Tail(a) \in Seq(Slot) /\ Len(Tail(a)) = k - 1
      /\ \A i \in 1..(k - 1) : Tail(a)[i] = a[i + 1]
  BY <1>4, <1>7, HeadTailProperties
<1>9. ASSUME NEW i \in 1..l
      PROVE  b[i] = Tail(a)[i]
  <2>1. i \in 1..(k - 1) /\ i + 1 \in 1..k
    BY <1>4, <1>5, <1>6
  <2>2. PICK x \in Int : x = u + i - 1
    BY <1>5
  <2>3. PICK y \in Int : y = t + (i + 1) - 1
    BY <1>5
  <2>4. b[i] = r[Wrap(n, x)] /\ a[i + 1] = s[Wrap(n, y)]
    BY <1>4, <1>5, <2>1, <2>2, <2>3
  <2>5. Wrap(n, x) = Wrap(n, y) /\ Wrap(n, x) \in (0..(n - 1)) \ {t}
    BY <1>1, <1>4, <1>5, <1>6, <2>1, <2>2, <2>3, SMTT(30) DEF Wrap
  <2> QED
    BY <1>8, <2>1, <2>4, <2>5 DEF SameBut
<1>10. b = Tail(a)
  BY <1>5, <1>6, <1>8, <1>9, SeqEqual
<1>11. Head(a) = s[t]
  <2>1. Head(a) = a[1] /\ 1 \in 1..k
    BY <1>4, <1>6, <1>7
  <2>2. Wrap(n, t + 1 - 1) = t
    BY DEF Wrap
  <2> QED
    BY <1>4, <2>1, <2>2
<1> QED
  BY <1>1, <1>10, <1>11 DEF Takes

\* ... and one that purges takes the oldest out.
LEMMA QueuePurge ==
  ASSUME NEW n \in Nat \ {0}, NEW s \in [0..(n - 1) -> Slot],
         NEW h \in 0..(n - 1), NEW t \in 0..(n - 1), FullRing(n, s, h, t)
  PROVE  Rest(n, s, h, (t + 1) % n) = Tail(Queue(n, s, h, t))
<1>1. CASE n > 1
  <2>1. h # t
    <3>1. (h + 1) % n = IF h + 1 = n THEN 0 ELSE h + 1
      BY Remainder
    <3> QED
      BY <1>1, <3>1 DEF FullRing
  <2>2. SameBut(n, t, s, s)
    BY DEF SameBut
  <2>3. Takes(n, s, s, h, t)
    BY <1>1, <2>1, <2>2, QueueTail
  <2> QED
    BY <1>1, <2>3 DEF Rest, Takes
<1>2. CASE n = 1
  <2>1. h = 0 /\ t = 0
    BY <1>2
  <2>2. Queue(n, s, h, t) = <<s[0]>> /\ Tail(<<s[0]>>) = <<>>
    BY <1>2, <2>1, QueueOfOne DEF FullRing
  <2>3. Rest(n, s, h, (t + 1) % n) = <<>>
    BY <1>2 DEF Rest
  <2> QED
    BY <2>2, <2>3
<1>3. n > 1 \/ n = 1
  OBVIOUS
<1> QED
  BY <1>1, <1>2, <1>3

\* A reader takes the oldest message.
LEMMA QueueTake ==
  ASSUME NEW n \in Nat \ {0}, NEW s \in [0..(n - 1) -> Slot], NEW r \in [0..(n - 1) -> Slot],
         NEW h \in 0..(n - 1), NEW t \in 0..(n - 1), ~EmptyRing(n, s, h, t),
         SameBut(n, t, s, r), r[t].len = 0
  PROVE  Takes(n, s, r, h, t)
<1>1. CASE n > 1
  <2>1. h # t /\ n \in Nat
    BY <1>1 DEF EmptyRing
  <2> QED
    BY <1>1, <2>1, QueueTail
<1>2. CASE n = 1
  <2>1. h = 0 /\ t = 0 /\ (t + 1) % n = 0
    BY <1>2
  <2>2. Queue(n, s, h, t) = <<s[0]>> /\ Queue(n, r, h, (t + 1) % n) = <<>>
    BY <1>2, <2>1, QueueOfOne DEF EmptyRing
  <2>3. Tail(<<s[0]>>) = <<>> /\ Head(<<s[0]>>) = s[0]
    OBVIOUS
  <2> QED
    BY <2>1, <2>2, <2>3 DEF Takes
<1>3. n > 1 \/ n = 1
  OBVIOUS
<1> QED
  BY <1>1, <1>2, <1>3

\* A writer that has filled the slot at the head and moves the head appends it.
Appends(n, s, r, h, t) == Queue(n, r, (h + 1) % n, t) = Append(Rest(n, s, h, t), r[h])

LEMMA QueueAppend ==
  ASSUME NEW n \in Nat \ {0}, NEW s \in [0..(n - 1) -> Slot], NEW r \in [0..(n - 1) -> Slot],
         NEW h \in 0..(n - 1), NEW t \in 0..(n - 1), n = 1 \/ ~FullRing(n, s, h, t),
         SameBut(n, h, s, r), r[h].len # 0
  PROVE  Appends(n, s, r, h, t)
<1>1. CASE n > 1
  <2>0. (h + 1) % n = IF h + 1 = n THEN 0 ELSE h + 1
    BY Remainder
  <2>1. PICK g \in 0..(n - 1) : g = (h + 1) % n /\ g = IF h + 1 = n THEN 0 ELSE h + 1
    BY <2>0
  <2>2. g # t
    BY <1>1, <2>1 DEF FullRing
  <2>3. FromTail(n, s, h, t)
    BY <1>1, QueueOfSeveral
  <2>4. FromTail(n, r, g, t)
    BY <1>1, QueueOfSeveral
  <2> PICK a, b, k, l : /\ a = Queue(n, s, h, t) /\ b = Queue(n, r, g, t)
                        /\ k = Span(n, h, t) /\ l = Span(n, g, t)
    OBVIOUS
  <2>5. /\ k \in 0..(n - 1) /\ a \in Seq(Slot) /\ Len(a) = k
        /\ \A i \in 1..k : a[i] = s[Wrap(n, t + i - 1)]
        /\ l \in 0..(n - 1) /\ b \in Seq(Slot) /\ Len(b) = l
        /\ \A i \in 1..l : b[i] = r[Wrap(n, t + i - 1)]
        /\ l = k + 1
    <3>1. /\ k \in 0..(n - 1) /\ a \in Seq(Slot) /\ Len(a) = k
          /\ \A i \in 1..k : a[i] = s[Wrap(n, t + i - 1)]
      BY <2>3 DEF FromTail
    <3>2. /\ l \in 0..(n - 1) /\ b \in Seq(Slot) /\ Len(b) = l
          /\ \A i \in 1..l : b[i] = r[Wrap(n, t + i - 1)]
      BY <2>4 DEF FromTail
    <3>3. l = k + 1
      BY <2>1, <2>2 DEF Span
    <3> QED
      BY <3>1, <3>2, <3>3
  <2>6. /\ Append(a, r[h]) \in Seq(Slot) /\ Len(Append(a, r[h])) = k + 1
        /\ \A i \in 1..k : Append(a, r[h])[i] = a[i]
        /\ Append(a, r[h])[k + 1] = r[h]
    BY <2>5, AppendProperties
  <2>7. ASSUME NEW i \in 1..l
        PROVE  b[i] = Append(a, r[h])[i]
    <3>0. PICK x \in Int : x = t + i - 1
      BY <2>5
    <3>1. b[i] = r[Wrap(n, x)]
      BY <2>5, <3>0
    <3>2. CASE i = k + 1
      <4>1. Wrap(n, x) = h
        BY <2>5, <3>0, <3>2 DEF Wrap, Span
      <4> QED
        BY <2>6, <3>1, <3>2, <4>1
    <3>3. CASE i # k + 1
      <4>1. i \in 1..k
        BY <2>5, <3>3
      <4>2. Wrap(n, x) \in (0..(n - 1)) \ {h}
        BY <2>5, <3>0, <4>1 DEF Wrap, Span
      <4>3. a[i] = s[Wrap(n, x)]
        BY <2>5, <3>0, <4>1
      <4> QED
        BY <2>6, <3>1, <4>1, <4>2, <4>3 DEF SameBut
    <3> QED
      BY <3>2, <3>3
  <2>8. b = Append(a, r[h])
    BY <2>5, <2>6, <2>7, SeqEqual
  <2> QED
    BY <1>1, <2>1, <2>8 DEF Rest, Appends
<1>2. CASE n = 1
  <2>1. h = 0 /\ t = 0 /\ (h + 1) % n = 0
    BY <1>2
  <2>2. Queue(n, r, (h + 1) % n, t) = <<r[0]>>
    BY <1>2, <2>1, QueueOfOne
  <2>3. Append(<<>>, r[0]) = <<r[0]>>
    OBVIOUS
  <2> QED
    BY <1>2, <2>1, <2>2, <2>3 DEF Rest, Appends
<1>3. n > 1 \/ n = 1
  OBVIOUS
<1> QED
  BY <1>1, <1>2, <1>3

-----------------------------------------------------------------------------
\* What a call carries from one statement to the next.

\* The messages that a write accepts.
Sent == {m \in Message : m.len > 0}

Carries(t) ==
  /\ pc[t] \in {"write_lock", "write_check", "write_fill", "write_commit"} => msg[t] \in Sent
  /\ pc[t] \in {"write_fill", "write_commit"} => Depth[pipe[t]] = 1 \/ ~IsFull(pipe[t])
  /\ pc[t] = "write_commit" => slot[pipe[t]][head[pipe[t]]].body = msg[t].body
  /\ pc[t] = "read_advance" => buf[t] = slot[pipe[t]][tail[pipe[t]]]
  /\ pc[t] = "notify_writers" => buf[t] \in Sent

\* A writer at the head has found it free and fills it with what it was given; a
\* reader has the message at the tail.
CarryInv == \A t \in Thread : Carries(t)

\* What the pipe's queue is made of.
QueueInv == \A p \in Pipe : Contents(p) \in Seq(Sent)

LEMMA RingIs ==
  ASSUME TypeInv, NEW p \in Pipe
  PROVE  /\ Depth[p] \in Nat \ {0} /\ slot[p] \in [0..(Depth[p] - 1) -> Slot]
         /\ head[p] \in 0..(Depth[p] - 1) /\ tail[p] \in 0..(Depth[p] - 1)
BY IpcAssumption DEF TypeInv, TypeOK

\* The pipe's operators in the ring's terms, before a step and after it.
LEMMA RingTerms ==
  ASSUME NEW p \in Pipe
  PROVE  /\ Contents(p) = IF Transferring(p) THEN Rest(Depth[p], slot[p], head[p], tail[p])
                                             ELSE Queue(Depth[p], slot[p], head[p], tail[p])
         /\ IsFull(p) <=> FullRing(Depth[p], slot[p], head[p], tail[p])
         /\ IsEmpty(p) <=> EmptyRing(Depth[p], slot[p], head[p], tail[p])
<1>1. Depth[p] \in Nat \ {0}
  BY IpcAssumption
<1> QED
  BY <1>1 DEF Contents, Queued, Rest, Queue, IsFull, IsEmpty, FullRing, EmptyRing, IdxInc

LEMMA RingTermsNext ==
  ASSUME NEW p \in Pipe
  PROVE  /\ Contents(p)' = IF Transferring(p)' THEN Rest(Depth[p], slot'[p], head'[p], tail'[p])
                           ELSE Queue(Depth[p], slot'[p], head'[p], tail'[p])
         /\ IsFull(p)' <=> FullRing(Depth[p], slot'[p], head'[p], tail'[p])
         /\ IsEmpty(p)' <=> EmptyRing(Depth[p], slot'[p], head'[p], tail'[p])
<1>1. Depth[p] \in Nat \ {0}
  BY IpcAssumption
<1> QED
  BY <1>1 DEF Contents, Queued, Rest, Queue, IsFull, IsEmpty, FullRing, EmptyRing, IdxInc

LEMMA InitCarryInv == Init => CarryInv /\ QueueInv
<1> SUFFICES ASSUME Init PROVE CarryInv /\ QueueInv
  OBVIOUS
<1>1. CarryInv
  BY DEF Init, CarryInv, Carries
<1>2. ASSUME NEW p \in Pipe PROVE Contents(p) = <<>>
  <2>1. ~Transferring(p)
    BY <1>2 DEF Init, Transferring
  <2>2. TypeInv
    BY InitTypeInv
  <2>3. IsEmpty(p)
    BY IpcAssumption DEF Init, IsEmpty, NoData
  <2>4. /\ Depth[p] \in Nat \ {0} /\ slot[p] \in [0..(Depth[p] - 1) -> Slot]
        /\ head[p] \in 0..(Depth[p] - 1) /\ tail[p] \in 0..(Depth[p] - 1)
    BY <2>2, RingIs
  <2>5. EmptyRing(Depth[p], slot[p], head[p], tail[p])
    BY <2>3, RingTerms
  <2>6. Queue(Depth[p], slot[p], head[p], tail[p]) = <<>>
    BY <2>4, <2>5, QueueLength
  <2> QED
    BY <2>1, <2>6, RingTerms
<1>3. <<>> \in Seq(Sent)
  OBVIOUS
<1> QED
  BY <1>1, <1>2, <1>3 DEF QueueInv

\* A step inside a pipe's lock changes nothing for the calls on other pipes.
LEMMA OwnCarryInv ==
  ASSUME TypeInv, LockInv, CarryInv,
         NEW t \in Thread, pc[t] \in Locked, NEW p \in Pipe, pipe[t] = p,
         \A u \in Thread \ {t} :
           pc'[u] = pc[u] /\ pipe'[u] = pipe[u] /\ msg'[u] = msg[u] /\ buf'[u] = buf[u],
         \A o \in Pipe \ {p} : head'[o] = head[o] /\ tail'[o] = tail[o] /\ slot'[o] = slot[o],
         Carries(t)'
  PROVE  CarryInv'
<1> SUFFICES ASSUME NEW u \in Thread PROVE Carries(u)'
  BY DEF CarryInv
<1>1. CASE u = t
  BY <1>1
<1>2. CASE u # t /\ pc[u] \notin Locked
  BY <1>2 DEF CarryInv, Carries
<1>3. CASE u # t /\ pc[u] \in Locked
  <2>1. lock[p] = t /\ lock[pipe[u]] = u /\ pipe[u] \in Pipe
    BY <1>3 DEF LockInv, LockHeld, TypeInv, Arguments
  <2>2. pipe[u] \in Pipe \ {p}
    BY <1>3, <2>1
  <2>3. IsFull(pipe[u])' <=> IsFull(pipe[u])
    BY <1>3, <2>2 DEF IsFull, IdxInc
  <2> QED
    BY <1>3, <2>2, <2>3 DEF CarryInv, Carries
<1> QED
  BY <1>1, <1>2, <1>3

\* So does one that moves no index and changes no slot.
LEMMA IdleCarryInv ==
  ASSUME TypeInv, CarryInv, NEW t \in Thread,
         \A u \in Thread \ {t} :
           pc'[u] = pc[u] /\ pipe'[u] = pipe[u] /\ msg'[u] = msg[u] /\ buf'[u] = buf[u],
         UNCHANGED <<slot, head, tail>>,
         Carries(t)'
  PROVE  CarryInv'
<1>1. \A o : IsFull(o)' <=> IsFull(o)
  BY DEF IsFull, IdxInc
<1> QED
  BY <1>1 DEF CarryInv, Carries

\* A message is its body and its length.
LEMMA WholeMessage ==
  ASSUME NEW m \in Message, NEW s \in Slot, s.body = m.body
  PROVE  [s EXCEPT !.len = m.len] = m
<1>1. m = [body |-> m.body, len |-> m.len]
  BY IpcAssumption
<1>2. s = [body |-> s.body, len |-> s.len]
  BY DEF Slot
<1> QED
  BY <1>1, <1>2

LEMMA StepCarryInv ==
  ASSUME TypeInv, LockInv, WaitInv, CarryInv, QueueInv, NEW t \in Thread, Step(t)
  PROVE  CarryInv'
<1> USE DEF Goto
<1>0. PICK p : p = pipe[t]
  OBVIOUS
<1>1. p \in Pipe /\ pc[t] # "user"
  BY <1>0 DEF Step, WriteLock, ReadLock, Acquire, PurgeOldest, FindRoom, WriterWaits, WriteFill,
     WriteCommit, ReaderWaits, ReadCopy, ReadAdvance, MarkBlocked, ReturnBlocked, NotifyReader,
     NotifyWriter, ReturnOk, TypeInv, Arguments
<1>2. /\ Depth[p] \in Nat \ {0} /\ slot[p] \in [0..(Depth[p] - 1) -> Slot]
      /\ head[p] \in 0..(Depth[p] - 1) /\ tail[p] \in 0..(Depth[p] - 1)
  BY <1>1, RingIs
<1>3. /\ pc \in [Thread -> Label] /\ buf \in [Thread -> Slot] /\ msg \in [Thread -> Message \cup {None}]
      /\ pipe \in [Thread -> Pipe \cup {None}]
      /\ slot = [o \in Pipe |-> slot[o]] /\ head \in [Pipe -> Nat] /\ tail \in [Pipe -> Nat]
  BY DEF TypeInv, TypeOK
<1>4. Carries(t)
  BY DEF CarryInv
<1>5. CASE WriteLock(t) \/ ReadLock(t)
  <2>1. UNCHANGED <<slot, head, tail, pipe, msg, buf>>
    BY <1>5 DEF WriteLock, ReadLock, Acquire, pipeVars
  <2>2. \/ pc[t] = "write_lock" /\ pc' = [pc EXCEPT ![t] = "write_check"]
        \/ pc[t] = "read_lock" /\ pc' = [pc EXCEPT ![t] = "read_check"]
    BY <1>5 DEF WriteLock, ReadLock, Acquire
  <2>3. Carries(t)'
    BY <1>3, <1>4, <2>1, <2>2 DEF Carries
  <2> QED
    BY <1>3, <2>1, <2>2, <2>3, IdleCarryInv
<1>6. CASE PurgeOldest(t)
  <2>1. /\ pc[t] = "write_check" /\ pc' = [pc EXCEPT ![t] = "write_fill"]
        /\ UNCHANGED <<slot, head, pipe, msg, buf>> /\ tail' = [tail EXCEPT ![p] = IdxInc(p, @)]
        /\ IsFull(p)
    BY <1>0, <1>6 DEF PurgeOldest
  <2>2. Depth[p] = 1 \/ ~IsFull(p)'
    <3>1. CASE Depth[p] > 1
      <4>1. IdxInc(p, head[p]) = tail[p] /\ tail'[p] = IdxInc(p, tail[p])
        BY <1>1, <1>3, <2>1, <3>1 DEF IsFull
      <4>2. IdxInc(p, tail[p]) = IF tail[p] + 1 = Depth[p] THEN 0 ELSE tail[p] + 1
        BY <1>1, <1>2, IdxIncValue
      <4>3. IdxInc(p, head'[p]) = tail[p]
        BY <2>1, <4>1
      <4>4. tail'[p] # tail[p]
        BY <1>2, <3>1, <4>1, <4>2
      <4> QED
        BY <3>1, <4>3, <4>4 DEF IsFull, IdxInc
    <3> QED
      BY <1>2, <3>1
  <2>3. Carries(t)'
    BY <1>0, <1>1, <1>3, <1>4, <2>1, <2>2 DEF Carries
  <2> QED
    BY <1>0, <1>1, <1>3, <2>1, <2>3, OwnCarryInv
<1>7. CASE FindRoom(t)
  <2>1. /\ pc[t] = "write_check" /\ pc' = [pc EXCEPT ![t] = "write_fill"]
        /\ UNCHANGED <<slot, head, tail, pipe, msg, buf>> /\ ~IsFull(pipe[t])
    BY <1>7 DEF FindRoom, pipeVars
  <2>2. ~IsFull(pipe[t])'
    BY <2>1 DEF IsFull, IdxInc
  <2>3. Carries(t)'
    BY <1>3, <1>4, <2>1, <2>2 DEF Carries
  <2> QED
    BY <1>3, <2>1, <2>3, IdleCarryInv
<1>8. CASE WriterWaits(t) \/ ReaderWaits(t) \/ MarkBlocked(t)
  <2>1. PICK label \in {"write_block", "read_block", "blocked"} :
          pc' = [pc EXCEPT ![t] = label]
    BY <1>8 DEF WriterWaits, ReaderWaits, MarkBlocked
  <2>2. UNCHANGED <<slot, head, tail, pipe, msg, buf>>
    BY <1>8 DEF WriterWaits, ReaderWaits, MarkBlocked, pipeVars
  <2>3. Carries(t)'
    BY <1>3, <2>1 DEF Carries
  <2> QED
    BY <1>3, <2>1, <2>2, <2>3, IdleCarryInv
<1>9. CASE WriteFill(t)
  <2>1. /\ pc[t] = "write_fill" /\ pc' = [pc EXCEPT ![t] = "write_commit"]
        /\ UNCHANGED <<head, tail, pipe, msg, buf>>
        /\ slot' = [slot EXCEPT ![p][head[p]].body = msg[t].body]
    BY <1>0, <1>9 DEF WriteFill
  <2>2. slot'[p][0].len = slot[p][0].len
    <3>1. slot'[p] = [slot[p] EXCEPT ![head[p]].body = msg[t].body]
      BY <1>1, <1>3, <2>1
    <3>2. slot[p][0] \in Slot
      BY <1>2
    <3> QED
      BY <1>2, <3>1, <3>2 DEF Slot
  <2>3. slot'[p][head[p]].body = msg[t].body
    <3>1. slot'[p] = [slot[p] EXCEPT ![head[p]].body = msg[t].body]
      BY <1>1, <1>3, <2>1
    <3>2. slot[p][head[p]] \in Slot
      BY <1>2
    <3> QED
      BY <1>2, <3>1, <3>2 DEF Slot
  <2>4. IsFull(p)' <=> IsFull(p)
    BY <2>1, <2>2, SameRing, <1>1
  <2>5. Carries(t)'
    BY <1>0, <1>3, <1>4, <2>1, <2>3, <2>4 DEF Carries
  <2>6. \A o \in Pipe \ {p} : slot'[o] = slot[o]
    BY <1>3, <2>1
  <2> QED
    BY <1>0, <1>1, <1>3, <2>1, <2>5, <2>6, OwnCarryInv
<1>10. CASE WriteCommit(t)
  <2>1. /\ pc[t] = "write_commit" /\ pc' = [pc EXCEPT ![t] = "notify_readers"]
        /\ UNCHANGED <<tail, pipe, msg, buf>>
        /\ slot' = [slot EXCEPT ![p][head[p]].len = msg[t].len]
        /\ head' = [head EXCEPT ![p] = IdxInc(p, @)]
    BY <1>0, <1>10 DEF WriteCommit
  <2>2. Carries(t)'
    BY <1>3, <2>1 DEF Carries
  <2>3. \A o \in Pipe \ {p} : slot'[o] = slot[o] /\ head'[o] = head[o]
    BY <1>3, <2>1
  <2> QED
    BY <1>0, <1>1, <1>3, <2>1, <2>2, <2>3, OwnCarryInv
<1>11. CASE ReadCopy(t)
  <2>1. /\ pc[t] = "read_check" /\ pc' = [pc EXCEPT ![t] = "read_advance"]
        /\ UNCHANGED <<slot, head, tail, pipe, msg>>
        /\ buf' = [buf EXCEPT ![t] = slot[p][tail[p]]]
    BY <1>0, <1>11 DEF ReadCopy, pipeVars
  <2>2. Carries(t)'
    BY <1>0, <1>3, <2>1 DEF Carries
  <2> QED
    BY <1>3, <2>1, <2>2, IdleCarryInv
<1>12. CASE ReadAdvance(t)
  <2>1. /\ pc[t] = "read_advance" /\ pc' = [pc EXCEPT ![t] = "notify_writers"]
        /\ UNCHANGED <<head, pipe, msg, buf>>
        /\ slot' = [slot EXCEPT ![p][tail[p]].len = 0]
        /\ tail' = [tail EXCEPT ![p] = IdxInc(p, @)]
    BY <1>0, <1>12 DEF ReadAdvance
  <2>2. buf[t] = slot[p][tail[p]]
    BY <1>0, <1>4, <2>1 DEF Carries
  <2>3. ~IsEmpty(p) /\ ~Transferring(p)
    <3>1. lock[p] = t
      BY <1>0, <2>1 DEF LockInv, LockHeld
    <3> QED
      BY <1>0, <2>1, <3>1 DEF WaitInv, Transferring
  <2>4. slot[p][tail[p]] \in Sent
    <3>1. Contents(p) = Queue(Depth[p], slot[p], head[p], tail[p])
      BY <1>1, <2>3, RingTerms
    <3>2. PICK r \in [0..(Depth[p] - 1) -> Slot] : SameBut(Depth[p], tail[p], slot[p], r) /\ r[tail[p]].len = 0
      <4>1. [slot[p] EXCEPT ![tail[p]].len = 0] \in [0..(Depth[p] - 1) -> Slot]
        BY <1>2, SlotUpdate
      <4> QED
        BY <1>2, <4>1 DEF SameBut, Slot
    <3>3. ~EmptyRing(Depth[p], slot[p], head[p], tail[p])
      BY <1>1, <2>3, RingTerms
    <3>4. Takes(Depth[p], slot[p], r, head[p], tail[p])
      BY <1>2, <3>2, <3>3, QueueTake
    <3>5. Contents(p) # <<>> /\ Contents(p) \in Seq(Sent)
      BY <1>1, <1>2, <3>1, <3>3, QueueLength DEF QueueInv
    <3>6. Head(Contents(p)) \in Sent
      BY <3>5, HeadTailProperties
    <3> QED
      BY <3>1, <3>4, <3>6 DEF Takes
  <2>5. Carries(t)'
    BY <1>3, <2>1, <2>2, <2>4 DEF Carries
  <2>6. \A o \in Pipe \ {p} : slot'[o] = slot[o] /\ tail'[o] = tail[o]
    BY <1>3, <2>1
  <2> QED
    BY <1>0, <1>1, <1>3, <2>1, <2>5, <2>6, OwnCarryInv
<1>13. CASE NotifyReader(t) \/ NotifyWriter(t)
  <2>1. UNCHANGED <<slot, head, tail, pc, pipe, msg, buf>>
    BY <1>13 DEF NotifyReader, NotifyWriter, callVars
  <2> QED
    BY <2>1 DEF CarryInv, Carries, IsFull, IdxInc
<1>14. CASE ReturnBlocked(t) \/ ReturnOk(t)
  <2>1. PICK r : Return(t, r)
    BY <1>14 DEF ReturnBlocked, ReturnOk
  <2>2. UNCHANGED <<slot, head, tail>> /\ pc' = [pc EXCEPT ![t] = "user"]
        /\ \A u \in Thread \ {t} : pipe'[u] = pipe[u] /\ msg'[u] = msg[u] /\ buf'[u] = buf[u]
    BY <1>3, <2>1 DEF Return, pipeVars
  <2>3. Carries(t)'
    BY <1>3, <2>2 DEF Carries
  <2> QED
    BY <1>3, <2>2, <2>3, IdleCarryInv
<1> QED
  BY <1>5, <1>6, <1>7, <1>8, <1>9, <1>10, <1>11, <1>12, <1>13, <1>14 DEF Step

LEMMA NextCarryInv ==
  TypeInv /\ LockInv /\ WaitInv /\ CarryInv /\ QueueInv /\ [Next]_vars => CarryInv'
<1> SUFFICES ASSUME TypeInv, LockInv, WaitInv, CarryInv, QueueInv, [Next]_vars
             PROVE  CarryInv'
  OBVIOUS
<1>1. CASE UNCHANGED vars
  BY <1>1 DEF vars, pipeVars, callVars, CarryInv, Carries, IsFull, IdxInc
<1>2. ASSUME NEW t \in Thread, Call(t) PROVE CarryInv'
  <2>1. UNCHANGED <<slot, head, tail, buf>> /\ pc[t] = "user"
    BY <1>2 DEF Call, PipeWriteCall, PipeReadCall, Fail, Enter, pipeVars
  <2>2. \A u \in Thread \ {t} : pc'[u] = pc[u] /\ pipe'[u] = pipe[u] /\ msg'[u] = msg[u]
    BY <1>2 DEF Call, PipeWriteCall, PipeReadCall, Fail, Enter, callVars, TypeInv, TypeOK
  <2>3. Carries(t)'
    <3>1. \/ pc'[t] \in {"user", "read_lock"}
          \/ pc'[t] = "write_lock" /\ msg'[t] \in Sent
      BY <1>2, <2>1, IpcAssumption
         DEF Call, PipeWriteCall, PipeReadCall, Fail, Enter, callVars, TypeInv, TypeOK, Sent
    <3> QED
      BY <3>1 DEF Carries
  <2> QED
    BY <2>1, <2>2, <2>3, IdleCarryInv
<1> QED
  BY <1>1, <1>2, StepCarryInv DEF Next

-----------------------------------------------------------------------------
\* The refinement.

\* Channel's place and got.
PlaceOf(p) == IF Transferring(p) THEN lock[p] ELSE None
GotBy(t) == IF At(t, "notify_writers") THEN buf[t] ELSE None

\* Nothing a user of p could see has changed.
Still(p) == /\ Contents(p)' = Contents(p)
            /\ PlaceOf(p)' = PlaceOf(p)
            /\ BeingNotified(p)' = BeingNotified(p)

SameWaiting(t) == WaitingFor(t)' = WaitingFor(t)
SameGot(t) == GotBy(t)' = GotBy(t)

LEMMA Stutters ==
  ASSUME \A p \in Pipe : Still(p), \A t \in Thread : SameWaiting(t) /\ SameGot(t)
  PROVE  UNCHANGED Channel!vars
BY DEF Channel!vars, Still, SameWaiting, SameGot, PlaceOf, GotBy

\* The other pipes stand still.
LEMMA OthersStill ==
  ASSUME TypeInv, LockInv, NEW t \in Thread, NEW p \in Pipe,
         pipe[t] = p \/ pc[t] \notin Locked,
         \A u \in Thread \ {t} : pc'[u] = pc[u],
         NEW o \in Pipe \ {p},
         slot'[o] = slot[o], head'[o] = head[o], tail'[o] = tail[o], lock'[o] = lock[o],
         readers'[o] = readers[o], writers'[o] = writers[o]
  PROVE  Still(o)
<1>1. lock[o] # t
  BY IpcAssumption DEF LockInv, HolderAtWork
<1>2. lock[o] # None => lock[o] \in Thread \ {t}
  BY <1>1 DEF TypeInv, TypeOK
<1>3. Transferring(o)' <=> Transferring(o)
  BY <1>2 DEF Transferring
<1>4. Contents(o)' = Contents(o)
  BY <1>3, RingTerms, RingTermsNext
<1>5. BeingNotified(o)' = BeingNotified(o)
  BY <1>2 DEF BeingNotified
<1> QED
  BY <1>3, <1>4, <1>5 DEF Still, PlaceOf

\* A pipe whose holder is not at its ring or its lists is quiet, and its queue is all
\* that the ring holds.
LEMMA Quiet ==
  ASSUME NEW p \in Pipe,
         lock[p] = None \/ pc[lock[p]] \notin {"write_fill", "write_commit",
                                               "notify_readers", "notify_writers"}
  PROVE  /\ Contents(p) = Queue(Depth[p], slot[p], head[p], tail[p])
         /\ PlaceOf(p) = None /\ BeingNotified(p) = {}
BY RingTerms DEF PlaceOf, Transferring, BeingNotified

LEMMA QuietNext ==
  ASSUME NEW p \in Pipe,
         lock'[p] = None \/ pc'[lock'[p]] \notin {"write_fill", "write_commit",
                                                  "notify_readers", "notify_writers"}
  PROVE  /\ Contents(p)' = Queue(Depth[p], slot'[p], head'[p], tail'[p])
         /\ PlaceOf(p)' = None /\ BeingNotified(p)' = {}
BY RingTermsNext DEF PlaceOf, Transferring, BeingNotified

\* blocked_by and the wait lists say who waits where.
LEMMA SameWaits ==
  ASSUME NEW t \in Thread, blockedBy'[t] = blockedBy[t],
         \/ blockedBy[t] = None
         \/ t \in ToSet(readers'[blockedBy[t]]) <=> t \in ToSet(readers[blockedBy[t]])
  PROVE  SameWaiting(t)
BY DEF SameWaiting, WaitingFor

LEMMA ListedIs ==
  ASSUME TypeInv, NEW p \in Pipe, NEW t \in Thread
  PROVE  /\ t \in ToSet(readers[p]) <=> \E i \in Nat : Waits(t, p, "reader", i)
         /\ t \in ToSet(writers[p]) <=> \E i \in Nat : Waits(t, p, "writer", i)
<1>1. readers[p] \in Seq(Thread) /\ writers[p] \in Seq(Thread)
  BY DEF TypeInv, TypeOK
<1> QED
  BY <1>1 DEF Waits, List, ToSet

\* With a pipe's lock and no call of one's own to block, the waiters are the list.
LEMMA WaitersAre ==
  ASSUME TypeInv, LockInv, PlaceInv, NEW t \in Thread, NEW p \in Pipe, pipe[t] = p,
         pc[t] \in Locked \ Blocking
  PROVE  /\ {u \in Thread : WaitingFor(u) = <<p, "reader">>} = ToSet(readers[p])
         /\ {u \in Thread : WaitingFor(u) = <<p, "writer">>} = ToSet(writers[p])
<1>1. lock[p] = t
  BY DEF LockInv, LockHeld
<1>2. ASSUME NEW u \in Thread, NEW e \in Side, NEW i \in Nat, Waits(u, p, e, i)
      PROVE  blockedBy[u] = p
  <2>1. pc[u] \notin Blocking \/ pipe[u] # p
    BY <1>1 DEF LockInv, LockHeld
  <2> QED
    BY <1>2, <2>1 DEF PlaceInv
<1>3. ASSUME NEW u \in Thread, blockedBy[u] = p
      PROVE  \E e \in Side, i \in Nat : Waits(u, p, e, i)
  <2>1. blockedBy[u] # None
    BY <1>3, IpcAssumption
  <2>2. Waiting(u) /\ pc[u] \in {"user", "blocked"}
    BY <2>1 DEF PlaceInv
  <2>3. PICK q \in Pipe, e \in Side, i \in Nat : Waits(u, q, e, i)
    BY <2>2 DEF Waiting
  <2>4. q = p
    BY <1>3, <2>2, <2>3 DEF PlaceInv
  <2> QED
    BY <2>3, <2>4
<1>4. ASSUME NEW u \in Thread, u \in ToSet(readers[p]), u \in ToSet(writers[p])
      PROVE  FALSE
  BY <1>4, ListedIs DEF PlaceInv
<1>5. ASSUME NEW u \in Thread
      PROVE  /\ WaitingFor(u) = <<p, "reader">> <=> u \in ToSet(readers[p])
             /\ WaitingFor(u) = <<p, "writer">> <=> u \in ToSet(writers[p])
  <2>1. CASE blockedBy[u] = p
    <3>1. u \in ToSet(readers[p]) \/ u \in ToSet(writers[p])
      BY <1>3, <2>1, ListedIs
    <3>2. WaitingFor(u) = <<p, IF u \in ToSet(readers[p]) THEN "reader" ELSE "writer">>
      BY <2>1, IpcAssumption DEF WaitingFor
    <3> QED
      BY <1>4, <3>1, <3>2
  <2>2. CASE blockedBy[u] # p
    <3>1. u \notin ToSet(readers[p]) /\ u \notin ToSet(writers[p])
      BY <1>2, <2>2, ListedIs
    <3>2. WaitingFor(u) # <<p, "reader">> /\ WaitingFor(u) # <<p, "writer">>
      <4>1. <<p, "reader">> # None /\ <<p, "writer">> # None
        BY IpcAssumption
      <4> QED
        BY <2>2, <4>1 DEF WaitingFor
    <3> QED
      BY <3>1, <3>2
  <2> QED
    BY <2>1, <2>2
<1>6. ToSet(readers[p]) \subseteq Thread /\ ToSet(writers[p]) \subseteq Thread
  BY DEF TypeInv, TypeOK, ToSet
<1> QED
  BY <1>5, <1>6

-----------------------------------------------------------------------------
\* Channel's actions, in the terms of this module.

LEMMA IsTakePlace ==
  ASSUME NEW t \in Thread, NEW p \in Pipe,
         PlaceOf(p) = None, BeingNotified(p) = {}, WaitingFor(t) = None,
         \A o \in Pipe \ {p} : Still(o), \A u \in Thread : SameWaiting(u) /\ SameGot(u),
         PlaceOf(p)' = t, BeingNotified(p)' = {},
         \/ Len(Contents(p)) # Room(p) /\ Contents(p)' = Contents(p)
         \/ Len(Contents(p)) = Room(p) /\ p \in Purging /\ Contents(p)' = Tail(Contents(p))
  PROVE  Channel!TakePlace(t, p)
BY DEF Channel!TakePlace, Channel!Quiet, Channel!IsFull, Still, SameWaiting, SameGot, PlaceOf,
       GotBy

LEMMA IsSend ==
  ASSUME NEW t \in Thread, NEW p \in Pipe, NEW m,
         PlaceOf(p) = t,
         \A o \in Pipe \ {p} : Still(o), \A u \in Thread : SameWaiting(u) /\ SameGot(u),
         Contents(p)' = Append(Contents(p), m), PlaceOf(p)' = None,
         BeingNotified(p)' = {u \in Thread : WaitingFor(u) = <<p, "reader">>}
  PROVE  Channel!Send(t, p, m)
BY DEF Channel!Send, Channel!Waiters, Still, SameWaiting, SameGot, PlaceOf, GotBy

LEMMA IsReceive ==
  ASSUME NEW t \in Thread, NEW p \in Pipe,
         PlaceOf(p) = None, BeingNotified(p) = {}, WaitingFor(t) = None, Contents(p) # <<>>,
         \A o \in Pipe \ {p} : Still(o), \A u \in Thread : SameWaiting(u),
         \A u \in Thread \ {t} : SameGot(u),
         GotBy(t)' = Head(Contents(p)), Contents(p)' = Tail(Contents(p)),
         PlaceOf(p)' = None,
         BeingNotified(p)' = {u \in Thread : WaitingFor(u) = <<p, "writer">>}
  PROVE  Channel!Receive(t, p)
BY DEF Channel!Receive, Channel!Quiet, Channel!IsEmpty, Channel!Waiters, Still, SameWaiting,
       SameGot, PlaceOf, GotBy

LEMMA IsAwait ==
  ASSUME NEW t \in Thread, NEW p \in Pipe,
         PlaceOf(p) = None, BeingNotified(p) = {}, WaitingFor(t) = None,
         \A o \in Pipe : Still(o), \A u \in Thread : SameGot(u),
         \A u \in Thread \ {t} : SameWaiting(u)
  PROVE  /\ p \notin Purging /\ Len(Contents(p)) = Room(p) /\ WaitingFor(t)' = <<p, "writer">> =>
              Channel!AwaitPlace(t, p)
         /\ Contents(p) = <<>> /\ WaitingFor(t)' = <<p, "reader">> =>
              Channel!AwaitMessage(t, p)
BY DEF Channel!AwaitPlace, Channel!AwaitMessage, Channel!Quiet, Channel!IsFull,
       Channel!IsEmpty, Still, SameWaiting, SameGot, PlaceOf, GotBy

LEMMA IsWake ==
  ASSUME NEW t \in Thread, NEW p \in Pipe, t \in BeingNotified(p),
         \A o \in Pipe \ {p} : Still(o), \A u \in Thread : SameGot(u),
         \A u \in Thread \ {t} : SameWaiting(u),
         BeingNotified(p)' = BeingNotified(p) \ {t}, WaitingFor(t)' = None,
         Contents(p)' = Contents(p), PlaceOf(p)' = PlaceOf(p)
  PROVE  Channel!Wake(t, p)
BY DEF Channel!Wake, Still, SameWaiting, SameGot, PlaceOf, GotBy

LEMMA IsAccept ==
  ASSUME NEW t \in Thread, GotBy(t) # None, GotBy(t)' = None,
         \A o \in Pipe : Still(o), \A u \in Thread : SameWaiting(u),
         \A u \in Thread \ {t} : SameGot(u)
  PROVE  Channel!Accept(t)
BY DEF Channel!Accept, Still, SameWaiting, SameGot, PlaceOf, GotBy

-----------------------------------------------------------------------------
\* The steps.

ChanInv == TypeInv /\ LockInv /\ WaitInv /\ PlaceInv /\ CarryInv /\ QueueInv

Transfers == {"write_fill", "write_commit", "notify_readers", "notify_writers"}

\* A call inside its pipe's lock.
LEMMA Inside ==
  ASSUME ChanInv, NEW t \in Thread, pc[t] \in Locked
  PROVE  /\ pipe[t] \in Pipe /\ lock[pipe[t]] = t /\ t # None
         /\ pc[t] # "blocked" => blockedBy[t] = None /\ WaitingFor(t) = None
         /\ pc[t] \notin Transfers =>
              /\ Contents(pipe[t]) = Queue(Depth[pipe[t]], slot[pipe[t]], head[pipe[t]], tail[pipe[t]])
              /\ PlaceOf(pipe[t]) = None /\ BeingNotified(pipe[t]) = {}
<1>1. pipe[t] \in Pipe /\ lock[pipe[t]] = t /\ t # None
  BY IpcAssumption DEF ChanInv, TypeInv, Arguments, LockInv, LockHeld
<1>2. pc[t] # "blocked" => blockedBy[t] = None /\ WaitingFor(t) = None
  BY DEF ChanInv, PlaceInv, WaitingFor
<1> QED
  BY <1>1, <1>2, Quiet DEF Transfers

\* Steps that no user of a pipe sees.
LEMMA SilentStep ==
  ASSUME ChanInv, NEW t \in Thread,
         Call(t) \/ WriteLock(t) \/ ReadLock(t) \/ WriterWaits(t) \/ ReaderWaits(t)
           \/ WriteFill(t) \/ ReadCopy(t) \/ ReturnBlocked(t)
           \/ (ReturnOk(t) /\ pc[t] = "notify_readers")
  PROVE  UNCHANGED Channel!vars
<1> USE DEF Goto
<1>1. /\ pc \in [Thread -> Label] /\ buf \in [Thread -> Slot] /\ lock \in [Pipe -> Thread \cup {None}]
      /\ slot = [o \in Pipe |-> slot[o]] /\ head \in [Pipe -> Nat] /\ tail \in [Pipe -> Nat]
      /\ readers \in [Pipe -> Seq(Thread)] /\ writers \in [Pipe -> Seq(Thread)]
  BY DEF ChanInv, TypeInv, TypeOK
<1>2. CASE Call(t)
  <2>1. /\ UNCHANGED <<pipeVars, lock, buf, blockedBy>> /\ pc[t] = "user"
        /\ \A u \in Thread \ {t} : pc'[u] = pc[u]
        /\ pc'[t] \in {"user", "write_lock", "read_lock"}
    BY <1>1, <1>2 DEF Call, PipeWriteCall, PipeReadCall, Fail, Enter, callVars
  <2>2. ASSUME NEW o \in Pipe PROVE Still(o)
    <3>1. lock[o] # None => lock[o] \in Thread \ {t}
      BY <1>1, <2>1 DEF ChanInv, LockInv, HolderAtWork
    <3>2. Transferring(o)' <=> Transferring(o)
      BY <2>1, <3>1 DEF Transferring
    <3>3. BeingNotified(o)' = BeingNotified(o)
      BY <2>1, <3>1 DEF BeingNotified, pipeVars
    <3> QED
      BY <2>1, <3>2, <3>3, RingTerms, RingTermsNext DEF Still, PlaceOf, pipeVars
  <2>3. ASSUME NEW u \in Thread PROVE SameWaiting(u) /\ SameGot(u)
    <3>1. SameWaiting(u)
      BY <2>1, SameWaits DEF pipeVars
    <3>2. pc'[t] # "notify_writers" /\ pc[t] # "notify_writers" /\ buf' = buf
      BY <2>1
    <3>3. SameGot(u)
      BY <2>1, <3>2 DEF SameGot, GotBy
    <3> QED
      BY <3>1, <3>3
  <2> QED
    BY <2>2, <2>3, Stutters
<1>3. ASSUME ~Call(t) PROVE UNCHANGED Channel!vars
  <2>0. PICK p : p = pipe[t]
    OBVIOUS
  <2>1. p \in Pipe
    BY <1>3, <2>0 DEF WriteLock, ReadLock, Acquire, WriterWaits, WriteFill, ReaderWaits,
       ReadCopy, ReturnBlocked, ReturnOk, ChanInv, TypeInv, Arguments
  <2>2. /\ \A o \in Pipe \ {p} : /\ slot'[o] = slot[o] /\ head'[o] = head[o]
                                /\ tail'[o] = tail[o] /\ lock'[o] = lock[o]
                                /\ readers'[o] = readers[o] /\ writers'[o] = writers[o]
        /\ \A u \in Thread \ {t} : pc'[u] = pc[u] /\ buf'[u] = buf[u]
        /\ blockedBy' = blockedBy
    BY <1>1, <1>3, <2>0, <2>1
       DEF WriteLock, ReadLock, Acquire, WriterWaits, WriteFill, ReaderWaits, ReadCopy,
           ReturnBlocked, ReturnOk, Return, pipeVars
  <2>3. ASSUME NEW o \in Pipe \ {p} PROVE Still(o)
    BY <2>0, <2>1, <2>2, OthersStill DEF ChanInv
  <2>4. ASSUME NEW u \in Thread PROVE SameGot(u)
    <3>1. pc[t] # "notify_writers" /\ pc'[t] # "notify_writers"
      BY <1>1, <1>3 DEF WriteLock, ReadLock, Acquire, WriterWaits, WriteFill, ReaderWaits,
         ReadCopy, ReturnBlocked, ReturnOk, Return
    <3> QED
      BY <2>2, <3>1 DEF SameGot, GotBy
  <2>5. ASSUME NEW u \in Thread PROVE SameWaiting(u)
    <3>1. CASE ReaderWaits(t)
      <4>1. blockedBy[t] = None
        BY <3>1 DEF ReaderWaits, ChanInv, PlaceInv
      <4>2. readers' = [readers EXCEPT ![p] = Append(@, t)]
        BY <2>0, <3>1 DEF ReaderWaits
      <4>3. readers[p] \in Seq(Thread)
        BY <1>1, <2>1
      <4>4. u # t => (u \in ToSet(Append(readers[p], t)) <=> u \in ToSet(readers[p]))
        BY <4>3 DEF ToSet
      <4>5. u # t => \A b \in Pipe : u \in ToSet(readers'[b]) <=> u \in ToSet(readers[b])
        BY <1>1, <2>1, <4>2, <4>4
      <4>6. blockedBy[u] = None \/ blockedBy[u] \in Pipe
        BY DEF ChanInv, TypeInv, TypeOK
      <4> QED
        BY <2>2, <4>1, <4>5, <4>6, SameWaits
    <3>2. CASE ~ReaderWaits(t)
      <4>1. readers' = readers
        BY <1>3, <3>2 DEF WriteLock, ReadLock, Acquire, WriterWaits, WriteFill, ReadCopy,
           ReturnBlocked, ReturnOk, Return, pipeVars
      <4> QED
        BY <2>2, <4>1, SameWaits
    <3> QED
      BY <3>1, <3>2
  <2>6. Still(p)
    <3>1. CASE WriteFill(t)
      <4>1. /\ pc[t] = "write_fill" /\ lock[p] = t /\ t # None /\ pc'[t] = "write_commit"
            /\ UNCHANGED <<head, tail, lock, readers, writers>>
        BY <1>1, <2>0, <3>1, Inside DEF WriteFill
      <4>2. Transferring(p) /\ Transferring(p)' /\ BeingNotified(p)' = BeingNotified(p)
        BY <4>1 DEF Transferring, BeingNotified
      <4>3. /\ Depth[p] \in Nat \ {0} /\ slot[p] \in [0..(Depth[p] - 1) -> Slot]
            /\ head[p] \in 0..(Depth[p] - 1) /\ tail[p] \in 0..(Depth[p] - 1)
            /\ msg[t] \in Message
        BY <2>1, <4>1, RingIs DEF ChanInv, TypeInv, Arguments
      <4>4. slot'[p] = [slot[p] EXCEPT ![head[p]].body = msg[t].body]
        BY <1>1, <2>0, <2>1, <3>1 DEF WriteFill
      <4>5. PICK r : r = slot'[p]
        OBVIOUS
      <4>6. [slot[p][head[p]] EXCEPT !.body = msg[t].body] \in Slot
        BY <4>3, SlotUpdate
      <4>7. r \in [0..(Depth[p] - 1) -> Slot] /\ SameBut(Depth[p], head[p], slot[p], r)
        BY <4>3, <4>4, <4>5, <4>6 DEF SameBut
      <4>8. Rest(Depth[p], r, head[p], tail[p]) = Rest(Depth[p], slot[p], head[p], tail[p])
        BY <4>3, <4>7, QueueFill, ZenonT(40)
      <4> QED
        BY <2>1, <4>1, <4>2, <4>5, <4>8, RingTerms, RingTermsNext DEF Still, PlaceOf
    <3>2. CASE ~WriteFill(t)
      <4>1. UNCHANGED <<slot, head, tail>>
        BY <1>3, <3>2 DEF WriteLock, ReadLock, Acquire, WriterWaits, ReaderWaits, ReadCopy,
           ReturnBlocked, ReturnOk, Return, pipeVars
      <4>2. /\ lock[p] = None \/ lock[p] = t
            /\ lock'[p] = None \/ lock'[p] = t
            /\ pc[t] \notin Transfers \/ (pc[t] = "notify_readers" /\ readers[p] = <<>> /\ lock[p] = t)
            /\ pc'[t] \notin Transfers
        BY <1>1, <1>3, <2>0, <2>1, <3>2, Inside, ZenonT(40)
           DEF WriteLock, ReadLock, Acquire, WriterWaits, ReaderWaits, ReadCopy,
               ReturnBlocked, ReturnOk, Return, pipeVars, Transfers
      <4>3. /\ Contents(p) = Queue(Depth[p], slot[p], head[p], tail[p])
            /\ PlaceOf(p) = None /\ BeingNotified(p) = {}
        <5>1. CASE pc[t] \notin Transfers
          BY <2>1, <4>2, <5>1, Quiet DEF Transfers
        <5>2. CASE pc[t] = "notify_readers" /\ readers[p] = <<>> /\ lock[p] = t
          <6>1. ~Transferring(p)
            BY <5>2 DEF Transferring
          <6>2. ToSet(<<>>) = {}
            BY DEF ToSet
          <6> QED
            BY <2>1, <5>2, <6>1, <6>2, RingTerms DEF PlaceOf, BeingNotified
        <5> QED
          BY <4>2, <5>1, <5>2
      <4>4. /\ Contents(p)' = Queue(Depth[p], slot'[p], head'[p], tail'[p])
            /\ PlaceOf(p)' = None /\ BeingNotified(p)' = {}
        BY <2>1, <4>2, QuietNext DEF Transfers
      <4> QED
        BY <4>1, <4>3, <4>4 DEF Still
    <3> QED
      BY <3>1, <3>2
  <2> QED
    BY <2>3, <2>4, <2>5, <2>6, Stutters
<1> QED
  BY <1>2, <1>3

-----------------------------------------------------------------------------

\* What the steps inside the lock share: the pipe of t is p, and the rest stands still.
LEMMA Frame ==
  ASSUME ChanInv, NEW t \in Thread, NEW p, p = pipe[t], pc[t] \in Locked,
         PurgeOldest(t) \/ FindRoom(t) \/ WriteCommit(t) \/ ReadAdvance(t) \/ MarkBlocked(t)
           \/ NotifyReader(t) \/ NotifyWriter(t) \/ ReturnOk(t)
  PROVE  /\ p \in Pipe /\ lock[p] = t /\ t # None
         /\ Depth[p] \in Nat \ {0} /\ slot[p] \in [0..(Depth[p] - 1) -> Slot]
         /\ head[p] \in 0..(Depth[p] - 1) /\ tail[p] \in 0..(Depth[p] - 1)
         /\ slot = [o \in Pipe |-> slot[o]] /\ head \in [Pipe -> Nat] /\ tail \in [Pipe -> Nat]
         /\ pc \in [Thread -> Label]
         /\ \A o \in Pipe \ {p} : Still(o)
         /\ \A u \in Thread \ {t} : SameGot(u)
<1>1. p \in Pipe /\ lock[p] = t /\ t # None
  BY Inside
<1>2. /\ pc \in [Thread -> Label] /\ buf \in [Thread -> Slot] /\ lock \in [Pipe -> Thread \cup {None}]
      /\ slot = [o \in Pipe |-> slot[o]] /\ head \in [Pipe -> Nat] /\ tail \in [Pipe -> Nat]
      /\ readers \in [Pipe -> Seq(Thread)] /\ writers \in [Pipe -> Seq(Thread)]
  BY DEF ChanInv, TypeInv, TypeOK
<1>3. /\ \A o \in Pipe \ {p} : /\ slot'[o] = slot[o] /\ head'[o] = head[o]
                              /\ tail'[o] = tail[o] /\ lock'[o] = lock[o]
                              /\ readers'[o] = readers[o] /\ writers'[o] = writers[o]
      /\ \A u \in Thread \ {t} : pc'[u] = pc[u] /\ buf'[u] = buf[u]
  BY <1>1, <1>2 DEF PurgeOldest, FindRoom, WriteCommit, ReadAdvance, MarkBlocked, NotifyReader,
     NotifyWriter, ReturnOk, Return, Goto, pipeVars, callVars
<1>4. ASSUME NEW o \in Pipe \ {p} PROVE Still(o)
  BY <1>1, <1>3, OthersStill DEF ChanInv
<1>5. \A u \in Thread \ {t} : SameGot(u)
  BY <1>3 DEF SameGot, GotBy
<1> QED
  BY <1>1, <1>2, <1>4, <1>5, RingIs DEF ChanInv

\* A writer that finds room, or makes it, has its place.
LEMMA PlaceStep ==
  ASSUME ChanInv, NEW t \in Thread, NEW p, p = pipe[t], PurgeOldest(t) \/ FindRoom(t)
  PROVE  p \in Pipe /\ Channel!TakePlace(t, p)
<1>1. /\ pc[t] = "write_check" /\ pc' = [pc EXCEPT ![t] = "write_fill"]
      /\ UNCHANGED <<slot, head, readers, writers, lock, blockedBy, buf>>
  BY DEF PurgeOldest, FindRoom, Goto, pipeVars
<1>2. /\ p \in Pipe /\ lock[p] = t /\ t # None
      /\ Depth[p] \in Nat \ {0} /\ slot[p] \in [0..(Depth[p] - 1) -> Slot]
      /\ head[p] \in 0..(Depth[p] - 1) /\ tail[p] \in 0..(Depth[p] - 1)
      /\ tail \in [Pipe -> Nat] /\ pc \in [Thread -> Label]
      /\ \A o \in Pipe \ {p} : Still(o)
      /\ \A u \in Thread \ {t} : SameGot(u)
  BY <1>1, Frame
<1>3. /\ Contents(p) = Queue(Depth[p], slot[p], head[p], tail[p])
      /\ PlaceOf(p) = None /\ BeingNotified(p) = {} /\ WaitingFor(t) = None
  BY <1>1, Inside DEF Transfers
<1>4. /\ Contents(p)' = Rest(Depth[p], slot[p], head[p], tail'[p])
      /\ PlaceOf(p)' = t /\ BeingNotified(p)' = {}
  <2>1. lock'[p] = t /\ pc'[t] = "write_fill"
    BY <1>1, <1>2
  <2>2. Transferring(p)' /\ BeingNotified(p)' = {}
    BY <1>2, <2>1 DEF Transferring, BeingNotified
  <2> QED
    BY <1>1, <1>2, <2>1, <2>2, RingTermsNext DEF PlaceOf
<1>5. \A u \in Thread : SameWaiting(u)
  BY <1>1, SameWaits
<1>6. SameGot(t)
  BY <1>1, <1>2 DEF SameGot, GotBy
<1>7. Room(p) = IF Depth[p] > 1 THEN Depth[p] - 1 ELSE 1
  BY DEF Room
<1>8. \/ Len(Contents(p)) # Room(p) /\ Contents(p)' = Contents(p)
      \/ Len(Contents(p)) = Room(p) /\ p \in Purging /\ Contents(p)' = Tail(Contents(p))
  <2>1. CASE PurgeOldest(t)
    <3>1. IsFull(p) /\ p \in Purging /\ tail'[p] = (tail[p] + 1) % Depth[p]
      BY <1>2, <2>1 DEF PurgeOldest, IdxInc
    <3>2. FullRing(Depth[p], slot[p], head[p], tail[p])
      BY <1>2, <3>1, RingTerms
    <3>3. Rest(Depth[p], slot[p], head[p], (tail[p] + 1) % Depth[p])
            = Tail(Queue(Depth[p], slot[p], head[p], tail[p]))
      BY <1>2, <3>2, QueuePurge, ZenonT(40)
    <3>4. Len(Queue(Depth[p], slot[p], head[p], tail[p])) = Room(p)
      BY <1>2, <1>7, <3>2, QueueLength, ZenonT(40)
    <3> QED
      BY <1>3, <1>4, <3>1, <3>3, <3>4
  <2>2. CASE FindRoom(t)
    <3>1. ~IsFull(p) /\ tail'[p] = tail[p]
      BY <2>2 DEF FindRoom, pipeVars
    <3>2. ~FullRing(Depth[p], slot[p], head[p], tail[p])
      BY <1>2, <3>1, RingTerms
    <3>3. Rest(Depth[p], slot[p], head[p], tail[p]) = Queue(Depth[p], slot[p], head[p], tail[p])
      BY <1>2, <3>2, QueuePlace
    <3>4. Len(Queue(Depth[p], slot[p], head[p], tail[p])) # Room(p)
      BY <1>2, <1>7, <3>2, QueueLength, ZenonT(40)
    <3> QED
      BY <1>3, <1>4, <3>1, <3>3, <3>4
  <2> QED
    BY <2>1, <2>2
<1>9. Channel!TakePlace(t, p)
  BY <1>2, <1>3, <1>4, <1>5, <1>6, <1>8, IsTakePlace
<1> QED
  BY <1>2, <1>9

\* The message is in the queue when the head moves, whole.
LEMMA SendStep ==
  ASSUME ChanInv, NEW t \in Thread, NEW p, p = pipe[t], WriteCommit(t)
  PROVE  p \in Pipe /\ \E m \in Sent : Channel!Send(t, p, m)
<1>1. /\ pc[t] = "write_commit" /\ pc' = [pc EXCEPT ![t] = "notify_readers"]
      /\ UNCHANGED <<tail, readers, writers, lock, blockedBy, buf>>
      /\ slot' = [slot EXCEPT ![p][head[p]].len = msg[t].len]
      /\ head' = [head EXCEPT ![p] = IdxInc(p, @)]
  BY DEF WriteCommit, Goto
<1>2. /\ p \in Pipe /\ lock[p] = t /\ t # None
      /\ Depth[p] \in Nat \ {0} /\ slot[p] \in [0..(Depth[p] - 1) -> Slot]
      /\ head[p] \in 0..(Depth[p] - 1) /\ tail[p] \in 0..(Depth[p] - 1)
      /\ slot = [o \in Pipe |-> slot[o]] /\ head \in [Pipe -> Nat] /\ pc \in [Thread -> Label]
      /\ \A o \in Pipe \ {p} : Still(o)
      /\ \A u \in Thread \ {t} : SameGot(u)
  BY <1>1, Frame
<1>3. /\ msg[t] \in Sent /\ msg[t] \in Message /\ msg[t].len # 0
      /\ Depth[p] = 1 \/ ~IsFull(p)
      /\ slot[p][head[p]].body = msg[t].body
  BY <1>1, IpcAssumption DEF ChanInv, CarryInv, Carries, Sent
<1>4. /\ Contents(p) = Rest(Depth[p], slot[p], head[p], tail[p]) /\ PlaceOf(p) = t
  <2>1. Transferring(p)
    BY <1>1, <1>2 DEF Transferring
  <2> QED
    BY <1>2, <2>1, RingTerms DEF PlaceOf
<1>5. /\ Contents(p)' = Queue(Depth[p], slot'[p], (head[p] + 1) % Depth[p], tail[p])
      /\ PlaceOf(p)' = None /\ BeingNotified(p)' = ToSet(readers[p])
  <2>1. lock'[p] = t /\ pc'[t] = "notify_readers" /\ head'[p] = (head[p] + 1) % Depth[p]
    BY <1>1, <1>2 DEF IdxInc
  <2>2. ~Transferring(p)' /\ BeingNotified(p)' = ToSet(readers[p])
    BY <1>1, <1>2, <2>1 DEF Transferring, BeingNotified
  <2> QED
    BY <1>1, <1>2, <2>1, <2>2, RingTermsNext DEF PlaceOf
<1>6. Contents(p)' = Append(Contents(p), msg[t])
  <2>1. PICK r : r = slot'[p]
    OBVIOUS
  <2>2. [slot[p][head[p]] EXCEPT !.len = msg[t].len] = msg[t]
    BY <1>2, <1>3, WholeMessage
  <2>3. r = [slot[p] EXCEPT ![head[p]].len = msg[t].len]
    BY <1>1, <1>2, <2>1
  <2>4. r[head[p]] = msg[t] /\ \A i \in (0..(Depth[p] - 1)) \ {head[p]} : r[i] = slot[p][i]
    BY <1>2, <2>2, <2>3
  <2>5. msg[t] \in Slot
    <3>1. [slot[p][head[p]] EXCEPT !.len = msg[t].len] \in Slot
      BY <1>2, <1>3, SlotUpdate
    <3> QED
      BY <2>2, <3>1
  <2>6. r \in [0..(Depth[p] - 1) -> Slot] /\ SameBut(Depth[p], head[p], slot[p], r)
    BY <1>2, <2>2, <2>3, <2>4, <2>5 DEF SameBut
  <2>7. Depth[p] = 1 \/ ~FullRing(Depth[p], slot[p], head[p], tail[p])
    BY <1>2, <1>3, RingTerms
  <2>8. r[head[p]].len # 0
    BY <1>3, <2>4
  <2>9. Appends(Depth[p], slot[p], r, head[p], tail[p])
    <3>1. /\ Depth[p] \in Nat \ {0} /\ slot[p] \in [0..(Depth[p] - 1) -> Slot]
          /\ head[p] \in 0..(Depth[p] - 1) /\ tail[p] \in 0..(Depth[p] - 1)
      BY <1>2
    <3> QED
      BY <2>6, <2>7, <2>8, <3>1, QueueAppend
  <2> QED
    BY <1>4, <1>5, <2>1, <2>4, <2>9 DEF Appends
<1>7. BeingNotified(p)' = {u \in Thread : WaitingFor(u) = <<p, "reader">>}
  BY <1>1, <1>2, <1>5, WaitersAre DEF ChanInv
<1>8. \A u \in Thread : SameWaiting(u)
  BY <1>1, SameWaits
<1>9. \A u \in Thread : SameGot(u)
  <2>1. SameGot(t)
    BY <1>1, <1>2 DEF SameGot, GotBy
  <2> QED
    BY <1>2, <2>1
<1>10. \E m \in Sent : Channel!Send(t, p, m)
  <2>1. PICK m : m = msg[t]
    OBVIOUS
  <2>2. p \in Pipe /\ \A o \in Pipe \ {p} : Still(o)
    BY <1>2
  <2>3. PlaceOf(p) = t /\ PlaceOf(p)' = None /\ Contents(p)' = Append(Contents(p), m)
    BY <1>4, <1>5, <1>6, <2>1
  <2>4. \A u \in Thread : SameWaiting(u) /\ SameGot(u)
    BY <1>8, <1>9
  <2>5. Channel!Send(t, p, m)
    BY <1>7, <2>2, <2>3, <2>4, IsSend
  <2> QED
    BY <1>3, <2>1, <2>5
<1> QED
  BY <1>2, <1>10

\* And the reader's when the tail does.
LEMMA ReceiveStep ==
  ASSUME ChanInv, NEW t \in Thread, NEW p, p = pipe[t], ReadAdvance(t)
  PROVE  p \in Pipe /\ Channel!Receive(t, p)
<1>1. /\ pc[t] = "read_advance" /\ pc' = [pc EXCEPT ![t] = "notify_writers"]
      /\ UNCHANGED <<head, readers, writers, lock, blockedBy, buf>>
      /\ slot' = [slot EXCEPT ![p][tail[p]].len = 0]
      /\ tail' = [tail EXCEPT ![p] = IdxInc(p, @)]
  BY DEF ReadAdvance, Goto
<1>2. /\ p \in Pipe /\ lock[p] = t /\ t # None
      /\ Depth[p] \in Nat \ {0} /\ slot[p] \in [0..(Depth[p] - 1) -> Slot]
      /\ head[p] \in 0..(Depth[p] - 1) /\ tail[p] \in 0..(Depth[p] - 1)
      /\ slot = [o \in Pipe |-> slot[o]] /\ tail \in [Pipe -> Nat] /\ pc \in [Thread -> Label]
      /\ \A o \in Pipe \ {p} : Still(o)
      /\ \A u \in Thread \ {t} : SameGot(u)
  BY <1>1, Frame
<1>3. buf[t] = slot[p][tail[p]] /\ ~IsEmpty(p)
  BY <1>1 DEF ChanInv, CarryInv, Carries, WaitInv
<1>4. /\ Contents(p) = Queue(Depth[p], slot[p], head[p], tail[p])
      /\ PlaceOf(p) = None /\ BeingNotified(p) = {} /\ WaitingFor(t) = None
  BY <1>1, Inside DEF Transfers
<1>5. /\ Contents(p)' = Queue(Depth[p], slot'[p], head[p], (tail[p] + 1) % Depth[p])
      /\ PlaceOf(p)' = None /\ BeingNotified(p)' = ToSet(writers[p])
  <2>1. lock'[p] = t /\ pc'[t] = "notify_writers" /\ tail'[p] = (tail[p] + 1) % Depth[p]
    BY <1>1, <1>2 DEF IdxInc
  <2>2. ~Transferring(p)' /\ BeingNotified(p)' = ToSet(writers[p])
    BY <1>1, <1>2, <2>1 DEF Transferring, BeingNotified
  <2> QED
    BY <1>1, <1>2, <2>1, <2>2, RingTermsNext DEF PlaceOf
<1>6. Contents(p) # <<>> /\ Contents(p)' = Tail(Contents(p)) /\ GotBy(t)' = Head(Contents(p))
  <2>1. PICK r : r = slot'[p]
    OBVIOUS
  <2>2. r = [slot[p] EXCEPT ![tail[p]].len = 0]
    BY <1>1, <1>2, <2>1
  <2>3. slot[p][tail[p]] \in Slot /\ [slot[p][tail[p]] EXCEPT !.len = 0] \in Slot
    BY <1>2, SlotUpdate
  <2>4. /\ r \in [0..(Depth[p] - 1) -> Slot] /\ SameBut(Depth[p], tail[p], slot[p], r)
        /\ r[tail[p]] = [slot[p][tail[p]] EXCEPT !.len = 0]
    BY <1>2, <2>2, <2>3 DEF SameBut
  <2>5. r[tail[p]].len = 0
    BY <2>3, <2>4 DEF Slot
  <2>6. ~EmptyRing(Depth[p], slot[p], head[p], tail[p])
    BY <1>2, <1>3, RingTerms
  <2>7. Takes(Depth[p], slot[p], r, head[p], tail[p])
    <3>1. /\ Depth[p] \in Nat \ {0} /\ slot[p] \in [0..(Depth[p] - 1) -> Slot]
          /\ head[p] \in 0..(Depth[p] - 1) /\ tail[p] \in 0..(Depth[p] - 1)
      BY <1>2
    <3>2. r \in [0..(Depth[p] - 1) -> Slot] /\ SameBut(Depth[p], tail[p], slot[p], r)
      BY <2>4
    <3> QED
      BY <2>5, <2>6, <3>1, <3>2, QueueTake
  <2>8. Queue(Depth[p], slot[p], head[p], tail[p]) # <<>>
    BY <1>2, <2>6, QueueLength
  <2>9. GotBy(t)' = buf[t]
    BY <1>1, <1>2 DEF GotBy
  <2> QED
    BY <1>3, <1>4, <1>5, <2>1, <2>7, <2>8, <2>9 DEF Takes
<1>7. BeingNotified(p)' = {u \in Thread : WaitingFor(u) = <<p, "writer">>}
  BY <1>1, <1>2, <1>5, WaitersAre DEF ChanInv
<1>8. \A u \in Thread : SameWaiting(u)
  BY <1>1, SameWaits
<1>9. Channel!Receive(t, p)
  BY <1>2, <1>4, <1>5, <1>6, <1>7, <1>8, IsReceive
<1> QED
  BY <1>2, <1>9

\* A thread waits once blocked_by says so.
LEMMA AwaitStep ==
  ASSUME ChanInv, NEW t \in Thread, NEW p, p = pipe[t], MarkBlocked(t)
  PROVE  p \in Pipe /\ (Channel!AwaitPlace(t, p) \/ Channel!AwaitMessage(t, p))
<1>1. /\ pc[t] \in Blocking /\ pc' = [pc EXCEPT ![t] = "blocked"]
      /\ UNCHANGED <<slot, head, tail, readers, writers, lock>>
      /\ blockedBy' = [blockedBy EXCEPT ![t] = p]
  BY DEF MarkBlocked, Goto, pipeVars
<1>2. /\ p \in Pipe /\ lock[p] = t /\ t # None
      /\ Depth[p] \in Nat \ {0} /\ slot[p] \in [0..(Depth[p] - 1) -> Slot]
      /\ head[p] \in 0..(Depth[p] - 1) /\ tail[p] \in 0..(Depth[p] - 1)
      /\ pc \in [Thread -> Label] /\ blockedBy \in [Thread -> Pipe \cup {None}]
      /\ \A o \in Pipe \ {p} : Still(o)
      /\ \A u \in Thread \ {t} : SameGot(u)
  BY <1>1, Frame DEF ChanInv, TypeInv, TypeOK
<1>3. /\ Contents(p) = Queue(Depth[p], slot[p], head[p], tail[p])
      /\ PlaceOf(p) = None /\ BeingNotified(p) = {} /\ WaitingFor(t) = None
  BY <1>1, Inside DEF Transfers
<1>4. Still(p)
  <2>1. lock'[p] = t /\ pc'[t] = "blocked"
    BY <1>1, <1>2
  <2>2. /\ Contents(p)' = Queue(Depth[p], slot'[p], head'[p], tail'[p])
        /\ PlaceOf(p)' = None /\ BeingNotified(p)' = {}
    BY <1>2, <2>1, QuietNext
  <2> QED
    BY <1>1, <1>3, <2>2 DEF Still
<1>5. \A o \in Pipe : Still(o)
  BY <1>2, <1>4
<1>6. \A u \in Thread : SameGot(u)
  <2>1. SameGot(t)
    BY <1>1, <1>2 DEF SameGot, GotBy
  <2> QED
    BY <1>2, <2>1
<1>7. \A u \in Thread \ {t} : SameWaiting(u)
  BY <1>1, <1>2, SameWaits
<1>8. WaitingFor(t)' = <<p, IF t \in ToSet(readers[p]) THEN "reader" ELSE "writer">>
  <2>1. blockedBy'[t] = p /\ p # None
    BY <1>1, <1>2, IpcAssumption
  <2> QED
    BY <1>1, <2>1 DEF WaitingFor
<1>9. PICK e \in Side, i \in Nat : Waits(t, p, e, i)
  <2>1. Waiting(t)
    BY <1>1 DEF ChanInv, PlaceInv
  <2>2. PICK q \in Pipe, e \in Side, i \in Nat : Waits(t, q, e, i)
    BY <2>1 DEF Waiting
  <2>3. q = p
    BY <1>1, <2>2 DEF ChanInv, PlaceInv
  <2> QED
    BY <2>2, <2>3
<1>10. CASE t \in ToSet(readers[p])
  <2>1. readers[p] # <<>>
    BY <1>10 DEF ToSet
  <2>2. IsEmpty(p)
    BY <1>1, <1>2, <2>1 DEF ChanInv, WaitInv
  <2>3. EmptyRing(Depth[p], slot[p], head[p], tail[p])
    BY <1>2, <2>2, RingTerms
  <2>4. Queue(Depth[p], slot[p], head[p], tail[p]) = <<>>
    <3>1. /\ Depth[p] \in Nat \ {0} /\ slot[p] \in [0..(Depth[p] - 1) -> Slot]
          /\ head[p] \in 0..(Depth[p] - 1) /\ tail[p] \in 0..(Depth[p] - 1)
      BY <1>2
    <3> QED
      BY <2>3, <3>1, QueueLength
  <2>5. Channel!AwaitMessage(t, p)
    BY <1>2, <1>3, <1>5, <1>6, <1>7, <1>8, <1>10, <2>4, IsAwait
  <2> QED
    BY <1>2, <2>5
<1>11. CASE t \notin ToSet(readers[p])
  <2>1. t \in ToSet(writers[p])
    BY <1>2, <1>9, <1>11, ListedIs DEF ChanInv
  <2>2. writers[p] # <<>>
    BY <2>1 DEF ToSet
  <2>3. IsFull(p) /\ p \notin Purging
    BY <1>1, <1>2, <2>2 DEF ChanInv, WaitInv
  <2>4. FullRing(Depth[p], slot[p], head[p], tail[p])
    BY <1>2, <2>3, RingTerms
  <2>5. Len(Queue(Depth[p], slot[p], head[p], tail[p])) = Room(p)
    <3>1. /\ Depth[p] \in Nat \ {0} /\ slot[p] \in [0..(Depth[p] - 1) -> Slot]
          /\ head[p] \in 0..(Depth[p] - 1) /\ tail[p] \in 0..(Depth[p] - 1)
      BY <1>2
    <3> QED
      BY <2>4, <3>1, QueueLength DEF Room
  <2>6. Channel!AwaitPlace(t, p)
    BY <1>2, <1>3, <1>5, <1>6, <1>7, <1>8, <1>11, <2>3, <2>5, IsAwait
  <2> QED
    BY <1>2, <2>6
<1> QED
  BY <1>10, <1>11

\* What a list without its last thread has.
LEMMA LastLeaves ==
  ASSUME TypeInv, PlaceInv, NEW p \in Pipe, NEW e \in Side, List(p, e) # <<>>
  PROVE  /\ Last(List(p, e)) \in ToSet(List(p, e))
         /\ ToSet(Front(List(p, e))) = ToSet(List(p, e)) \ {Last(List(p, e))}
         /\ Last(List(p, e)) \in Thread
<1> PICK s, n : s = List(p, e) /\ n = Len(s)
  OBVIOUS
<1>1. s \in Seq(Thread) /\ n \in Nat \ {0} /\ Last(s) = s[n] /\ Front(s) = SubSeq(s, 1, n - 1)
  BY ListIs DEF Last, Front
<1>2. Len(SubSeq(s, 1, n - 1)) = n - 1 /\ \A j \in 1..(n - 1) : SubSeq(s, 1, n - 1)[j] = s[j]
  BY <1>1, FrontIs
<1>3. SubSeq(s, 1, n - 1) \in Seq(Thread)
  <2>1. \A j \in 1..(n - 1) : s[j] \in Thread
    BY <1>1
  <2> QED
    BY <1>1, <2>1, SubSeqProperties
<1>4. ASSUME NEW i \in 1..n, NEW j \in 1..n, s[i] = s[j]
      PROVE  i = j
  <2>1. s[i] \in Thread /\ Waits(s[i], p, e, i) /\ Waits(s[i], p, e, j)
    BY <1>1, <1>4 DEF Waits
  <2> QED
    BY <2>1 DEF PlaceInv
<1>5. ToSet(s) = {s[i] : i \in 1..n}
  BY <1>1 DEF ToSet
<1>6. ToSet(Front(s)) = {s[i] : i \in 1..(n - 1)}
  <2>1. PICK f \in Seq(Thread) : f = SubSeq(s, 1, n - 1)
    BY <1>3
  <2>2. DOMAIN f = 1..(n - 1) /\ \A j \in 1..(n - 1) : f[j] = s[j]
    BY <1>1, <1>2, <2>1, LenProperties
  <2>3. ToSet(f) = {f[i] : i \in 1..(n - 1)}
    BY <2>2 DEF ToSet
  <2>4. {f[i] : i \in 1..(n - 1)} = {s[i] : i \in 1..(n - 1)}
    BY <2>2
  <2> QED
    BY <1>1, <2>1, <2>3, <2>4
<1>7. {s[i] : i \in 1..(n - 1)} = {s[i] : i \in 1..n} \ {s[n]}
  <2>1. n \in 1..n /\ \A i \in 1..n : i \in 1..(n - 1) \/ i = n
    BY <1>1
  <2>2. \A i \in 1..(n - 1) : i \in 1..n /\ s[i] # s[n]
    <3> TAKE i \in 1..(n - 1)
    <3>1. i \in 1..n /\ i # n
      BY <1>1
    <3> QED
      BY <1>4, <2>1, <3>1
  <2> QED
    BY <2>1, <2>2
<1>8. s[n] \in Thread /\ s[n] \in ToSet(s)
  BY <1>1, <1>5
<1> QED
  BY <1>1, <1>5, <1>6, <1>7, <1>8

\* A notification wakes who waits longest unwoken: the threads on the list.
LEMMA WakeStep ==
  ASSUME ChanInv, NEW t \in Thread, NEW p, p = pipe[t], NotifyReader(t) \/ NotifyWriter(t)
  PROVE  p \in Pipe /\ \E u \in Thread : Channel!Wake(u, p)
<1>1. /\ pc[t] \in {"notify_readers", "notify_writers"}
      /\ UNCHANGED <<slot, head, tail, lock, pc, buf>>
  BY DEF NotifyReader, NotifyWriter, callVars
<1>2. PICK e \in Side : /\ pc[t] = IF e = "reader" THEN "notify_readers" ELSE "notify_writers"
                        /\ e = "reader" <=> NotifyReader(t)
  BY <1>1 DEF NotifyReader, NotifyWriter
<1>3. /\ p \in Pipe /\ lock[p] = t /\ t # None
      /\ \A o \in Pipe \ {p} : Still(o)
  BY <1>1, Frame
<1>4. /\ List(p, e) # <<>> /\ List(p, e)' = Front(List(p, e))
      /\ \A q \in Pipe : q # p => readers'[q] = readers[q]
      /\ e = "writer" => readers' = readers
      /\ blockedBy' = [blockedBy EXCEPT ![Last(List(p, e))] = None]
  BY <1>2, <1>3 DEF NotifyReader, NotifyWriter, List, ChanInv, TypeInv, TypeOK
<1>5. PICK w \in Thread : w = Last(List(p, e))
  BY <1>3, <1>4, LastLeaves DEF ChanInv
<1>6. w \in ToSet(List(p, e)) /\ ToSet(Front(List(p, e))) = ToSet(List(p, e)) \ {w}
  BY <1>3, <1>4, <1>5, LastLeaves DEF ChanInv
<1>7. BeingNotified(p) = ToSet(List(p, e)) /\ BeingNotified(p)' = ToSet(List(p, e))'
  BY <1>1, <1>2, <1>3 DEF BeingNotified, List
<1>8. BeingNotified(p)' = BeingNotified(p) \ {w} /\ w \in BeingNotified(p)
  BY <1>4, <1>6, <1>7
<1>9. Contents(p)' = Contents(p) /\ PlaceOf(p)' = PlaceOf(p)
  BY <1>1, <1>3, RingTerms, RingTermsNext DEF PlaceOf, Transferring
<1>10. \A u \in Thread : SameGot(u)
  BY <1>1 DEF SameGot, GotBy
<1>11. blockedBy'[w] = None /\ \A u \in Thread \ {w} : blockedBy'[u] = blockedBy[u]
  BY <1>4, <1>5 DEF ChanInv, TypeInv, TypeOK
<1>12. WaitingFor(w)' = None
  BY <1>11 DEF WaitingFor
<1>13. ASSUME NEW u \in Thread \ {w} PROVE SameWaiting(u)
  <2>1. blockedBy[u] = None \/ blockedBy[u] \in Pipe
    BY DEF ChanInv, TypeInv, TypeOK
  <2>2. \A q \in Pipe : u \in ToSet(readers'[q]) <=> u \in ToSet(readers[q])
    <3>1. e = "reader" => readers'[p] = Front(readers[p])
                            /\ ToSet(Front(readers[p])) = ToSet(readers[p]) \ {w}
      BY <1>4, <1>6 DEF List
    <3> QED
      BY <1>4, <3>1
  <2> QED
    BY <1>11, <2>1, <2>2, SameWaits
<1>14. Channel!Wake(w, p)
  BY <1>3, <1>8, <1>9, <1>10, <1>12, <1>13, IsWake
<1> QED
  BY <1>3, <1>14

\* The read that returns hands over what it has.
LEMMA AcceptStep ==
  ASSUME ChanInv, NEW t \in Thread, ReturnOk(t), pc[t] = "notify_writers"
  PROVE  Channel!Accept(t)
<1>0. PICK p : p = pipe[t]
  OBVIOUS
<1>1. /\ writers[p] = <<>> /\ Return(t, "OK")
      /\ UNCHANGED <<slot, head, tail, readers, writers, blockedBy>>
  BY <1>0 DEF ReturnOk, Return, pipeVars
<1>2. /\ p \in Pipe /\ lock[p] = t /\ t # None
      /\ pc \in [Thread -> Label]
      /\ \A o \in Pipe \ {p} : Still(o)
      /\ \A u \in Thread \ {t} : SameGot(u)
  BY <1>0, Frame
<1>3. GotBy(t) # None /\ GotBy(t)' = None
  <2>1. buf[t] \in Sent /\ buf[t] # None
    BY IpcAssumption DEF ChanInv, CarryInv, Carries, Sent
  <2>2. pc'[t] = "user"
    BY <1>1, <1>2 DEF Return
  <2> QED
    BY <2>1, <2>2 DEF GotBy
<1>4. Still(p)
  <2>1. lock'[p] = None
    BY <1>0, <1>1, <1>2 DEF Return, ChanInv, TypeInv, TypeOK
  <2>2. /\ Contents(p)' = Queue(Depth[p], slot'[p], head'[p], tail'[p])
        /\ PlaceOf(p)' = None /\ BeingNotified(p)' = {}
    BY <1>2, <2>1, QuietNext
  <2>3. ToSet(<<>>) = {}
    BY DEF ToSet
  <2>4. ~Transferring(p) /\ BeingNotified(p) = {}
    BY <1>1, <1>2, <2>3 DEF Transferring, BeingNotified
  <2>5. Contents(p) = Queue(Depth[p], slot[p], head[p], tail[p]) /\ PlaceOf(p) = None
    BY <1>2, <2>4, RingTerms DEF PlaceOf
  <2> QED
    BY <1>1, <2>2, <2>4, <2>5 DEF Still
<1>5. \A u \in Thread : SameWaiting(u)
  BY <1>1, SameWaits
<1> QED
  BY <1>2, <1>3, <1>4, <1>5, IsAccept

-----------------------------------------------------------------------------
\* Together.

LEMMA ChannelInit == Init => Channel!Init
<1> SUFFICES ASSUME Init PROVE Channel!Init
  OBVIOUS
<1>1. ASSUME NEW p \in Pipe
      PROVE  Contents(p) = <<>> /\ PlaceOf(p) = None /\ BeingNotified(p) = {}
  <2>1. lock[p] = None
    BY DEF Init
  <2>2. /\ Contents(p) = Queue(Depth[p], slot[p], head[p], tail[p])
        /\ PlaceOf(p) = None /\ BeingNotified(p) = {}
    BY <2>1, Quiet
  <2>3. IsEmpty(p)
    BY IpcAssumption DEF Init, IsEmpty, NoData
  <2>4. /\ Depth[p] \in Nat \ {0} /\ slot[p] \in [0..(Depth[p] - 1) -> Slot]
        /\ head[p] \in 0..(Depth[p] - 1) /\ tail[p] \in 0..(Depth[p] - 1)
    BY InitTypeInv, RingIs
  <2>5. EmptyRing(Depth[p], slot[p], head[p], tail[p])
    BY <2>3, RingTerms
  <2>6. Queue(Depth[p], slot[p], head[p], tail[p]) = <<>>
    BY <2>4, <2>5, QueueLength
  <2> QED
    BY <2>2, <2>6
<1>2. \A t \in Thread : WaitingFor(t) = None /\ GotBy(t) = None
  BY DEF Init, WaitingFor, GotBy
<1> QED
  BY <1>1, <1>2 DEF Channel!Init, PlaceOf, GotBy

LEMMA ChannelNext == ChanInv /\ [Next]_vars => [Channel!Next]_(Channel!vars)
<1> SUFFICES ASSUME ChanInv, [Next]_vars PROVE [Channel!Next]_(Channel!vars)
  OBVIOUS
<1>1. CASE UNCHANGED vars
  BY <1>1 DEF vars, pipeVars, callVars, Channel!vars, Contents, Queued, Transferring,
              BeingNotified, WaitingFor
<1>2. ASSUME NEW t \in Thread, Call(t) \/ Step(t) PROVE [Channel!Next]_(Channel!vars)
  <2>1. CASE PurgeOldest(t) \/ FindRoom(t)
    BY <2>1, PlaceStep DEF Channel!Next
  <2>2. CASE WriteCommit(t)
    BY <2>2, SendStep DEF Channel!Next, Sent
  <2>3. CASE ReadAdvance(t)
    BY <2>3, ReceiveStep DEF Channel!Next
  <2>4. CASE MarkBlocked(t)
    BY <2>4, AwaitStep DEF Channel!Next
  <2>5. CASE NotifyReader(t) \/ NotifyWriter(t)
    BY <2>5, WakeStep DEF Channel!Next
  <2>6. CASE ReturnOk(t) /\ pc[t] = "notify_writers"
    BY <2>6, AcceptStep DEF Channel!Next
  <2>7. CASE Call(t) \/ WriteLock(t) \/ ReadLock(t) \/ WriterWaits(t) \/ ReaderWaits(t)
               \/ WriteFill(t) \/ ReadCopy(t) \/ ReturnBlocked(t)
               \/ (ReturnOk(t) /\ pc[t] = "notify_readers")
    BY <2>7, SilentStep
  <2>8. ReturnOk(t) => pc[t] \in {"notify_readers", "notify_writers"}
    BY DEF ReturnOk
  <2> QED
    BY <1>2, <2>1, <2>2, <2>3, <2>4, <2>5, <2>6, <2>7, <2>8 DEF Step
<1> QED
  BY <1>1, <1>2 DEF Next

\* A channel's step keeps the queues made of messages.
LEMMA NextQueueInv == ChanInv /\ [Next]_vars => QueueInv'
<1> SUFFICES ASSUME ChanInv, [Next]_vars PROVE QueueInv'
  OBVIOUS
<1> PICK q, r : q = [p \in Pipe |-> Contents(p)] /\ r = [p \in Pipe |-> Contents(p)']
  OBVIOUS
<1>1. q \in [Pipe -> Seq(Sent)]
  BY DEF ChanInv, QueueInv
<1>2. \/ r = q
      \/ \E p \in Pipe : r = [q EXCEPT ![p] = Tail(@)] /\ q[p] # <<>>
      \/ \E p \in Pipe, m \in Sent : r = [q EXCEPT ![p] = Append(@, m)]
  <2>1. CASE UNCHANGED Channel!vars
    BY <2>1 DEF Channel!vars
  <2>2. ASSUME NEW t \in Thread, NEW p \in Pipe, Channel!TakePlace(t, p)
        PROVE  r = q \/ (r = [q EXCEPT ![p] = Tail(@)] /\ q[p] # <<>>)
    <3>1. Len(<<>>) = 0 /\ Room(p) # 0
      BY IpcAssumption DEF Room
    <3> QED
      BY <2>2, <3>1 DEF Channel!TakePlace, Channel!IsFull
  <2>3. ASSUME NEW t \in Thread, NEW p \in Pipe, NEW m \in Sent, Channel!Send(t, p, m)
        PROVE  r = [q EXCEPT ![p] = Append(@, m)]
    BY <2>3 DEF Channel!Send
  <2>4. ASSUME NEW t \in Thread, NEW p \in Pipe, Channel!Receive(t, p)
        PROVE  r = [q EXCEPT ![p] = Tail(@)] /\ q[p] # <<>>
    BY <2>4 DEF Channel!Receive, Channel!IsEmpty
  <2>5. ASSUME NEW t \in Thread, NEW p \in Pipe,
               Channel!AwaitPlace(t, p) \/ Channel!AwaitMessage(t, p) \/ Channel!Wake(t, p)
        PROVE  r = q
    BY <2>5 DEF Channel!AwaitPlace, Channel!AwaitMessage, Channel!Wake
  <2>6. ASSUME NEW t \in Thread, Channel!Accept(t)
        PROVE  r = q
    BY <2>6 DEF Channel!Accept
  <2>7. CASE Channel!Next
    <3>1. PICK t \in Thread :
            \/ Channel!Accept(t)
            \/ \E p \in Pipe :
                 \/ Channel!TakePlace(t, p)
                 \/ \E m \in Sent : Channel!Send(t, p, m)
                 \/ Channel!Receive(t, p)
                 \/ Channel!AwaitPlace(t, p)
                 \/ Channel!AwaitMessage(t, p)
                 \/ Channel!Wake(t, p)
      BY <2>7 DEF Channel!Next, Sent
    <3>2. CASE Channel!Accept(t)
      BY <2>6, <3>2
    <3>3. ASSUME NEW p \in Pipe, NEW m \in Sent, Channel!Send(t, p, m)
          PROVE  \E o \in Pipe, n \in Sent : r = [q EXCEPT ![o] = Append(@, n)]
      <4>1. r = [q EXCEPT ![p] = Append(@, m)]
        BY <2>3, <3>3
      <4> QED
        BY <4>1, Zenon
    <3>4. ASSUME NEW p \in Pipe, Channel!TakePlace(t, p) \/ Channel!Receive(t, p)
          PROVE  r = q \/ \E o \in Pipe : r = [q EXCEPT ![o] = Tail(@)] /\ q[o] # <<>>
      BY <2>2, <2>4, <3>4
    <3> QED
      BY <2>5, <3>1, <3>2, <3>3, <3>4
  <2>8. [Channel!Next]_(Channel!vars)
    BY ChannelNext
  <2> QED
    BY <2>1, <2>7, <2>8
<1>3. r \in [Pipe -> Seq(Sent)]
  <2>1. ASSUME NEW p \in Pipe, r = [q EXCEPT ![p] = Tail(@)], q[p] # <<>>
        PROVE  r \in [Pipe -> Seq(Sent)]
    <3>1. Tail(q[p]) \in Seq(Sent)
      BY <1>1, <2>1, HeadTailProperties
    <3> QED
      BY <1>1, <2>1, <3>1
  <2>2. ASSUME NEW p \in Pipe, NEW m \in Sent, r = [q EXCEPT ![p] = Append(@, m)]
        PROVE  r \in [Pipe -> Seq(Sent)]
    <3>1. Append(q[p], m) \in Seq(Sent)
      BY <1>1, AppendProperties
    <3> QED
      BY <1>1, <2>2, <3>1
  <2> QED
    BY <1>1, <1>2, <2>1, <2>2
<1> QED
  BY <1>3 DEF QueueInv

\* The ring, its lock and the wait lists (ipc-manager.c:121-213) are the queue that
\* design/130-ipc-model.md promises, for rings of any depth: whole messages, in order,
\* none lost or read twice, the oldest purged and only to make room, and everyone a
\* transfer concerns woken before the next.
THEOREM PipesAreChannels == Spec => ImplementsChannel
<1>1. Init => ChanInv
  BY InitTypeInv, InitLockInv, InitWaitInv, InitPlaceInv, InitCarryInv DEF ChanInv
<1>2. ChanInv /\ [Next]_vars => ChanInv'
  BY NextTypeInv, NextLockInv, NextWaitInv, NextPlaceInv, NextCarryInv, NextQueueInv DEF ChanInv
<1> QED
  BY <1>1, <1>2, ChannelInit, ChannelNext, PTL DEF Spec, ImplementsChannel, Channel!Spec
=============================================================================
