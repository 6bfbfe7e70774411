---------------------------- MODULE IpcManager -----------------------------
(***************************************************************************)
(* The pipes of kernel/src/managers/ipc-manager.c and the system calls     *)
(* that write and read them (kernel/src/userspace/ipc.c).                  *)
(*                                                                         *)
(* Each thread inside a call runs on a CPU of its own with interrupts      *)
(* masked, so calls interleave step by step; what they share is protected  *)
(* by the pipe's spinlock.  One action is one statement of the code that   *)
(* another CPU could observe if that lock were not held.  The wait list's  *)
(* lock and a thread's lock guard one statement each: such a statement is  *)
(* one step.                                                               *)
(***************************************************************************)
EXTENDS Integers, SequencesExt

CONSTANTS Pipe,       \* the pipes that exist (their ids)
          UnknownId,  \* ids no pipe has
          Thread,     \* the threads that make calls
          Message,    \* what they may try to write: [body, len]
          Depth,      \* Depth[p]: pipe->max_messages
          MsgSize,    \* MsgSize[p]: pipe->message_size
          Purging,    \* the pipes with IPC_PIPE_FLAGS_PURGE_ON_FULL
          None        \* NULL

ASSUME IpcAssumption ==
  /\ Depth \in [Pipe -> Nat \ {0}]
  /\ MsgSize \in [Pipe -> Nat \ {0}]
  /\ \A m \in Message : m.len \in Nat /\ m = [body |-> m.body, len |-> m.len]
  /\ Purging \subseteq Pipe
  /\ UnknownId \cap Pipe = {}
  /\ None \notin Pipe \cup Thread /\ None \notin Message
  /\ None \notin Pipe \X {"reader", "writer"}

VARIABLES slot,       \* slot[p][i]: pipe->messages[i]
          head, tail, \* the ring's indices
          readers,    \* readers[p]: the threads on pipe->readers.list
          writers,    \* writers[p]: the threads on pipe->writers.list
          lock,       \* lock[p]: the thread that holds pipe->lock, or None
          blockedBy,  \* blockedBy[t]: thread->blocked_by
          pc,         \* the next statement of t's call; "user" outside one
          pipe, msg,  \* the arguments of t's call, None outside one
          buf,        \* what t's read has copied out, NoData outside one
          ret         \* the result of t's last call, "PENDING" inside one

pipeVars == <<slot, head, tail, readers, writers>>
callVars == <<pc, pipe, msg>>
vars == <<pipeVars, lock, blockedBy, callVars, buf, ret>>

Result == {"PENDING", "OK", "NOT_FOUND", "BAD_PARAM", "FULL", "EMPTY"}

Label == {"user", "write_lock", "write_check", "write_fill", "write_commit",
          "write_block", "read_lock", "read_check", "read_advance",
          "read_block", "blocked", "notify_readers", "notify_writers"}

\* The labels between PIPE_LOCK and PIPE_UNLOCK.
Locked == Label \ {"user", "write_lock", "read_lock"}

\* A slot's bytes: the body last copied in, or None for what malloc left.
Slot == [body : {m.body : m \in Message} \cup {None},
         len : {m.len : m \in Message} \cup {0}]

NoData == [body |-> None, len |-> 0]

TypeOK ==
  /\ slot = [p \in Pipe |-> slot[p]]
  /\ \A p \in Pipe : slot[p] \in [0..(Depth[p] - 1) -> Slot]
  /\ head \in [Pipe -> Nat] /\ \A p \in Pipe : head[p] < Depth[p]
  /\ tail \in [Pipe -> Nat] /\ \A p \in Pipe : tail[p] < Depth[p]
  /\ readers \in [Pipe -> Seq(Thread)]
  /\ writers \in [Pipe -> Seq(Thread)]
  /\ lock \in [Pipe -> Thread \cup {None}]
  /\ blockedBy \in [Thread -> Pipe \cup {None}]
  /\ pc \in [Thread -> Label]
  /\ pipe \in [Thread -> Pipe \cup {None}]
  /\ msg \in [Thread -> Message \cup {None}]
  /\ buf \in [Thread -> Slot]
  /\ ret \in [Thread -> Result]

Init ==
  /\ slot = [p \in Pipe |-> [i \in 0..(Depth[p] - 1) |-> NoData]]
  /\ head = [p \in Pipe |-> 0]
  /\ tail = [p \in Pipe |-> 0]
  /\ readers = [p \in Pipe |-> <<>>]
  /\ writers = [p \in Pipe |-> <<>>]
  /\ lock = [p \in Pipe |-> None]
  /\ blockedBy = [t \in Thread |-> None]
  /\ pc = [t \in Thread |-> "user"]
  /\ pipe = [t \in Thread |-> None]
  /\ msg = [t \in Thread |-> None]
  /\ buf = [t \in Thread |-> NoData]
  /\ ret = [t \in Thread |-> "OK"]

-----------------------------------------------------------------------------
\* The ring.  With one slot its len tells full from empty and the indices
\* stay 0; with more, one slot is always left unused.

\* Slip: the index does not wrap.
IdxIncNoWrap(p, i) == i + 1

IdxInc(p, i) == (i + 1) % Depth[p]

IsEmpty(p) == IF Depth[p] > 1 THEN head[p] = tail[p] ELSE slot[p][0].len = 0

IsFull(p) == IF Depth[p] > 1 THEN IdxInc(p, head[p]) = tail[p]
                             ELSE slot[p][0].len # 0

\* How many messages the ring holds before it is full.
Room(p) == IF Depth[p] > 1 THEN Depth[p] - 1 ELSE 1

-----------------------------------------------------------------------------
\* Steps of a call.

At(t, label) == pc[t] = label

Goto(t, label) == /\ pc' = [pc EXCEPT ![t] = label]
                  /\ UNCHANGED <<pipe, msg>>

\* A call that fails before it takes the pipe's lock.
Fail(t, result) ==
  /\ ret' = [ret EXCEPT ![t] = result]
  /\ UNCHANGED <<pipeVars, lock, blockedBy, callVars, buf>>

Enter(t, p, m, label) ==
  /\ pc' = [pc EXCEPT ![t] = label]
  /\ pipe' = [pipe EXCEPT ![t] = p]
  /\ msg' = [msg EXCEPT ![t] = m]
  /\ ret' = [ret EXCEPT ![t] = "PENDING"]
  /\ UNCHANGED <<pipeVars, lock, blockedBy, buf>>

PipeWriteCall(t, id, m) ==
  /\ At(t, "user")
  /\ \/ m.len = 0 /\ Fail(t, "BAD_PARAM")
     \/ m.len # 0 /\ id \in UnknownId /\ Fail(t, "NOT_FOUND")
     \/ m.len # 0 /\ id \in Pipe /\ m.len > MsgSize[id] /\ Fail(t, "BAD_PARAM")
     \/ m.len # 0 /\ id \in Pipe /\ m.len <= MsgSize[id]
        /\ Enter(t, id, m, "write_lock")

PipeReadCall(t, id) ==
  /\ At(t, "user")
  /\ \/ id \in UnknownId /\ Fail(t, "NOT_FOUND")
     \/ id \in Pipe /\ Enter(t, id, None, "read_lock")

\* Slip: the lock is taken without a look at who has it.
AcquireHeld(t, from, to) ==
  /\ At(t, from)
  /\ lock' = [lock EXCEPT ![pipe[t]] = t]
  /\ Goto(t, to)
  /\ UNCHANGED <<pipeVars, blockedBy, buf, ret>>

Acquire(t, from, to) ==
  /\ At(t, from)
  /\ lock[pipe[t]] = None
  /\ lock' = [lock EXCEPT ![pipe[t]] = t]
  /\ Goto(t, to)
  /\ UNCHANGED <<pipeVars, blockedBy, buf, ret>>

WriteLock(t) == Acquire(t, "write_lock", "write_check")
ReadLock(t)  == Acquire(t, "read_lock", "read_check")

\* PIPE_UNLOCK and the return to the system call handler.
Return(t, result) ==
  /\ lock' = [lock EXCEPT ![pipe[t]] = None]
  /\ pc' = [pc EXCEPT ![t] = "user"]
  /\ pipe' = [pipe EXCEPT ![t] = None]
  /\ msg' = [msg EXCEPT ![t] = None]
  /\ buf' = [buf EXCEPT ![t] = NoData]
  /\ ret' = [ret EXCEPT ![t] = result]
  /\ UNCHANGED <<pipeVars, blockedBy>>

-----------------------------------------------------------------------------
\* ipcm_pipe_write, with the lock held.

\* Slip: purging makes no room.
PurgeNothing(t) ==
  LET p == pipe[t] IN
  /\ At(t, "write_check")
  /\ IsFull(p) /\ p \in Purging
  /\ Goto(t, "write_fill")
  /\ UNCHANGED <<pipeVars, lock, blockedBy, buf, ret>>

PurgeOldest(t) ==
  LET p == pipe[t] IN
  /\ At(t, "write_check")
  /\ IsFull(p) /\ p \in Purging
  /\ tail' = [tail EXCEPT ![p] = IdxInc(p, @)]
  /\ Goto(t, "write_fill")
  /\ UNCHANGED <<slot, head, readers, writers, lock, blockedBy, buf, ret>>

FindRoom(t) ==
  /\ At(t, "write_check")
  /\ ~IsFull(pipe[t])
  /\ Goto(t, "write_fill")
  /\ UNCHANGED <<pipeVars, lock, blockedBy, buf, ret>>

WriterWaits(t) ==
  LET p == pipe[t] IN
  /\ At(t, "write_check")
  /\ IsFull(p) /\ p \notin Purging
  /\ writers' = [writers EXCEPT ![p] = Append(@, t)]
  /\ Goto(t, "write_block")
  /\ UNCHANGED <<slot, head, tail, readers, lock, blockedBy, buf, ret>>

WriteFill(t) ==
  LET p == pipe[t] IN
  /\ At(t, "write_fill")
  /\ slot' = [slot EXCEPT ![p][head[p]].body = msg[t].body]
  /\ Goto(t, "write_commit")
  /\ UNCHANGED <<head, tail, readers, writers, lock, blockedBy, buf, ret>>

WriteCommit(t) ==
  LET p == pipe[t] IN
  /\ At(t, "write_commit")
  /\ slot' = [slot EXCEPT ![p][head[p]].len = msg[t].len]
  /\ head' = [head EXCEPT ![p] = IdxInc(p, @)]
  /\ Goto(t, "notify_readers")
  /\ UNCHANGED <<tail, readers, writers, lock, blockedBy, buf, ret>>

-----------------------------------------------------------------------------
\* ipcm_pipe_read, with the lock held.

ReaderWaits(t) ==
  LET p == pipe[t] IN
  /\ At(t, "read_check")
  /\ IsEmpty(p)
  /\ readers' = [readers EXCEPT ![p] = Append(@, t)]
  /\ Goto(t, "read_block")
  /\ UNCHANGED <<slot, head, tail, writers, lock, blockedBy, buf, ret>>

\* Slip: the newest slot is read.
ReadCopyHead(t) ==
  LET p == pipe[t] IN
  /\ At(t, "read_check")
  /\ ~IsEmpty(p)
  /\ buf' = [buf EXCEPT ![t] = slot[p][head[p]]]
  /\ Goto(t, "read_advance")
  /\ UNCHANGED <<pipeVars, lock, blockedBy, ret>>

ReadCopy(t) ==
  LET p == pipe[t] IN
  /\ At(t, "read_check")
  /\ ~IsEmpty(p)
  /\ buf' = [buf EXCEPT ![t] = slot[p][tail[p]]]
  /\ Goto(t, "read_advance")
  /\ UNCHANGED <<pipeVars, lock, blockedBy, ret>>

\* Slip: the slot's len is not reset.
ReadAdvanceKeepLen(t) ==
  LET p == pipe[t] IN
  /\ At(t, "read_advance")
  /\ tail' = [tail EXCEPT ![p] = IdxInc(p, @)]
  /\ Goto(t, "notify_writers")
  /\ UNCHANGED <<slot, head, readers, writers, lock, blockedBy, buf, ret>>

\* Slip: the readers are notified of the room, instead of the writers.
ReadAdvanceWrongList(t) ==
  LET p == pipe[t] IN
  /\ At(t, "read_advance")
  /\ slot' = [slot EXCEPT ![p][tail[p]].len = 0]
  /\ tail' = [tail EXCEPT ![p] = IdxInc(p, @)]
  /\ Goto(t, "notify_readers")
  /\ UNCHANGED <<head, readers, writers, lock, blockedBy, buf, ret>>

ReadAdvance(t) ==
  LET p == pipe[t] IN
  /\ At(t, "read_advance")
  /\ slot' = [slot EXCEPT ![p][tail[p]].len = 0]
  /\ tail' = [tail EXCEPT ![p] = IdxInc(p, @)]
  /\ Goto(t, "notify_writers")
  /\ UNCHANGED <<head, readers, writers, lock, blockedBy, buf, ret>>

-----------------------------------------------------------------------------
\* What the two have in common: blocking, and rw_list_notify, which wakes a
\* list's threads from the last to the first and empties it.

MarkBlocked(t) ==
  /\ At(t, "write_block") \/ At(t, "read_block")
  /\ blockedBy' = [blockedBy EXCEPT ![t] = pipe[t]]
  /\ ret' = [ret EXCEPT ![t] = IF At(t, "write_block") THEN "FULL" ELSE "EMPTY"]
  /\ Goto(t, "blocked")
  /\ UNCHANGED <<pipeVars, lock, buf>>

\* Slip: the early return of a full or an empty pipe keeps the lock.
ReturnBlockedLocked(t) ==
  /\ At(t, "blocked")
  /\ pc' = [pc EXCEPT ![t] = "user"]
  /\ pipe' = [pipe EXCEPT ![t] = None]
  /\ msg' = [msg EXCEPT ![t] = None]
  /\ UNCHANGED <<pipeVars, lock, blockedBy, buf, ret>>

ReturnBlocked(t) == At(t, "blocked") /\ Return(t, ret[t])

\* Slip: the list is emptied and nobody is unblocked.
NotifyNobody(t) ==
  LET p == pipe[t] IN
  /\ At(t, "notify_readers")
  /\ readers[p] # <<>>
  /\ readers' = [readers EXCEPT ![p] = Front(@)]
  /\ UNCHANGED <<slot, head, tail, writers, lock, blockedBy, callVars, buf, ret>>

\* Slip: one end's thread is unblocked, the other end's node is freed.
NotifyOtherEnd(t) ==
  LET p == pipe[t] IN
  /\ At(t, "notify_readers")
  /\ readers[p] # <<>>
  /\ blockedBy' = [blockedBy EXCEPT ![Last(readers[p])] = None]
  /\ readers' = [readers EXCEPT ![p] = Tail(@)]
  /\ UNCHANGED <<slot, head, tail, writers, lock, callVars, buf, ret>>

NotifyReader(t) ==
  LET p == pipe[t] IN
  /\ At(t, "notify_readers")
  /\ readers[p] # <<>>
  /\ blockedBy' = [blockedBy EXCEPT ![Last(readers[p])] = None]
  /\ readers' = [readers EXCEPT ![p] = Front(@)]
  /\ UNCHANGED <<slot, head, tail, writers, lock, callVars, buf, ret>>

NotifyWriter(t) ==
  LET p == pipe[t] IN
  /\ At(t, "notify_writers")
  /\ writers[p] # <<>>
  /\ blockedBy' = [blockedBy EXCEPT ![Last(writers[p])] = None]
  /\ writers' = [writers EXCEPT ![p] = Front(@)]
  /\ UNCHANGED <<slot, head, tail, readers, lock, callVars, buf, ret>>

ReturnOk(t) ==
  /\ \/ At(t, "notify_readers") /\ readers[pipe[t]] = <<>>
     \/ At(t, "notify_writers") /\ writers[pipe[t]] = <<>>
  /\ Return(t, "OK")

-----------------------------------------------------------------------------

\* The scheduler runs no thread whose blocked_by is set (Kernel shows it).
Call(t) ==
  /\ blockedBy[t] = None
  /\ \E id \in Pipe \cup UnknownId :
       \/ \E m \in Message : PipeWriteCall(t, id, m)
       \/ PipeReadCall(t, id)

\* The steps of t's call once it is made.
Step(t) ==
  \/ WriteLock(t) \/ PurgeOldest(t) \/ FindRoom(t) \/ WriterWaits(t)
  \/ WriteFill(t) \/ WriteCommit(t)
  \/ ReadLock(t) \/ ReaderWaits(t) \/ ReadCopy(t) \/ ReadAdvance(t)
  \/ MarkBlocked(t) \/ ReturnBlocked(t)
  \/ NotifyReader(t) \/ NotifyWriter(t) \/ ReturnOk(t)

Next == \E t \in Thread : Call(t) \/ Step(t)

Spec == Init /\ [][Next]_vars

-----------------------------------------------------------------------------
\* Properties

\* Whoever works on a pipe's ring and lists holds that pipe's lock: no two
\* calls are between PIPE_LOCK and PIPE_UNLOCK of one pipe.
LockHeld == \A t \in Thread : pc[t] \in Locked => /\ pipe[t] # None
                                                 /\ lock[pipe[t]] = t

\* Outside the lock a reader is on the list only of an empty pipe, a writer
\* only of a full one: the check that blocks a thread (lines 148-163, 188-196)
\* and the transfer that would wake it cannot miss each other.
NoLostWakeup ==
  \A p \in Pipe : lock[p] = None =>
    /\ readers[p] # <<>> => IsEmpty(p)
    /\ writers[p] # <<>> => IsFull(p) /\ p \notin Purging

List(p, side) == IF side = "reader" THEN readers[p] ELSE writers[p]

\* The places in which t waits.
Places(t) ==
  UNION {{<<p, side, i>> : i \in {j \in 1..Len(List(p, side)) : List(p, side)[j] = t}} :
           p \in Pipe, side \in {"reader", "writer"}}

\* Outside the locks, blocked_by and the wait lists agree: a thread waits in
\* exactly one place of one list, of the pipe its blocked_by names, and a
\* thread on no list is not blocked.  Otherwise a thread would sleep for ever
\* with nobody to wake it, or be woken by a pipe it does not wait for.
BlockedIffWaiting ==
  \A t \in Thread :
    (/\ pc[t] = "user"
     /\ \A p \in Pipe : lock[p] = None) =>
       IF blockedBy[t] = None
       THEN Places(t) = {}
       ELSE /\ Cardinality(Places(t)) = 1
            /\ \A w \in Places(t) : w[1] = blockedBy[t]

\* Every critical section ends: a holder of a pipe's lock, whatever branch its
\* call takes, unlocks the pipe (lines 161, 171, 194, 209).
LockReleased == \A p \in Pipe : lock[p] # None ~> lock[p] = None

\* A reader waiting on a pipe that has got a message is woken, and so is a
\* writer waiting on a pipe that has got room.
WaitersWoken ==
  \A t \in Thread, p \in Pipe :
    /\ (t \in ToSet(readers[p]) /\ ~IsEmpty(p)) ~> blockedBy[t] = None
    /\ (t \in ToSet(writers[p]) /\ ~IsFull(p)) ~> blockedBy[t] = None

-----------------------------------------------------------------------------
\* Refinement: the ring, its lock and the wait lists implement PipeChannel.

Transferring(p) == lock[p] # None /\ pc[lock[p]] \in {"write_fill", "write_commit"}

Queued(p) == IF Depth[p] > 1 THEN (head[p] - tail[p]) % Depth[p]
                             ELSE IF slot[p][0].len = 0 THEN 0 ELSE 1

\* The messages in the ring.  The one slot of a pipe of depth 1 is refilled in
\* place, so it counts as empty while its writer is at it.
Contents(p) ==
  IF Depth[p] = 1 /\ Transferring(p) THEN <<>>
  ELSE [i \in 1..Queued(p) |-> slot[p][(tail[p] + i - 1) % Depth[p]]]

BeingNotified(p) ==
  CASE lock[p] = None                      -> {}
    [] lock[p] # None /\ At(lock[p], "notify_readers") -> ToSet(readers[p])
    [] lock[p] # None /\ At(lock[p], "notify_writers") -> ToSet(writers[p])
    [] OTHER                               -> {}

WaitingFor(t) ==
  IF blockedBy[t] = None THEN None
  ELSE <<blockedBy[t],
         IF t \in ToSet(readers[blockedBy[t]]) THEN "reader" ELSE "writer">>

Channel == INSTANCE PipeChannel WITH
  Message  <- {m \in Message : m.len > 0},
  Capacity <- [p \in Pipe |-> Room(p)],
  queue    <- [p \in Pipe |-> Contents(p)],
  place    <- [p \in Pipe |-> IF Transferring(p) THEN lock[p] ELSE None],
  due      <- [p \in Pipe |-> BeingNotified(p)],
  waiting  <- [t \in Thread |-> WaitingFor(t)],
  got      <- [t \in Thread |-> IF At(t, "notify_writers") THEN buf[t] ELSE None]

\* Whole messages, in order, none lost or read twice, the oldest purged and
\* only to make room, and everyone a transfer concerns woken before the next.
ImplementsChannel == Channel!Spec
=============================================================================
