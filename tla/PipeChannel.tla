---------------------------- MODULE PipeChannel ----------------------------
(***************************************************************************)
(* What a LuKOS pipe promises its users (design/130-ipc-model.md): a queue *)
(* of whole messages, written atomically, that delivers in order; a reader *)
(* of an empty pipe is blocked until there is data; a writer of a full     *)
(* pipe is blocked or, on a purging pipe, takes the place of the oldest    *)
(* message; whoever a transfer unblocks is woken before the next transfer  *)
(* on that pipe.                                                           *)
(*                                                                         *)
(* Locks, ring indices and wait lists do not exist here: IpcManager adds   *)
(* them and is checked to implement this specification.                    *)
(***************************************************************************)
EXTENDS Naturals, Sequences

CONSTANTS Pipe,       \* the pipes
          Thread,     \* the threads that use them
          Message,    \* the messages that fit a pipe
          Capacity,   \* Capacity[p]: how many messages p queues
          Purging,    \* the pipes created with the purge-on-full flag
          None        \* no thread, no pipe, no message

VARIABLES queue,      \* queue[p]: the messages in p, oldest first
          place,      \* place[p]: the writer that has a place in p, or None
          due,        \* due[p]: the threads a transfer on p has yet to wake
          waiting,    \* waiting[t]: <<p, side>> or None
          got         \* got[t]: the message a read is handing to t, or None

vars == <<queue, place, due, waiting, got>>

Side == {"reader", "writer"}

TypeOK ==
  /\ queue \in [Pipe -> Seq(Message)]
  /\ place \in [Pipe -> Thread \cup {None}]
  /\ due \in [Pipe -> SUBSET Thread]
  /\ waiting \in [Thread -> (Pipe \X Side) \cup {None}]
  /\ got \in [Thread -> Message \cup {None}]

Init ==
  /\ queue = [p \in Pipe |-> <<>>]
  /\ place = [p \in Pipe |-> None]
  /\ due = [p \in Pipe |-> {}]
  /\ waiting = [t \in Thread |-> None]
  /\ got = [t \in Thread |-> None]

-----------------------------------------------------------------------------

Waiters(p, side) == {t \in Thread : waiting[t] = <<p, side>>}

IsFull(p)  == Len(queue[p]) = Capacity[p]
IsEmpty(p) == queue[p] = <<>>

\* No transfer on p is half done.
Quiet(p) == place[p] = None /\ due[p] = {}

-----------------------------------------------------------------------------

\* A writer takes a place in the queue; on a full purging pipe, the oldest
\* message's.
TakePlace(t, p) ==
  /\ Quiet(p) /\ waiting[t] = None
  /\ \/ ~IsFull(p) /\ UNCHANGED queue
     \/ IsFull(p) /\ p \in Purging /\ queue' = [queue EXCEPT ![p] = Tail(@)]
  /\ place' = [place EXCEPT ![p] = t]
  /\ UNCHANGED <<due, waiting, got>>

Send(t, p, m) ==
  /\ place[p] = t
  /\ queue' = [queue EXCEPT ![p] = Append(@, m)]
  /\ place' = [place EXCEPT ![p] = None]
  /\ due' = [due EXCEPT ![p] = Waiters(p, "reader")]
  /\ UNCHANGED <<waiting, got>>

Receive(t, p) ==
  /\ Quiet(p) /\ waiting[t] = None
  /\ ~IsEmpty(p)
  /\ got' = [got EXCEPT ![t] = Head(queue[p])]
  /\ queue' = [queue EXCEPT ![p] = Tail(@)]
  /\ due' = [due EXCEPT ![p] = Waiters(p, "writer")]
  /\ UNCHANGED <<place, waiting>>

AwaitPlace(t, p) ==
  /\ Quiet(p) /\ waiting[t] = None
  /\ p \notin Purging /\ IsFull(p)
  /\ waiting' = [waiting EXCEPT ![t] = <<p, "writer">>]
  /\ UNCHANGED <<queue, place, due, got>>

AwaitMessage(t, p) ==
  /\ Quiet(p) /\ waiting[t] = None
  /\ IsEmpty(p)
  /\ waiting' = [waiting EXCEPT ![t] = <<p, "reader">>]
  /\ UNCHANGED <<queue, place, due, got>>

Wake(t, p) ==
  /\ t \in due[p]
  /\ due' = [due EXCEPT ![p] = @ \ {t}]
  /\ waiting' = [waiting EXCEPT ![t] = None]
  /\ UNCHANGED <<queue, place, got>>

\* The reader takes delivery: the call that handed it the message returns.
Accept(t) ==
  /\ got[t] # None
  /\ got' = [got EXCEPT ![t] = None]
  /\ UNCHANGED <<queue, place, due, waiting>>

Next ==
  \E t \in Thread :
    \/ Accept(t)
    \/ \E p \in Pipe :
         \/ TakePlace(t, p)
         \/ \E m \in Message : Send(t, p, m)
         \/ Receive(t, p)
         \/ AwaitPlace(t, p)
         \/ AwaitMessage(t, p)
         \/ Wake(t, p)

Spec == Init /\ [][Next]_vars
=============================================================================
