---------------------------- MODULE PipeRegistry ----------------------------
(***************************************************************************)
(* IpcManager with the creation of its pipes: ipcm_pipe_create takes an id *)
(* under the list's lock, lets the lock go, and takes it again to append   *)
(* the pipe; a thread asks for a pipe by its name until there is one, and  *)
(* writes and reads with the id it was given.  Two threads may create      *)
(* pipes of one name, and be overtaken between the two critical sections.  *)
(***************************************************************************)
EXTENDS IpcManager

CONSTANT Name

\* PIPE_ID counts from 1 here, and from 1000 in the code.
ASSUME RegistryAssumption == Pipe \subseteq Nat /\ UnknownId # {}

VARIABLES PIPE_LIST,  \* the pipes that can be found, [id, name], in list order
          PIPE_ID,    \* the next id
          creating,   \* creating[t]: the pipe t is about to append, or None
          found       \* found[t]: the id that t's last query was answered with

regVars == <<PIPE_LIST, PIPE_ID, creating, found>>
allVars == <<vars, regVars>>

Named == [id : Pipe, name : Name]

RegistryTypeOK ==
  /\ PIPE_LIST \in Seq(Named)
  /\ PIPE_ID \in Nat
  /\ creating \in [Thread -> Named \cup {None}]
  /\ found \in [Thread -> Pipe \cup UnknownId]

RegistryInit ==
  /\ Init
  /\ PIPE_LIST = <<>>
  /\ PIPE_ID = 1
  /\ creating = [t \in Thread |-> None]
  /\ found \in [Thread -> UnknownId]

\* t is at user level and nothing keeps it from running.
Runs(t) == pc[t] = "user" /\ blockedBy[t] = None /\ creating[t] = None

\* Slip: the id is the length of the list.
TakeLength(t, n) ==
  /\ Runs(t) /\ PIPE_ID \in Pipe /\ Len(PIPE_LIST) + 1 \in Pipe
  /\ creating' = [creating EXCEPT ![t] = [id |-> Len(PIPE_LIST) + 1, name |-> n]]
  /\ PIPE_ID' = PIPE_ID + 1
  /\ UNCHANGED <<vars, PIPE_LIST, found>>

\* A pipe, filled in where nobody sees it, takes its id.  Bounds: the ids of Pipe, and
\* that it is given a name (without one, its name is what the heap held).
TakeId(t, n) ==
  /\ Runs(t) /\ PIPE_ID \in Pipe
  /\ creating' = [creating EXCEPT ![t] = [id |-> PIPE_ID, name |-> n]]
  /\ PIPE_ID' = PIPE_ID + 1
  /\ UNCHANGED <<vars, PIPE_LIST, found>>

\* Slip: a new pipe is put in front.
Prepend(t) ==
  /\ creating[t] # None
  /\ PIPE_LIST' = <<creating[t]>> \o PIPE_LIST
  /\ creating' = [creating EXCEPT ![t] = None]
  /\ UNCHANGED <<vars, PIPE_ID, found>>

ListAppend(t) ==
  /\ creating[t] # None
  /\ PIPE_LIST' = Append(PIPE_LIST, creating[t])
  /\ creating' = [creating EXCEPT ![t] = None]
  /\ UNCHANGED <<vars, PIPE_ID, found>>

\* The pipe at i is the first of its name.
IsFirst(i) == \A j \in 1..(i - 1) : PIPE_LIST[j].name # PIPE_LIST[i].name

Answer(t, id) ==
  /\ found' = [found EXCEPT ![t] = id]
  /\ UNCHANGED <<vars, PIPE_LIST, PIPE_ID, creating>>

\* A query that finds nothing answers with what lies at address 0, and NOT_FOUND.
PipeIdGet(t, n) ==
  /\ Runs(t)
  /\ \/ \E i \in 1..Len(PIPE_LIST) :
          PIPE_LIST[i].name = n /\ IsFirst(i) /\ Answer(t, PIPE_LIST[i].id)
     \/ /\ \A i \in 1..Len(PIPE_LIST) : PIPE_LIST[i].name # n
        /\ \E id \in UnknownId : Answer(t, id)

\* The ids that ipcm_pipe_lookup_by_id finds a pipe for.
Listed == {PIPE_LIST[i].id : i \in 1..Len(PIPE_LIST)}

\* A write or a read with the id the thread has.
UseFound(t) ==
  /\ Runs(t)
  /\ \E id \in IF found[t] \in Listed THEN {found[t]} ELSE UnknownId :
       \/ \E m \in Message : PipeWriteCall(t, id, m)
       \/ PipeReadCall(t, id)
  /\ UNCHANGED regVars

PipeStep(t) == Step(t) /\ UNCHANGED regVars

RegistryNext ==
  \E t \in Thread :
    \/ \E n \in Name : TakeId(t, n) \/ PipeIdGet(t, n)
    \/ ListAppend(t)
    \/ UseFound(t) \/ PipeStep(t)

RegistrySpec == RegistryInit /\ [][RegistryNext]_allVars

\* A CPU inside the kernel runs with interrupts masked: a call's next statement
\* is executed, but the spinlock promises no CPU its turn.  Nobody has to call.
RegistryFairSpec ==
  RegistrySpec /\ \A t \in Thread : WF_allVars(ListAppend(t)) /\ WF_allVars(PipeStep(t))

-----------------------------------------------------------------------------
\* Properties

\* Refinement: the pipe a name means is the first of that name in the list.
Names == INSTANCE Directory WITH
  Id      <- Pipe,
  Unknown <- UnknownId,
  pipes   <- {PIPE_LIST[i] : i \in 1..Len(PIPE_LIST)},
  named   <- {PIPE_LIST[i] : i \in {j \in 1..Len(PIPE_LIST) : IsFirst(j)}},
  answer  <- found

\* Ids are given once though creations overtake each other, and whoever asks for
\* a name is given the same pipe for good, also if two threads create it at once:
\* what libc does with its pipes by name (libc-glue.c:52) rests on it.
ImplementsDirectory == Names!Spec
=============================================================================
