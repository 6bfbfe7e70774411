----------------------------- MODULE Directory -----------------------------
(* What the pipes' names promise (kernel/h/interfaces/userspace/ipc.h): each *)
(* pipe has an id of its own, and a name means one pipe for good, whoever    *)
(* asks.  A later pipe of the same name exists, but not under its name.      *)
CONSTANTS Thread, Name, Id, Unknown

VARIABLES pipes,   \* the pipes there are, [id, name]
          named,   \* those of them that their name means
          answer   \* answer[t]: what t was told when it last asked

vars == <<pipes, named, answer>>

Init ==
  /\ pipes = {} /\ named = {}
  /\ answer \in [Thread -> Unknown]

Create(id, n) ==
  LET new == [id |-> id, name |-> n] IN
  /\ \A x \in pipes : x.id # id
  /\ pipes' = pipes \cup {new}
  /\ named' = IF \E x \in pipes : x.name = n THEN named ELSE named \cup {new}
  /\ UNCHANGED answer

Tell(t, id) ==
  /\ answer' = [answer EXCEPT ![t] = id]
  /\ UNCHANGED <<pipes, named>>

Ask(t, n) ==
  \/ \E x \in named : x.name = n /\ Tell(t, x.id)
  \/ (\A x \in pipes : x.name # n) /\ \E id \in Unknown : Tell(t, id)

Next ==
  \/ \E id \in Id, n \in Name : Create(id, n)
  \/ \E t \in Thread, n \in Name : Ask(t, n)

Spec == Init /\ [][Next]_vars
=============================================================================
