---------------------------- MODULE MCIpcManager ---------------------------
(* IpcManager for TLC: two pipes with a ring, of which r purges, and two     *)
(* messages of different lengths, so that a torn one shows.                  *)
EXTENDS IpcManager

CONSTANTS q, r, noId, m1, m2, t1, t2, t3

MCDepth == [p \in Pipe |-> 3]
MCMsgSize == [p \in Pipe |-> 2]
MCMessage == {[body |-> m1, len |-> 1], [body |-> m2, len |-> 2]}
Threads == Permutations({t1, t2, t3})

\* Bound: a behaviour uses one pipe.
Untouched(p) ==
  /\ \A i \in DOMAIN slot[p] : slot[p][i].body = None
  /\ lock[p] = None /\ readers[p] = <<>>
  /\ \A t \in Thread : pipe[t] # p

OnePipeSpec == Init /\ [][Next /\ \E p \in Pipe : Untouched(p)']_vars
=============================================================================
