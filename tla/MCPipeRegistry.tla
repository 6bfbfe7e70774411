--------------------------- MODULE MCPipeRegistry ---------------------------
(* PipeRegistry for TLC: two names, and two pipes of one message to be made, *)
(* of which the first purges and the second is a token, as libc-glue.c makes *)
(* it for a mutex.  One message fits both, one the first, one none, and one   *)
(* is empty.                                                                  *)
EXTENDS PipeRegistry

CONSTANTS t1, t2, stdin, token, noId, m1, m2

MCDepth == [p \in Pipe |-> 1]
MCMsgSize == [p \in Pipe |-> IF p = 1 THEN 2 ELSE 1]
MCMessage == {[body |-> m1, len |-> 1], [body |-> m2, len |-> 2],
              [body |-> m1, len |-> 0], [body |-> m1, len |-> 3]}
=============================================================================
