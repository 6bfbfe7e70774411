------------------------------ MODULE MCKernel ------------------------------
(* Kernel for TLC: a producer and a consumer of one pipe, which may run on   *)
(* any CPU, and an idle thread for each CPU.  The pipe's ring has two slots, *)
(* so that one message fills it.  A pinned thread has an affinity for c1:    *)
(* its yields are answered before it can resume.                             *)
EXTENDS Kernel, TLC

CONSTANTS c0, c1, app, idle, prod, cons, extra, i0, i1, q, noId, m1,
          ProdUses, ConsUses, Pinned

MCProcess == <<app, idle>>
MCBootThreads == (app :> <<prod, cons>>) @@
                 (idle :> <<i0, i1>>)
MCParent == [t \in Thread |-> IF t \in Idle THEN idle ELSE app]
MCPriority == [t \in Thread |-> IF t \in Idle THEN 2 ELSE 1]
MCAffinity == [t \in Thread |-> IF t = i0 THEN {c0}
                                ELSE IF t \in {i1} \cup Pinned THEN {c1} ELSE Cpu]
MCUses == [t \in Thread |-> CASE t = prod -> ProdUses [] t = cons -> ConsUses [] OTHER -> {}]
OneMessage == {[body |-> m1, len |-> 1]}
MCMessage == OneMessage \cup {[body |-> m1, len |-> 0], [body |-> m1, len |-> 2]}
MCDepth == [p \in Pipe |-> 2]
MCMsgSize == [p \in Pipe |-> 1]
=============================================================================
