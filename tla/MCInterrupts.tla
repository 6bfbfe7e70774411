---------------------------- MODULE MCInterrupts ----------------------------
(* Interrupts for TLC: the threads of MCKernel, of which one attaches, and   *)
(* one that is created later and is more urgent: it takes a CPU in the       *)
(* window.  The pipe has one slot.                                           *)
EXTENDS Interrupts, TLC

CONSTANTS c0, c1, app, idle, prod, cons, extra, i0, i1, q, m1,
          ProdUses, ConsUses, Pinned

MCProcess == <<app, idle>>
MCBootThreads == (app :> <<prod, cons>>) @@ (idle :> <<i0, i1>>)
MCParent == [t \in Thread |-> IF t \in Idle THEN idle ELSE app]
MCPriority == [t \in Thread |-> CASE t \in Idle -> 2 [] t = extra -> 0 [] OTHER -> 1]
MCAffinity == [t \in Thread |-> IF t = i0 THEN {c0}
                                ELSE IF t \in {i1} \cup Pinned THEN {c1} ELSE Cpu]
MCUses == [t \in Thread |-> CASE t = prod -> ProdUses [] t = cons -> ConsUses [] OTHER -> {}]
MCMessage == {[body |-> m1, len |-> 1]}
MCDepth == [p \in Pipe |-> 1]
MCMsgSize == [p \in Pipe |-> 1]
=============================================================================
