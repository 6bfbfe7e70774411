-------------------------- MODULE MCProcessManager -------------------------
(* ProcessManager for TLC: two CPUs with an idle thread each.  u is the most *)
(* urgent thread; w is created at run time, in memory that may be recycled.  *)
EXTENDS ProcessManager, TLC

CONSTANTS c0, c1, app, idle, u, w, i0, i1, pipe

MCCpu == {c0, c1}
MCProcess == <<app, idle>>
MCBootThreads == (app :> <<u>>) @@ (idle :> <<i0, i1>>)
MCParent == [t \in Thread |-> IF t \in Idle THEN idle ELSE app]
MCPriority == [t \in Thread |-> IF t = u THEN 1 ELSE IF t \in Idle THEN 3 ELSE 2]
MCAffinity == [t \in Thread |-> IF t = i0 THEN {c0} ELSE IF t = i1 THEN {c1} ELSE Cpu]
=============================================================================
