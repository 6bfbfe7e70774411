------------------------------- MODULE Mutex --------------------------------
(* What a lock is to the code that takes it: one CPU at a time holds it, and *)
(* only that CPU gives it up.  The other modules use locks in this sense.    *)
CONSTANTS Cpu, None

VARIABLE holder

Init == holder = None

Acquire(c) == holder = None /\ holder' = c

Release(c) == holder = c /\ holder' = None

Next == \E c \in Cpu : Acquire(c) \/ Release(c)

Spec == Init /\ [][Next]_holder
=============================================================================
