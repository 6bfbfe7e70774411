------------------------------ MODULE Allocator ------------------------------
(* What memlib.h promises of malloc and free: a block is n bytes of the heap's *)
(* memory that belong to nobody else until they are freed.                     *)
EXTENDS Integers

CONSTANTS Memory,   \* the addresses of the heap's regions
          Request   \* the sizes that are asked for

VARIABLE granted    \* the blocks in their owners' hands

Block == [at : Memory, len : Request]

Bytes(g) == g.at .. (g.at + g.len - 1)

Init == granted = {}

Grant(g) ==
  /\ Bytes(g) \subseteq Memory
  /\ \A h \in granted : Bytes(g) \cap Bytes(h) = {}
  /\ granted' = granted \cup {g}

Release(g) ==
  /\ g \in granted
  /\ granted' = granted \ {g}

Next == (\E g \in Block : Grant(g)) \/ (\E g \in granted : Release(g))

Spec == Init /\ [][Next]_granted
=============================================================================
