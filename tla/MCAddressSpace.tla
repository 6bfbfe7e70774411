--------------------------- MODULE MCAddressSpace --------------------------
(* AddressSpace for TLC.  Process A has two threads, B has one; a 2 MB page  *)
(* counts two small ones and an L1 entry spans two of them.                  *)
EXTENDS AddressSpace

CONSTANTS A, B, t1, t2, t3, Shape1, Shape2, Shape3, Devices, Devices2

MCOwner == [t \in Thread |-> IF t = t3 THEN B ELSE A]
MCBootFrame == [p \in Process |-> IF p = A THEN 4 ELSE 8]
\* Of the RAM, one frame of the boot is counted; devices may be mapped onto the rest.
MCZones == {[base |-> 5, end |-> 6]}
Memory(shapes) == {[large |-> s[1], small |-> s[2], pa |-> None] : s \in shapes}
MCMemory == [t \in Thread |-> Memory(IF t = t1 THEN Shape1
                                     ELSE IF t = t2 THEN Shape2 ELSE Shape3)]
Device(shapes) == {[large |-> s[1], small |-> s[2], pa |-> s[3]] : s \in shapes}
MCDevice == [t \in Thread |-> Device(IF t = t3 THEN Devices
                                     ELSE IF t = t2 THEN Devices2 ELSE {})]

S1 == {<<1, 0>>, <<0, 1>>}
S2 == {<<0, 2>>}
S3 == {<<1, 0>>}
D2 == {<<0, 2, 17>>}
D3 == {<<1, 0, 4>>}
NoDevice == {}
Mixed == {<<1, 1>>}
=============================================================================
