-------------------------------- MODULE Heap --------------------------------
(***************************************************************************)
(* The kernel's heap, kernel/src/libraries/mem/memlib_impl_basic.c: regions *)
(* of memory, each with a list of blocks that starts at its base and grows *)
(* towards its end.  A block is a marker, with a USED bit, a size of 31    *)
(* bits and a link, and the bytes behind it.                               *)
(*                                                                         *)
(* malloc looks for a free block that is large enough, then for room at the *)
(* end of a region, then for a run of free blocks to merge.  It holds the  *)
(* heap's lock; free does not take it.  Each block malloc looks at is one   *)
(* step, so frees on other CPUs fall before, behind and under its walk.     *)
(***************************************************************************)
EXTENDS Integers, Sequences

CONSTANTS Cpu,
          Regions,      \* heap_add's regions are 1..Regions
          Base, Length, \* of each region
          Request,      \* the sizes asked for, in bytes
          Marker,       \* MARKER_SIZE
          Align,        \* 8
          SizeModulus,  \* 2^31: a size is what is left of flags beside USED
          None

Memory == UNION {Base[r] .. (Base[r] + Length[r] - 1) : r \in 1..Regions}

ASSUME HeapAssumption ==
  /\ Regions \in Nat \ {0}
  /\ Base \in [1..Regions -> Nat \ {0}] /\ Length \in [1..Regions -> Nat]
  /\ \A r, s \in 1..Regions : r < s => Base[r] + Length[r] <= Base[s]
  /\ Marker \in Nat \ {0} /\ Align \in Nat \ {0} /\ SizeModulus \in Nat \ {0}
  /\ Request \subseteq 1..(SizeModulus - 1)
  /\ None \notin Cpu \cup Nat

VARIABLES blocks,    \* blocks[r]: the addresses of r's markers, in list order
          size,      \* size[a]: GET_SIZE of the marker at a
          used,      \* the markers with their USED bit set
          freeBase,  \* freeBase[r]: the end of what r's list covers
          lock,      \* the CPU that holds the heap's lock, or None
          pc,        \* pc[c]: where c is in its call
          my,        \* my[c]: the local variables of c's call
          granted,   \* the blocks in their owners' hands
          room,      \* history, room[a]: the size that the block at a has room for
          loose      \* history: a block recorded with another size has been freed

vars == <<blocks, size, used, freeBase, lock, pc, my, granted, room, loose>>

history == <<room, loose>>

Label == {"idle", "find", "extend", "skip", "run", "mark", "free"}

\* n, the walk's region and block, the run's first block and running_total; the
\* block found or to be freed, and the size that free has read from it; whether a
\* block, a run or room would do when malloc began.
Locals == [n : Nat, reg : 1..Regions, idx : Nat, start : Nat, total : Nat,
           block : Memory \cup {None}, saw : Nat, fit : BOOLEAN]

NoLocals == [n |-> 0, reg |-> 1, idx |-> 0, start |-> 0, total |-> 0,
             block |-> None, saw |-> 0, fit |-> FALSE]

TypeOK ==
  /\ blocks \in [1..Regions -> Seq(Memory)]
  /\ size \in [Memory -> 0..(SizeModulus - 1)]
  /\ used \subseteq Memory
  /\ freeBase \in [1..Regions -> Nat]
  /\ lock \in Cpu \cup {None}
  /\ pc \in [Cpu -> Label]
  /\ my \in [Cpu -> Locals]
  /\ granted \subseteq [at : Memory, len : Request]
  /\ room \in [Memory -> 0..(SizeModulus - 1)]
  /\ loose \in BOOLEAN

Init ==
  /\ blocks = [r \in 1..Regions |-> <<>>]
  /\ size = [a \in Memory |-> 0]
  /\ used = {}
  /\ freeBase = Base
  /\ lock = None
  /\ pc = [c \in Cpu |-> "idle"]
  /\ my = [c \in Cpu |-> NoLocals]
  /\ granted = {}
  /\ room = [a \in Memory |-> 0]
  /\ loose = FALSE

-----------------------------------------------------------------------------

\* Slip: a request is rounded down, not up.
RoundDown(n) == ((Marker + n) \div Align) * Align

\* total_size_needed
Needed(n) == ((Marker + n + Align - 1) \div Align) * Align

Free(r, i) == blocks[r][i] \notin used

\* The bytes compaction counts for the blocks i..j of a list.
Total(list, sizes, i, j) ==
  LET upto[k \in (i - 1)..j] == IF k < i THEN 0 ELSE upto[k - 1] + sizes[list[k]] + Marker
  IN  upto[j]

Counted(r, i, j) == Total(blocks[r], size, i, j)

HasRoom(r, n) == freeBase[r] + Needed(n) < Base[r] + Length[r]

\* Room, or a block or a run of free blocks large enough for n.
Fits(n) ==
  \E r \in 1..Regions :
    \/ HasRoom(r, n)
    \/ \E i, j \in 1..Len(blocks[r]) :
         /\ i <= j /\ \A k \in i..j : Free(r, k)
         /\ Counted(r, i, j) >= Needed(n) \/ size[blocks[r][i]] >= n

At(c, label) == pc[c] = label

Goto(c, label) == pc' = [pc EXCEPT ![c] = label]

InList(c) == my[c].idx <= Len(blocks[my[c].reg])

Here(c) == blocks[my[c].reg][my[c].idx]

\* A block whose bytes do not fit between its marker and the next is in use.  Its
\* owner will write over markers: bound: no call made then is followed.
Overrun == \E g \in granted : g.len > room[g.at - Marker]

Advance(c) == my' = [my EXCEPT ![c].idx = @ + 1]

Found(c, a) ==
  /\ my' = [my EXCEPT ![c].block = a]
  /\ Goto(c, "mark")

Return(c) ==
  /\ my' = [my EXCEPT ![c] = NoLocals]
  /\ Goto(c, "idle")

-----------------------------------------------------------------------------
\* malloc

\* Slip: the lock is not waited for.
MallocUnlocked(c, n) ==
  /\ At(c, "idle") /\ ~Overrun
  /\ lock' = c
  /\ my' = [my EXCEPT ![c] = [NoLocals EXCEPT !.n = n, !.idx = 1, !.fit = Fits(n)]]
  /\ Goto(c, "find")
  /\ UNCHANGED <<blocks, size, used, freeBase, granted, history>>

Malloc(c, n) ==
  /\ At(c, "idle") /\ ~Overrun
  /\ lock = None /\ lock' = c
  /\ my' = [my EXCEPT ![c] = [NoLocals EXCEPT !.n = n, !.idx = 1, !.fit = Fits(n)]]
  /\ Goto(c, "find")
  /\ UNCHANGED <<blocks, size, used, freeBase, granted, history>>

FindPass(c) ==
  /\ At(c, "find") /\ InList(c)
  /\ Here(c) \in used \/ size[Here(c)] < my[c].n
  /\ Advance(c)
  /\ UNCHANGED <<blocks, size, used, freeBase, lock, pc, granted, history>>

\* Slip: any free block will do.
FindAny(c) ==
  /\ At(c, "find") /\ InList(c)
  /\ Here(c) \notin used
  /\ Found(c, Here(c))
  /\ UNCHANGED <<blocks, size, used, freeBase, lock, granted, history>>

FindHit(c) ==
  /\ At(c, "find") /\ InList(c)
  /\ Here(c) \notin used /\ size[Here(c)] >= my[c].n
  /\ Found(c, Here(c))
  /\ UNCHANGED <<blocks, size, used, freeBase, lock, granted, history>>

\* Slip: the search for a run begins again behind the last region.
NextRegionStuck(c) ==
  /\ pc[c] \in {"find", "skip"} /\ ~InList(c)
  /\ my' = [my EXCEPT ![c].reg = IF @ < Regions THEN @ + 1 ELSE 1, ![c].idx = 1]
  /\ pc' = IF At(c, "find") /\ my[c].reg = Regions THEN [pc EXCEPT ![c] = "extend"] ELSE pc
  /\ UNCHANGED <<blocks, size, used, freeBase, lock, granted, history>>

\* Behind the last region the search goes on at the end of the lists, and
\* compaction gives up: malloc will return NULL.
NextRegion(c) ==
  /\ pc[c] \in {"find", "skip"} /\ ~InList(c)
  /\ IF my[c].reg < Regions
     THEN /\ my' = [my EXCEPT ![c].reg = @ + 1, ![c].idx = 1]
          /\ UNCHANGED pc
     ELSE /\ Goto(c, IF At(c, "find") THEN "extend" ELSE "mark")
          /\ UNCHANGED my
  /\ UNCHANGED <<blocks, size, used, freeBase, lock, granted, history>>

\* allocate_block: nothing it reads or writes is touched by a free.
Extend(c) ==
  LET n == my[c].n IN
  /\ At(c, "extend")
  /\ \E r \in 1..Regions :
       /\ HasRoom(r, n)
       /\ \A s \in 1..(r - 1) : ~HasRoom(s, n)
       /\ blocks' = [blocks EXCEPT ![r] = Append(@, freeBase[r])]
       /\ size' = [size EXCEPT ![freeBase[r]] = n]
       /\ room' = [room EXCEPT ![freeBase[r]] = n]
       /\ used' = used \cup {freeBase[r]}
       /\ freeBase' = [freeBase EXCEPT ![r] = @ + Needed(n)]
       /\ Found(c, freeBase[r])
  /\ UNCHANGED <<lock, granted, loose>>

NoRoom(c) ==
  /\ At(c, "extend")
  /\ \A r \in 1..Regions : ~HasRoom(r, my[c].n)
  /\ my' = [my EXCEPT ![c].reg = 1, ![c].idx = 1]
  /\ Goto(c, "skip")
  /\ UNCHANGED <<blocks, size, used, freeBase, lock, granted, history>>

SkipUsed(c) ==
  /\ At(c, "skip") /\ InList(c) /\ Here(c) \in used
  /\ Advance(c)
  /\ UNCHANGED <<blocks, size, used, freeBase, lock, pc, granted, history>>

StartRun(c) ==
  /\ At(c, "skip") /\ InList(c) /\ Here(c) \notin used
  /\ my' = [my EXCEPT ![c].start = my[c].idx, ![c].total = 0]
  /\ Goto(c, "run")
  /\ UNCHANGED <<blocks, size, used, freeBase, lock, granted, history>>

Enough(c) == my[c].total >= Needed(my[c].n)

CountBlock(c) ==
  my' = [my EXCEPT ![c].total = @ + size[Here(c)] + Marker, ![c].idx = @ + 1]

\* Slip: used blocks are merged like free ones.
RunOver(c) ==
  /\ At(c, "run") /\ InList(c) /\ ~Enough(c)
  /\ CountBlock(c)
  /\ UNCHANGED <<blocks, size, used, freeBase, lock, pc, granted, history>>

Run(c) ==
  /\ At(c, "run") /\ InList(c) /\ Here(c) \notin used /\ ~Enough(c)
  /\ CountBlock(c)
  /\ UNCHANGED <<blocks, size, used, freeBase, lock, pc, granted, history>>

RunTooShort(c) ==
  /\ At(c, "run") /\ ~Enough(c)
  /\ InList(c) => Here(c) \in used
  /\ Goto(c, "skip")
  /\ UNCHANGED <<blocks, size, used, freeBase, lock, my, granted, history>>

\* The size of a block from `first` up to `end`.  Where the list ends, `end` is a
\* null pointer, and the difference is cut to the bits there are.  What the block
\* has room for ends where the list's memory does.
Span(first, end) == (end - first - Marker) % SizeModulus

\* The blocks of the run become one, and the list skips the others.
Merge(c) ==
  LET r == my[c].reg
      first == blocks[r][my[c].start]
  IN
  /\ At(c, "run") /\ Enough(c)
  /\ size' = [size EXCEPT ![first] = Span(first, IF InList(c) THEN Here(c) ELSE 0)]
  /\ room' = [room EXCEPT ![first] = Span(first, IF InList(c) THEN Here(c) ELSE freeBase[r])]
  /\ used' = used \cup {first}
  /\ blocks' = [blocks EXCEPT ![r] = SubSeq(@, 1, my[c].start)
                                     \o SubSeq(@, my[c].idx, Len(@))]
  /\ Found(c, first)
  /\ UNCHANGED <<freeBase, lock, granted, loose>>

Granted(c) ==
  IF my[c].block = None THEN {} ELSE {[at |-> my[c].block + Marker, len |-> my[c].n]}

\* Slip: the block is handed out without its USED bit.
MarkNot(c) ==
  /\ At(c, "mark")
  /\ granted' = granted \cup Granted(c)
  /\ lock' = None /\ Return(c)
  /\ UNCHANGED <<blocks, size, used, freeBase, history>>

\* Without a block the USED bit is set at address 0, which the kernel's low map
\* has for memory outside every region.
Mark(c) ==
  /\ At(c, "mark")
  /\ used' = used \cup ({my[c].block} \ {None})
  /\ granted' = granted \cup Granted(c)
  /\ lock' = None /\ Return(c)
  /\ UNCHANGED <<blocks, size, freeBase, history>>

-----------------------------------------------------------------------------
\* free, which any CPU may call for any block.

FreeRead(c, g) ==
  LET a == g.at - Marker IN
  /\ At(c, "idle") /\ g \in granted /\ ~Overrun
  /\ granted' = granted \ {g}
  /\ IF a \in used
     THEN /\ my' = [my EXCEPT ![c].block = a, ![c].saw = size[a]]
          /\ Goto(c, "free")
     ELSE UNCHANGED <<my, pc, history>>
  /\ UNCHANGED <<blocks, size, used, freeBase, lock, history>>

FreeWrite(c) ==
  /\ At(c, "free")
  /\ size' = [size EXCEPT ![my[c].block] = my[c].saw]
  /\ used' = used \ {my[c].block}
  /\ loose' = (loose \/ my[c].saw # room[my[c].block])
  /\ Return(c)
  /\ UNCHANGED <<blocks, freeBase, lock, granted, room>>

-----------------------------------------------------------------------------

Step(c) ==
  \/ FindPass(c) \/ FindHit(c) \/ NextRegion(c) \/ Extend(c) \/ NoRoom(c)
  \/ SkipUsed(c) \/ StartRun(c) \/ Run(c) \/ RunTooShort(c) \/ Merge(c) \/ Mark(c)
  \/ FreeWrite(c)

Next ==
  \E c \in Cpu :
    \/ \E n \in Request : Malloc(c, n)
    \/ \E g \in granted : FreeRead(c, g)
    \/ Step(c)

Spec == Init /\ [][Next]_vars

\* A call that has started goes on: the CPU has its interrupts masked.
FairSpec == Spec /\ \A c \in Cpu : WF_vars(Step(c))

-----------------------------------------------------------------------------
\* Properties

\* The first byte behind the block i of r's list.
EndOf(r, i) == IF i < Len(blocks[r]) THEN blocks[r][i + 1] ELSE freeBase[r]

\* The blocks of a region lie one behind the other between its base and what it
\* has given out, each within its place, whatever is merged while blocks are being
\* freed ("start->next = end", line 282).  Their recorded sizes say so, but for a
\* run that was merged up to the end of its list: its size was computed from a
\* null pointer.
BlocksTile ==
  \A r \in 1..Regions :
    /\ freeBase[r] <= Base[r] + Length[r]
    /\ blocks[r] # <<>> => blocks[r][1] = Base[r]
    /\ \A i \in 1..Len(blocks[r]) :
         LET a == blocks[r][i] IN
         /\ a + Marker + room[a] <= EndOf(r, i)
         /\ size[a] \in {room[a], Span(a, 0)}

\* The block malloc has found is nobody's: it is not in an owner's hands, and no
\* other CPU is about to write its flags.
FoundIsNobodys ==
  \A c \in Cpu : lock = c /\ my[c].block # None =>
    /\ \A g \in granted : g.at # my[c].block + Marker
    /\ \A d \in Cpu \ {c} : my[d].block # my[c].block

\* malloc returns NULL only if there was nothing it could have given when it took
\* the lock: no free block, room or run is missed because of frees on other CPUs.
NullOnlyWhenFull ==
  [][\A c \in Cpu : At(c, "mark") /\ my[c].block = None /\ Mark(c) => ~my[c].fit]_vars

\* malloc gives the lock back, whatever is freed under its walk.
MallocReturns == \A c \in Cpu : lock = c ~> lock # c

Blocks == INSTANCE Allocator

\* Until a block with a size from a null pointer has been freed, what malloc hands
\* out is n bytes of the heap's memory that no other owner has, whatever is merged
\* and freed at the same time, such blocks themselves included.
AllocatorUntilLoose == Blocks!Init /\ [][~loose => Blocks!Next]_granted

\* "allocate a block of memory >= n bytes" (memlib.h:66): of the heap's memory,
\* and for one owner at a time.
ImplementsAllocator == Blocks!Spec
=============================================================================
