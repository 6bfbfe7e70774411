---------------------------- MODULE AddressSpace ----------------------------
(***************************************************************************)
(* Virtual memory: kernel/src/managers/virtual-memory-manager.c,           *)
(* arch/aarch64/src/managers/vmm_arch.c, the translation tables of         *)
(* arch/aarch64/src/mmu/mmu.c and the page pools of mmu/page-pool.c.       *)
(*                                                                         *)
(* Threads on several CPUs ask for memory and devices.  The kernel looks   *)
(* for a free range under the lock of the process's table, lets the lock   *)
(* go, takes it again and maps the range page by page, with pages and      *)
(* tables from pools that all processes share.                             *)
(*                                                                         *)
(* Addresses, virtual and physical, count pages of 4 KB.                   *)
(***************************************************************************)
EXTENDS Integers, FiniteSets

CONSTANTS Process, Thread,
          Owner,        \* Owner[t]: the process of t
          Block,        \* a 2 MB page, in pages of 4 KB
          Huge,         \* what one L1 entry spans, 1 GB
          Image,        \* the pages of an image, linked at address 0, and the first stack
          BootFrame,    \* BootFrame[p]: where p's first tables and image lie
          Pool4K, EndPool4K,    \* PP4K after boot: its next page and its end
          Pool2M, EndPool2M,    \* PP2M
          Zones,        \* PLATFORM_DATA.restricted_ranges, as far as they are counted
          MemoryRequest,        \* MemoryRequest[t]: pages asked for, 2 MB and 4 KB ones
          DeviceRequest,        \* DeviceRequest[t]: those of devices, with the address
          None          \* NULL

\* What creating a process takes from PP4K, in this order: the L1 table, the first
\* page, the L2 and the L3 table to map it, the other pages.
BootFrames(p) == BootFrame[p]..BootFrame[p] + Image + 2

\* Slip: only the ends are compared.
RestrictedEnds(pa, len) ==
  \E z \in Zones : LET end == pa + len IN
    \/ pa >= z.base /\ pa < z.end
    \/ end >= z.base /\ end < z.end

\* device.c, 15-35: the two ends, and the range that encloses a restricted one.
Restricted(pa, len) ==
  \E z \in Zones : LET end == pa + len IN
    \/ pa >= z.base /\ pa < z.end
    \/ end >= z.base /\ end < z.end
    \/ pa <= z.base /\ end >= z.end

Len(r) == r.large * Block + r.small

ASSUME AddressSpaceAssumption ==
  /\ Owner \in [Thread -> Process]
  /\ {Block, Huge, Image, Pool4K, EndPool4K, Pool2M, EndPool2M} \subseteq Nat
  /\ 0 < Image /\ Image <= Block /\ Block <= Huge
  /\ BootFrame \in [Process -> Nat \ {0}]
  /\ \A p \in Process : BootFrame[p] + Image + 2 < Pool4K
  /\ \A p, q \in Process : p # q => BootFrames(p) \cap BootFrames(q) = {}
  /\ Pool4K <= EndPool4K /\ EndPool4K <= Pool2M
  /\ Zones \subseteq [base : Nat, end : Nat]
  /\ MemoryRequest \in [Thread -> SUBSET [large : Nat, small : Nat, pa : {None}]]
  /\ DeviceRequest \in [Thread -> SUBSET [large : Nat, small : Nat, pa : Nat \ {0}]]
  \* Bound: requests stay below 1 GB, and the pages of 1 GB are left out.
  /\ \A t \in Thread : \A r \in MemoryRequest[t] \cup DeviceRequest[t] :
       Len(r) > 0 /\ r.large * Block < Huge /\ r.small <= Block
  /\ None \notin Nat \cup Thread

VARIABLES l1,       \* l1[p]: L1 index -> the frame of an L2 table
          l2,       \* l2[p]: 2 MB slot -> the frame of a block or of an L3 table
          l3,       \* l3[p]: page -> the frame it is mapped to
          devices,  \* history: the entries <<p, level, index>> that are of devices
          next4K,   \* PP4K->next_page
          next2M,   \* PP2M->next_page
          lock,     \* lock[p]: the thread that holds the table's lock, or None
          pc,       \* pc[t]: where t's call is
          req,      \* req[t]: what it asks for
          addr,     \* addr[t]: the address searched, then the next to be mapped
          base,     \* base[t]: the range found
          left,     \* left[t]: the pages still to be mapped
          frame,    \* frame[t]: the page about to be mapped
          regions   \* regions[p]: the ranges that calls have returned

tables == <<l1, l2, l3, devices>>
pools == <<next4K, next2M>>
call == <<req, addr, base, left, frame>>
vmmVars == <<tables, pools, lock, pc, call, regions>>

Pc == {"user", "find", "search", "map", "page", "enter", "stuck"}
Request == [large : Nat, small : Nat, pa : Nat \cup {None}]
Nothing == [large |-> 0, small |-> 0, pa |-> None]

\* The kinds of L2 entries: TBL_TYPE_BLOCK_L12 and TBL_TYPE_TABLE_DESC.
Entry == [block : BOOLEAN, frame : Nat]

TypeOK ==
  /\ \A p \in Process :
       /\ DOMAIN l1[p] \subseteq Nat /\ \A i \in DOMAIN l1[p] : l1[p][i] \in Nat
       /\ DOMAIN l2[p] \subseteq Nat /\ \A s \in DOMAIN l2[p] : l2[p][s] \in Entry
       /\ DOMAIN l3[p] \subseteq Nat /\ \A a \in DOMAIN l3[p] : l3[p][a] \in Nat
  /\ devices \subseteq Process \X {2, 3} \X Nat
  /\ next4K \in Nat /\ next2M \in Nat
  /\ lock \in [Process -> Thread \cup {None}]
  /\ pc \in [Thread -> Pc]
  /\ req \in [Thread -> Request]
  /\ addr \in [Thread -> Nat] /\ base \in [Thread -> Nat]
  /\ left \in [Thread -> [large : Nat, small : Nat]]
  /\ frame \in [Thread -> Nat \cup {None}]
  /\ \A p \in Process : regions[p] \subseteq [base : Nat, req : Request]

Init ==
  /\ l1 = [p \in Process |-> [i \in {0} |-> BootFrame[p] + 2]]
  /\ l2 = [p \in Process |-> [s \in {0} |-> [block |-> FALSE, frame |-> BootFrame[p] + 3]]]
  /\ l3 = [p \in Process |-> [a \in 0..Image - 1 |-> IF a = 0 THEN BootFrame[p] + 1
                                                          ELSE BootFrame[p] + 3 + a]]
  /\ devices = {}
  /\ next4K = Pool4K /\ next2M = Pool2M
  /\ lock = [p \in Process |-> None]
  /\ pc = [t \in Thread |-> "user"]
  /\ req = [t \in Thread |-> Nothing]
  /\ addr = [t \in Thread |-> 0]
  /\ base = [t \in Thread |-> 0]
  /\ left = [t \in Thread |-> [large |-> 0, small |-> 0]]
  /\ frame = [t \in Thread |-> None]
  /\ regions = [p \in Process |-> {}]

-----------------------------------------------------------------------------
\* aarch64_mmu_v2p.

Slot(a) == a \div Block

V2P(p, a) ==
  IF Slot(a) \notin DOMAIN l2[p] THEN None
  ELSE IF l2[p][Slot(a)].block THEN l2[p][Slot(a)].frame + (a % Block)
  ELSE IF a \in DOMAIN l3[p] THEN l3[p][a] ELSE None

Free(p, a) == V2P(p, a) = None

Mapped(p) == DOMAIN l3[p] \cup
  UNION {s * Block..s * Block + Block - 1 : s \in {i \in DOMAIN l2[p] : l2[p][i].block}}

-----------------------------------------------------------------------------
\* vmm_arch_get_free_va_range.

Goto(t, from, to) ==
  /\ pc[t] = from
  /\ pc' = [pc EXCEPT ![t] = to]

\* The memory call, the stack of a new thread, the stack of an interrupt handler.
MemoryAlloc(t, r) ==
  /\ r \in MemoryRequest[t]
  /\ Goto(t, "user", "find")
  /\ req' = [req EXCEPT ![t] = r]
  /\ UNCHANGED <<tables, pools, lock, addr, base, left, frame, regions>>

\* A device call.  One for a restricted range is refused and changes nothing.
DeviceAlloc(t, r) ==
  /\ r \in DeviceRequest[t] /\ ~Restricted(r.pa, Len(r))
  /\ Goto(t, "user", "find")
  /\ req' = [req EXCEPT ![t] = r]
  /\ frame' = [frame EXCEPT ![t] = r.pa]
  /\ UNCHANGED <<tables, pools, lock, addr, base, left, regions>>

Acquire(t) ==
  /\ lock[Owner[t]] = None
  /\ lock' = [lock EXCEPT ![Owner[t]] = t]

Release(t) == lock' = [lock EXCEPT ![Owner[t]] = None]

Find(t) ==
  /\ Acquire(t)
  /\ Goto(t, "find", "search")
  /\ addr' = [addr EXCEPT ![t] = 0]
  /\ UNCHANGED <<tables, pools, req, base, left, frame, regions>>

\* Used pages are skipped in steps of the smallest page of the request, up to the
\* first address that is free.
Skip(t) ==
  LET p == Owner[t]
      at(i) == addr[t] + i * (IF req[t].small > 0 THEN 1 ELSE Block)
  IN {at(i) : i \in {n \in 0..Cardinality(Mapped(p)) :
                       Free(p, at(n)) /\ \A j \in 0..n - 1 : ~Free(p, at(j))}}

\* The addresses looked up from a on: every 4 KB page, then one for each 2 MB.
Probed(r, a) == {a + i : i \in 0..r.small - 1}
                  \cup {a + r.small + i * Block : i \in 0..r.large - 1}

Used(t, a) == {y \in Probed(req[t], a) : ~Free(Owner[t], y)}

\* The first of them that is used is where the search resumes.
Retry(t) ==
  /\ pc[t] = "search"
  /\ \E a \in Skip(t) : \E y \in Used(t, a) :
       /\ \A z \in Used(t, a) : y <= z
       /\ addr' = [addr EXCEPT ![t] = y]
  /\ UNCHANGED <<tables, pools, lock, pc, req, base, left, frame, regions>>

Found(t) ==
  /\ Goto(t, "search", "map")
  /\ \E a \in Skip(t) : Used(t, a) = {} /\ base' = [base EXCEPT ![t] = a]
  /\ Release(t)
  /\ UNCHANGED <<tables, pools, req, addr, left, frame, regions>>

-----------------------------------------------------------------------------
\* vmm_arch_alloc_map, and aarch64_mmu_map_space for devices.

Map(t) ==
  /\ Acquire(t)
  /\ Goto(t, "map", "page")
  /\ addr' = [addr EXCEPT ![t] = base[t]]
  /\ left' = [left EXCEPT ![t] = [large |-> req[t].large, small |-> req[t].small]]
  /\ UNCHANGED <<tables, pools, req, base, frame, regions>>

IsDevice(t) == req[t].pa # None

IsLarge(t) == left[t].large > 0

\* page_pool_alloc, for memory.  A device's page is where the last one ended.
TakeDevice(t) ==
  /\ IsDevice(t) /\ (IsLarge(t) \/ left[t].small > 0)
  /\ Goto(t, "page", "enter")
  /\ UNCHANGED <<tables, pools, lock, call, regions>>

\* Slip: the pool of blocks goes on by a small page.
TakeLargeShort(t) ==
  /\ ~IsDevice(t) /\ IsLarge(t) /\ next2M < EndPool2M
  /\ Goto(t, "page", "enter")
  /\ frame' = [frame EXCEPT ![t] = next2M]
  /\ next2M' = next2M + 1
  /\ UNCHANGED <<tables, next4K, lock, req, addr, base, left, regions>>

TakeLarge(t) ==
  /\ ~IsDevice(t) /\ IsLarge(t) /\ next2M < EndPool2M
  /\ Goto(t, "page", "enter")
  /\ frame' = [frame EXCEPT ![t] = next2M]
  /\ next2M' = next2M + Block
  /\ UNCHANGED <<tables, next4K, lock, req, addr, base, left, regions>>

TakeSmall(t) ==
  /\ ~IsDevice(t) /\ ~IsLarge(t) /\ left[t].small > 0 /\ next4K < EndPool4K
  /\ Goto(t, "page", "enter")
  /\ frame' = [frame EXCEPT ![t] = next4K]
  /\ next4K' = next4K + 1
  /\ UNCHANGED <<tables, next2M, lock, req, addr, base, left, regions>>

\* An empty pool ends in while(1), with the lock held and interrupts masked.
NoPage(t) ==
  /\ ~IsDevice(t)
  /\ \/ IsLarge(t) /\ next2M >= EndPool2M
     \/ ~IsLarge(t) /\ left[t].small > 0 /\ next4K >= EndPool4K
  /\ Goto(t, "page", "stuck")
  /\ UNCHANGED <<tables, pools, lock, call, regions>>

HasL1(t) == addr[t] \div Huge \in DOMAIN l1[Owner[t]]
HasL2(t) == Slot(addr[t]) \in DOMAIN l2[Owner[t]]

Extend(f, p, x, y) == [f EXCEPT ![p] = [i \in DOMAIN @ \cup {x} |-> IF i = x THEN y ELSE @[i]]]

NewL2Table(t) ==
  /\ pc[t] = "enter" /\ ~HasL1(t) /\ next4K < EndPool4K
  /\ l1' = Extend(l1, Owner[t], addr[t] \div Huge, next4K)
  /\ next4K' = next4K + 1
  /\ UNCHANGED <<l2, l3, devices, next2M, lock, pc, call, regions>>

NewL3Table(t) ==
  /\ pc[t] = "enter" /\ HasL1(t) /\ ~IsLarge(t) /\ ~HasL2(t) /\ next4K < EndPool4K
  /\ l2' = Extend(l2, Owner[t], Slot(addr[t]), [block |-> FALSE, frame |-> next4K])
  /\ next4K' = next4K + 1
  /\ UNCHANGED <<l1, l3, devices, next2M, lock, pc, call, regions>>

NoTable(t) ==
  /\ ~HasL1(t) \/ (~IsLarge(t) /\ ~HasL2(t))
  /\ next4K >= EndPool4K
  /\ Goto(t, "enter", "stuck")
  /\ UNCHANGED <<tables, pools, lock, call, regions>>

\* Slip: the page of a device is mapped again.
NextPageSameFrame(t) ==
  /\ Goto(t, "enter", "page")
  /\ addr' = [addr EXCEPT ![t] = @ + IF IsLarge(t) THEN Block ELSE 1]
  /\ left' = IF IsLarge(t) THEN [left EXCEPT ![t].large = @ - 1]
                           ELSE [left EXCEPT ![t].small = @ - 1]
  /\ UNCHANGED <<l1, pools, lock, req, base, frame, regions>>

\* The page is done: on to the next.
NextPage(t) ==
  LET step == IF IsLarge(t) THEN Block ELSE 1 IN
  /\ Goto(t, "enter", "page")
  /\ addr' = [addr EXCEPT ![t] = @ + step]
  /\ left' = IF IsLarge(t) THEN [left EXCEPT ![t].large = @ - 1]
                           ELSE [left EXCEPT ![t].small = @ - 1]
  /\ frame' = [frame EXCEPT ![t] = IF IsDevice(t) THEN @ + step ELSE None]
  /\ UNCHANGED <<l1, pools, lock, req, base, regions>>

\* An entry is made: one of a device is remembered.
Made(t, level, i) ==
  devices' = devices \cup (IF IsDevice(t) THEN {<<Owner[t], level, i>>} ELSE {})

\* Slip: an entry that is taken is overwritten.
MapLargeOver(t) ==
  /\ HasL1(t) /\ IsLarge(t)
  /\ l2' = Extend(l2, Owner[t], Slot(addr[t]), [block |-> TRUE, frame |-> frame[t]])
  /\ Made(t, 2, Slot(addr[t]))
  /\ NextPage(t)
  /\ UNCHANGED l3

\* aarch64_mmu_map_2M
MapLarge(t) ==
  /\ HasL1(t) /\ IsLarge(t) /\ ~HasL2(t)
  /\ l2' = Extend(l2, Owner[t], Slot(addr[t]), [block |-> TRUE, frame |-> frame[t]])
  /\ Made(t, 2, Slot(addr[t]))
  /\ NextPage(t)
  /\ UNCHANGED l3

UnderBlock(t) == HasL2(t) /\ l2[Owner[t]][Slot(addr[t])].block

\* Slip: an entry that is taken is overwritten.
MapSmallOver(t) ==
  /\ ~IsLarge(t) /\ HasL2(t) /\ ~UnderBlock(t)
  /\ l3' = Extend(l3, Owner[t], addr[t], frame[t])
  /\ Made(t, 3, addr[t])
  /\ NextPage(t)
  /\ UNCHANGED l2

\* aarch64_mmu_map_4K
MapSmall(t) ==
  /\ ~IsLarge(t) /\ HasL2(t) /\ ~UnderBlock(t) /\ addr[t] \notin DOMAIN l3[Owner[t]]
  /\ l3' = Extend(l3, Owner[t], addr[t], frame[t])
  /\ Made(t, 3, addr[t])
  /\ NextPage(t)
  /\ UNCHANGED l2

\* A block has no next table: the entry is read and written at address 0.  What lies
\* there decides whether the page counts as mapped or as taken.
MapThroughNull(t) ==
  /\ ~IsLarge(t) /\ UnderBlock(t)
  /\ NextPage(t)
  /\ UNCHANGED <<l2, l3, devices>>

\* An entry that is taken ends in while(1) as well.
Taken(t) ==
  /\ IF IsLarge(t) THEN HasL2(t)
     ELSE UnderBlock(t) \/ (HasL2(t) /\ addr[t] \in DOMAIN l3[Owner[t]])
  /\ Goto(t, "enter", "stuck")
  /\ UNCHANGED <<tables, pools, lock, call, regions>>

Return(t) ==
  /\ left[t] = [large |-> 0, small |-> 0]
  /\ Goto(t, "page", "user")
  /\ Release(t)
  /\ regions' = [regions EXCEPT ![Owner[t]] = @ \cup {[base |-> base[t], req |-> req[t]]}]
  /\ req' = [req EXCEPT ![t] = Nothing]
  /\ addr' = [addr EXCEPT ![t] = 0]
  /\ base' = [base EXCEPT ![t] = 0]
  /\ frame' = [frame EXCEPT ![t] = None]
  /\ UNCHANGED <<tables, pools, left>>

-----------------------------------------------------------------------------

Enter(t) ==
  \/ NewL2Table(t) \/ NewL3Table(t) \/ NoTable(t)
  \/ MapLarge(t) \/ MapSmall(t) \/ MapThroughNull(t) \/ Taken(t)

Step(t) ==
  \/ Find(t) \/ Retry(t) \/ Found(t) \/ Map(t)
  \/ TakeDevice(t) \/ TakeLarge(t) \/ TakeSmall(t) \/ NoPage(t)
  \/ Enter(t) \/ Return(t)

Next == \E t \in Thread :
  \/ \E r \in MemoryRequest[t] : MemoryAlloc(t, r)
  \/ \E r \in DeviceRequest[t] : DeviceAlloc(t, r)
  \/ Step(t)

Spec == Init /\ [][Next]_vmmVars

-----------------------------------------------------------------------------
\* Properties

Pages(x) == x.base..x.base + Len(x.req) - 1

\* The frames of p's tables: the root, those of L1 entries, those of L2 entries.
TableFrames(p) ==
  {BootFrame[p]} \cup {l1[p][i] : i \in DOMAIN l1[p]}
    \cup {l2[p][s].frame : s \in {i \in DOMAIN l2[p] : ~l2[p][i].block}}

InBlock(p, a) == Slot(a) \in DOMAIN l2[p] /\ l2[p][Slot(a)].block

\* The entry that maps a page is a device's.
ForDevice(p, a) == (IF InBlock(p, a) THEN <<p, 2, Slot(a)>> ELSE <<p, 3, a>>) \in devices

\* The pages of the image and of the memory that calls have mapped.
MemoryPages(p) == {a \in Mapped(p) : ~ForDevice(p, a)}

\* Memory has one user: no frame is mapped twice for memory, in one process or in two,
\* and none that is holds a translation table.  (device.c, 15-35, compares with no more
\* than the ranges that the platform counts; where it counts none, a device may well be
\* mapped onto RAM.)
FramesExclusive ==
  \A p, q \in Process : \A a \in MemoryPages(p) :
    /\ \A b \in MemoryPages(q) : V2P(p, a) = V2P(q, b) => p = q /\ a = b
    /\ V2P(p, a) \notin TableFrames(q)

\* What device.c compares keeps every page of a device out of the ranges it counts, to
\* the last page of the call.
RestrictedUnmapped ==
  \A p \in Process : \A a \in Mapped(p) : ForDevice(p, a) =>
    \A z \in Zones : ~(z.base <= V2P(p, a) /\ V2P(p, a) < z.end)

\* Of the pages from the first to before the last of a call for r, those the call has
\* an entry of its own for.  The search of one call may have seen a slot free that the
\* other has mapped as a block since: a small page there is MapThroughNull's.
Own(p, r, from, to) ==
  {a \in from..to - 1 : a < from + r.large * Block \/ ~InBlock(p, a)}

OwnPages(p, x) == Own(p, x.req, x.base, x.base + Len(x.req))

\* Calls never map what another has mapped, though the range is found under one holding
\* of the lock and mapped under another: regions overlap in no page that is their own,
\* neither with each other nor with what a call at work has mapped so far.
RegionsDisjoint ==
  \A p \in Process : \A x \in regions[p] :
    /\ \A y \in regions[p] : x # y => OwnPages(p, x) \cap OwnPages(p, y) = {}
    /\ \A t \in Thread : Owner[t] = p /\ pc[t] \in {"page", "enter"} =>
         OwnPages(p, x) \cap Own(p, req[t], base[t], addr[t]) = {}

\* What the pools have given away since boot.
Given(large) == IF large THEN Pool2M..next2M - 1 ELSE Pool4K..next4K - 1

\* Where the page a of a call for r, mapped from b on, must lead: a device's to its place
\* of the device, one of memory to a frame from the pool of its size.
Leads(p, r, b, a) ==
  IF r.pa # None THEN V2P(p, a) = r.pa + (a - b)
  ELSE ~ForDevice(p, a) /\ V2P(p, a) \in Given(a < b + r.large * Block)

\* Every page of a region is mapped, and its own pages lead where they must: to the
\* device, or to frames of the pools, which FramesExclusive says are no one else's.
RegionBacked ==
  \A p \in Process : \A x \in regions[p] :
    /\ \A a \in Pages(x) : V2P(p, a) # None
    /\ \A a \in OwnPages(p, x) : Leads(p, x.req, x.base, a)

\* A mapping, once made, stays: no call remaps a page that another uses.
MappingsStay ==
  [][\A p \in Process : \A a \in Mapped(p) : V2P(p, a)' = V2P(p, a)]_vmmVars

\* interfaces/userspace/memory.h:14 says of the memory call: "0 if OK or != on
\* error/issue".  So no call ends in while(1) while there are pages to serve it with.
StuckOnlyWhenDry ==
  \A t \in Thread : pc[t] = "stuck" => next4K >= EndPool4K \/ next2M >= EndPool2M
=============================================================================
