------------------------- MODULE AddressSpaceProofs -------------------------
(* Any processes, requests and pools: a mapping that was made stays as it is, *)
(* a frame has one user, the regions that calls return are backed page by page *)
(* and share no page that is their own.                                        *)
EXTENDS AddressSpace, TLAPS

\* Every process has its tables.
Shape ==
  /\ l1 = [p \in Process |-> l1[p]]
  /\ l2 = [p \in Process |-> l2[p]]
  /\ l3 = [p \in Process |-> l3[p]]
  /\ regions = [p \in Process |-> regions[p]]

\* A call that is about to map a page has one, and a call for a device has its
\* address from the start.
CallInv ==
  \A t \in Thread :
    /\ pc[t] = "enter" => frame[t] \in Nat /\ (left[t].large > 0 \/ left[t].small > 0)
    /\ pc[t] # "user" /\ req[t].pa # None => frame[t] \in Nat

TypeInv == TypeOK /\ Shape /\ CallInv

\* A page has an L3 entry only under an L2 entry that names a table.
Nested ==
  \A p \in Process : \A a \in DOMAIN l3[p] :
    Slot(a) \in DOMAIN l2[p] /\ ~l2[p][Slot(a)].block

TInv == TypeInv /\ Nested

LEMMA BlockPositive == Block \in Nat \ {0}
BY AddressSpaceAssumption

LEMMA NextMultiple ==
  ASSUME NEW b \in Nat \ {0}, NEW x \in Int, NEW y \in Int, x < y
  PROVE  x * b + b <= y * b
<1>1. PICK d \in Nat : y = x + 1 + d
  <2>1. y - x - 1 \in Nat /\ y = x + 1 + (y - x - 1)
    OBVIOUS
  <2> QED
    BY <2>1
<1>2. y * b = x * b + b + d * b
  BY <1>1
<1>3. d * b >= 0 /\ x * b \in Int /\ d * b \in Int
  BY <1>1
<1> QED
  BY <1>2, <1>3

\* The pages of a block are those of its slot.
LEMMA SlotOf ==
  ASSUME NEW s \in Int, NEW a \in s * Block..s * Block + Block - 1
  PROVE  Slot(a) = s
<1> DEFINE q == a \div Block
           m == q * Block
           n == s * Block
<1>1. Block \in Nat \ {0} /\ n \in Int
  BY BlockPositive
<1>2. a \in Int /\ n <= a /\ a < n + Block
  BY <1>1
<1>3. q \in Int /\ m \in Int /\ m <= a /\ a < m + Block
  <2>1. q \in Int /\ a = Block * q + (a % Block) /\ a % Block \in 0..(Block - 1)
    BY <1>1, <1>2
  <2>2. Block * q = m /\ m \in Int
    BY <1>1, <2>1
  <2> HIDE DEF q, m
  <2> QED
    BY <1>1, <1>2, <2>1, <2>2
<1>4. ~(q < s)
  <2> SUFFICES ASSUME q < s PROVE FALSE
    OBVIOUS
  <2>1. m + Block <= n
    BY <1>1, <1>3, NextMultiple
  <2> HIDE DEF m, n, q
  <2> QED
    BY <1>1, <1>2, <1>3, <2>1
<1>5. ~(s < q)
  <2> SUFFICES ASSUME s < q PROVE FALSE
    OBVIOUS
  <2>1. n + Block <= m
    BY <1>1, <1>3, NextMultiple
  <2> HIDE DEF m, n, q
  <2> QED
    BY <1>1, <1>2, <1>3, <2>1
<1> HIDE DEF q
<1>6. q = s
  BY <1>3, <1>4, <1>5
<1> QED
  BY <1>6 DEF Slot, q

LEMMA ExtendIs ==
  ASSUME NEW f, f = [q \in Process |-> f[q]], NEW p \in Process, NEW x, NEW y,
         NEW g, g = Extend(f, p, x, y)
  PROVE  /\ g = [q \in Process |-> g[q]]
         /\ \A q \in Process \ {p} : g[q] = f[q]
         /\ DOMAIN g[p] = DOMAIN f[p] \cup {x}
         /\ g[p][x] = y
         /\ \A i \in DOMAIN f[p] \ {x} : g[p][i] = f[p][i]
<1> DEFINE h == [i \in DOMAIN f[p] \cup {x} |-> IF i = x THEN y ELSE f[p][i]]
<1>1. g = [f EXCEPT ![p] = h]
  BY DEF Extend
<1>2. g[p] = h /\ g = [q \in Process |-> g[q]] /\ \A q \in Process \ {p} : g[q] = f[q]
  BY <1>1
<1> QED
  BY <1>2

-----------------------------------------------------------------------------
\* Types

LEMMA InitTypeInv == Init => TypeInv
<1> SUFFICES ASSUME Init PROVE TypeInv
  OBVIOUS
<1>1. {Block, Huge, Image, Pool4K, Pool2M} \subseteq Nat /\ 0 < Image
      /\ \A p \in Process : BootFrame[p] \in Nat
  BY AddressSpaceAssumption
<1>2. ASSUME NEW p \in Process
      PROVE  /\ l1[p] = [i \in {0} |-> BootFrame[p] + 2]
             /\ l2[p] = [s \in {0} |-> [block |-> FALSE, frame |-> BootFrame[p] + 3]]
             /\ l3[p] = [a \in 0..Image - 1 |-> IF a = 0 THEN BootFrame[p] + 1
                                                 ELSE BootFrame[p] + 3 + a]
             /\ regions[p] = {}
  BY DEF Init
<1>3. ASSUME NEW p \in Process
      PROVE  /\ DOMAIN l1[p] \subseteq Nat /\ \A i \in DOMAIN l1[p] : l1[p][i] \in Nat
             /\ DOMAIN l2[p] \subseteq Nat /\ \A s \in DOMAIN l2[p] : l2[p][s] \in Entry
             /\ DOMAIN l3[p] \subseteq Nat /\ \A a \in DOMAIN l3[p] : l3[p][a] \in Nat
             /\ regions[p] \subseteq [base : Nat, req : Request]
  <2>1. BootFrame[p] \in Nat
    BY <1>1
  <2>2. l1[p] = [i \in {0} |-> BootFrame[p] + 2]
    BY <1>2
  <2>3. l2[p] = [s \in {0} |-> [block |-> FALSE, frame |-> BootFrame[p] + 3]]
    BY <1>2
  <2>4. l3[p] = [a \in 0..Image - 1 |-> IF a = 0 THEN BootFrame[p] + 1
                                                ELSE BootFrame[p] + 3 + a]
    BY <1>2
  <2>5. DOMAIN l1[p] \subseteq Nat /\ \A i \in DOMAIN l1[p] : l1[p][i] \in Nat
    BY <2>1, <2>2
  <2>6. DOMAIN l2[p] \subseteq Nat /\ \A s \in DOMAIN l2[p] : l2[p][s] \in Entry
    BY <2>1, <2>3 DEF Entry
  <2>7. DOMAIN l3[p] \subseteq Nat /\ \A a \in DOMAIN l3[p] : l3[p][a] \in Nat
    BY <1>1, <2>1, <2>4, SMTT(30)
  <2> QED
    BY <1>2, <2>5, <2>6, <2>7
<1>4. Nothing \in Request
  BY DEF Nothing, Request
<1>5. /\ devices \subseteq Process \X {2, 3} \X Nat
      /\ next4K \in Nat /\ next2M \in Nat
      /\ lock \in [Process -> Thread \cup {None}]
      /\ pc \in [Thread -> Pc]
      /\ req \in [Thread -> Request]
      /\ addr \in [Thread -> Nat] /\ base \in [Thread -> Nat]
      /\ left \in [Thread -> [large : Nat, small : Nat]]
      /\ frame \in [Thread -> Nat \cup {None}]
  BY <1>1, <1>4 DEF Init, Pc
<1>6. Shape
  BY DEF Init, Shape
<1>7. CallInv
  BY DEF Init, CallInv
<1> QED
  BY <1>3, <1>5, <1>6, <1>7 DEF TypeInv, TypeOK

\* The types of the tables and the regions, apart from those of calls.
TablesOK ==
  \A p \in Process :
    /\ DOMAIN l1[p] \subseteq Nat /\ \A i \in DOMAIN l1[p] : l1[p][i] \in Nat
    /\ DOMAIN l2[p] \subseteq Nat /\ \A s \in DOMAIN l2[p] : l2[p][s] \in Entry
    /\ DOMAIN l3[p] \subseteq Nat /\ \A a \in DOMAIN l3[p] : l3[p][a] \in Nat

RegionsOK == \A p \in Process : regions[p] \subseteq [base : Nat, req : Request]

CallsOK ==
  /\ devices \subseteq Process \X {2, 3} \X Nat
  /\ next4K \in Nat /\ next2M \in Nat
  /\ lock \in [Process -> Thread \cup {None}]
  /\ pc \in [Thread -> Pc]
  /\ req \in [Thread -> Request]
  /\ addr \in [Thread -> Nat] /\ base \in [Thread -> Nat]
  /\ left \in [Thread -> [large : Nat, small : Nat]]
  /\ frame \in [Thread -> Nat \cup {None}]

LEMMA TypeParts == TypeOK <=> TablesOK /\ RegionsOK /\ CallsOK
BY DEF TypeOK, TablesOK, RegionsOK, CallsOK

LEMMA SameTables ==
  ASSUME TypeInv, UNCHANGED <<tables, regions>>, CallsOK', CallInv'
  PROVE  TypeInv'
<1>1. TablesOK' /\ RegionsOK'
  BY TypeParts DEF TypeInv, TablesOK, RegionsOK, tables
<1>2. TypeOK'
  BY <1>1 DEF TypeOK, TablesOK, RegionsOK, CallsOK
<1> QED
  BY <1>2 DEF TypeInv, Shape, tables

LEMMA Constants ==
  /\ Block \in Nat \ {0} /\ Huge \in Nat \ {0}
  /\ \A t \in Thread : Owner[t] \in Process
  /\ \A t \in Thread : MemoryRequest[t] \subseteq Request /\ DeviceRequest[t] \subseteq Request
  /\ \A t \in Thread : \A r \in MemoryRequest[t] : r.pa = None
  /\ \A t \in Thread : \A r \in DeviceRequest[t] : r.pa \in Nat
BY AddressSpaceAssumption DEF Request

LEMMA RequestIs ==
  ASSUME NEW r \in Request
  PROVE  r.large \in Nat /\ r.small \in Nat /\ r.pa \in Nat \cup {None}
BY DEF Request

\* The search goes up from where it is.
LEMMA SkipIs ==
  ASSUME CallsOK, NEW t \in Thread, NEW a \in Skip(t)
  PROVE  a \in Nat
<1>1. PICK i \in 0..Cardinality(Mapped(Owner[t])) :
        a = addr[t] + i * (IF req[t].small > 0 THEN 1 ELSE Block)
  BY DEF Skip
<1>2. i \in Nat /\ addr[t] \in Nat
  BY DEF CallsOK
<1>3. i * 1 \in Nat /\ i * Block \in Nat
  BY <1>2, Constants
<1> QED
  BY <1>1, <1>2, <1>3

LEMMA ProbedAre ==
  ASSUME NEW r \in Request, NEW a \in Nat, NEW y \in Probed(r, a)
  PROVE  y \in Nat
<1>1. r.large \in Nat /\ r.small \in Nat /\ Block \in Nat
  BY RequestIs, Constants
<1>2. CASE \E i \in 0..r.small - 1 : y = a + i
  BY <1>1, <1>2
<1>3. CASE \E i \in 0..r.large - 1 : y = a + r.small + i * Block
  <2>1. PICK i \in 0..r.large - 1 : y = a + r.small + i * Block
    BY <1>3
  <2>2. i * Block \in Nat
    BY <1>1, <2>1
  <2> QED
    BY <1>1, <2>1, <2>2
<1> QED
  BY <1>2, <1>3 DEF Probed

USE DEF Pc, Goto, call, pools, tables

LEMMA SearchType ==
  ASSUME TypeInv, NEW t \in Thread,
         \/ \E r \in MemoryRequest[t] : MemoryAlloc(t, r)
         \/ \E r \in DeviceRequest[t] : DeviceAlloc(t, r)
         \/ Find(t) \/ Retry(t) \/ Found(t) \/ Map(t)
  PROVE  TypeInv'
<1>0. CallsOK /\ CallInv
  BY TypeParts DEF TypeInv
<1>1. CASE \E r \in MemoryRequest[t] : MemoryAlloc(t, r)
  <2>1. PICK r \in Request : r.pa = None /\ MemoryAlloc(t, r)
    BY <1>1, Constants
  <2>2. CallsOK'
    BY <1>0, <2>1 DEF CallsOK, MemoryAlloc
  <2>3. CallInv'
    BY <1>0, <2>1 DEF CallsOK, CallInv, MemoryAlloc
  <2> QED
    BY <2>1, <2>2, <2>3, SameTables DEF MemoryAlloc
<1>2. CASE \E r \in DeviceRequest[t] : DeviceAlloc(t, r)
  <2>1. PICK r \in Request : r.pa \in Nat /\ DeviceAlloc(t, r)
    BY <1>2, Constants
  <2>2. CallsOK'
    BY <1>0, <2>1 DEF CallsOK, DeviceAlloc
  <2>3. CallInv'
    BY <1>0, <2>1 DEF CallsOK, CallInv, DeviceAlloc
  <2> QED
    BY <2>1, <2>2, <2>3, SameTables DEF DeviceAlloc
<1>3. CASE Find(t)
  <2>1. CallsOK'
    BY <1>0, <1>3, Constants DEF CallsOK, Find, Acquire
  <2>2. CallInv'
    BY <1>0, <1>3 DEF CallsOK, CallInv, Find
  <2> QED
    BY <1>3, <2>1, <2>2, SameTables DEF Find
<1>4. CASE Retry(t)
  <2>1. PICK y \in Nat : addr' = [addr EXCEPT ![t] = y]
    BY <1>0, <1>4, SkipIs, ProbedAre DEF Retry, Used, CallsOK
  <2>2. CallsOK'
    BY <1>0, <1>4, <2>1 DEF CallsOK, Retry
  <2>3. CallInv'
    BY <1>0, <1>4 DEF CallInv, Retry
  <2> QED
    BY <1>4, <2>2, <2>3, SameTables DEF Retry
<1>5. CASE Found(t)
  <2>1. PICK a \in Nat : base' = [base EXCEPT ![t] = a]
    BY <1>0, <1>5, SkipIs DEF Found
  <2>2. CallsOK'
    BY <1>0, <1>5, <2>1, Constants DEF CallsOK, Found, Release
  <2>3. CallInv'
    BY <1>0, <1>5 DEF CallsOK, CallInv, Found
  <2> QED
    BY <1>5, <2>2, <2>3, SameTables DEF Found
<1>6. CASE Map(t)
  <2>1. req[t].large \in Nat /\ req[t].small \in Nat
    BY <1>0, RequestIs DEF CallsOK
  <2>2. CallsOK'
    BY <1>0, <1>6, <2>1, Constants DEF CallsOK, Map, Acquire
  <2>3. CallInv'
    BY <1>0, <1>6 DEF CallsOK, CallInv, Map
  <2> QED
    BY <1>6, <2>2, <2>3, SameTables DEF Map
<1> QED
  BY <1>1, <1>2, <1>3, <1>4, <1>5, <1>6

LEMMA TakeType ==
  ASSUME TypeInv, NEW t \in Thread,
         TakeDevice(t) \/ TakeLarge(t) \/ TakeSmall(t) \/ NoPage(t) \/ NoTable(t) \/ Taken(t)
  PROVE  TypeInv'
<1>0. CallsOK /\ CallInv
  BY TypeParts DEF TypeInv
<1>1. CASE TakeDevice(t)
  <2>1. CallsOK'
    BY <1>0, <1>1 DEF CallsOK, TakeDevice
  <2>2. CallInv'
    BY <1>0, <1>1 DEF CallsOK, CallInv, TakeDevice, IsDevice, IsLarge
  <2> QED
    BY <1>1, <2>1, <2>2, SameTables DEF TakeDevice
<1>2. CASE TakeLarge(t)
  <2>1. CallsOK'
    BY <1>0, <1>2, Constants DEF CallsOK, TakeLarge
  <2>2. CallInv'
    BY <1>0, <1>2 DEF CallsOK, CallInv, TakeLarge, IsLarge
  <2> QED
    BY <1>2, <2>1, <2>2, SameTables DEF TakeLarge
<1>3. CASE TakeSmall(t)
  <2>1. CallsOK'
    BY <1>0, <1>3 DEF CallsOK, TakeSmall
  <2>2. CallInv'
    BY <1>0, <1>3 DEF CallsOK, CallInv, TakeSmall
  <2> QED
    BY <1>3, <2>1, <2>2, SameTables DEF TakeSmall
<1>4. CASE NoPage(t) \/ NoTable(t) \/ Taken(t)
  <2>1. pc' = [pc EXCEPT ![t] = "stuck"] /\ UNCHANGED <<tables, pools, lock, call, regions>>
        /\ pc[t] # "user"
    BY <1>4 DEF NoPage, NoTable, Taken
  <2>2. CallsOK'
    BY <1>0, <2>1 DEF CallsOK
  <2>3. CallInv'
    BY <1>0, <2>1 DEF CallsOK, CallInv
  <2> QED
    BY <2>1, <2>2, <2>3, SameTables
<1> QED
  BY <1>1, <1>2, <1>3, <1>4

LEMMA MadeType ==
  ASSUME CallsOK, NEW t \in Thread, NEW level \in {2, 3}, NEW i \in Nat, Made(t, level, i)
  PROVE  devices' \subseteq Process \X {2, 3} \X Nat
<1>1. Owner[t] \in Process
  BY Constants
<1>2. <<Owner[t], level, i>> \in Process \X {2, 3} \X Nat
  BY <1>1
<1> QED
  BY <1>2 DEF CallsOK, Made

LEMMA NextPageType ==
  ASSUME CallsOK, CallInv, NEW t \in Thread, NextPage(t),
         devices' \subseteq Process \X {2, 3} \X Nat
  PROVE  CallsOK' /\ CallInv'
<1> DEFINE step == IF IsLarge(t) THEN Block ELSE 1
<1>1. step \in Nat
  BY Constants
<1>2. /\ pc[t] = "enter" /\ frame[t] \in Nat /\ addr[t] \in Nat
      /\ left[t] \in [large : Nat, small : Nat]
      /\ left[t].large > 0 \/ left[t].small > 0
  BY DEF NextPage, CallsOK, CallInv
<1>3. PICK x \in [large : Nat, small : Nat] : left' = [left EXCEPT ![t] = x]
  <2> DEFINE x == IF IsLarge(t) THEN [left[t] EXCEPT !.large = left[t].large - 1]
                                ELSE [left[t] EXCEPT !.small = left[t].small - 1]
  <2>1. left' = [left EXCEPT ![t] = x]
    <3>1. CASE IsLarge(t)
      BY <3>1 DEF NextPage, CallsOK
    <3>2. CASE ~IsLarge(t)
      BY <3>2 DEF NextPage, CallsOK
    <3> QED
      BY <3>1, <3>2
  <2>2. ASSUME NEW d \in [large : Nat, small : Nat], d.large > 0
        PROVE  [d EXCEPT !.large = d.large - 1] \in [large : Nat, small : Nat]
    BY <2>2
  <2>3. ASSUME NEW d \in [large : Nat, small : Nat], d.small > 0
        PROVE  [d EXCEPT !.small = d.small - 1] \in [large : Nat, small : Nat]
    BY <2>3
  <2>4. x \in [large : Nat, small : Nat]
    BY <1>2, <2>2, <2>3 DEF IsLarge
  <2> QED
    BY <2>1, <2>4
<1>4. addr' = [addr EXCEPT ![t] = addr[t] + step] /\ addr[t] + step \in Nat
  BY <1>1, <1>2 DEF NextPage, CallsOK
<1>5. PICK f \in Nat \cup {None} :
        frame' = [frame EXCEPT ![t] = f] /\ (IsDevice(t) => f \in Nat)
  <2> DEFINE f == IF IsDevice(t) THEN frame[t] + step ELSE None
  <2>1. frame' = [frame EXCEPT ![t] = f]
    BY DEF NextPage
  <2>2. f \in Nat \cup {None} /\ (IsDevice(t) => f \in Nat)
    BY <1>1, <1>2
  <2> QED
    BY <2>1, <2>2
<1> HIDE DEF step
<1>6. /\ pc' = [pc EXCEPT ![t] = "page"]
      /\ UNCHANGED <<next4K, next2M, lock, req, base>>
  BY DEF NextPage
<1>7. CallsOK'
  BY <1>3, <1>4, <1>5, <1>6 DEF CallsOK
<1>8. CallInv'
  BY <1>3, <1>5, <1>6 DEF CallsOK, CallInv, IsDevice
<1> QED
  BY <1>7, <1>8

\* A table with one entry more.
LEMMA ExtendedTables ==
  ASSUME TypeInv, CallsOK', CallInv', regions' = regions,
         NEW p \in Process, NEW x \in Nat, NEW y,
         \/ y \in Nat /\ l1' = Extend(l1, p, x, y) /\ UNCHANGED <<l2, l3>>
         \/ y \in Entry /\ l2' = Extend(l2, p, x, y) /\ UNCHANGED <<l1, l3>>
         \/ y \in Nat /\ l3' = Extend(l3, p, x, y) /\ UNCHANGED <<l1, l2>>
  PROVE  TypeInv'
<1>0. TablesOK /\ RegionsOK /\ Shape
  BY TypeParts DEF TypeInv
<1>1. RegionsOK'
  BY <1>0 DEF RegionsOK
<1>2. CASE y \in Nat /\ l1' = Extend(l1, p, x, y) /\ UNCHANGED <<l2, l3>>
  <2>1. /\ l1' = [q \in Process |-> l1'[q]]
        /\ \A q \in Process \ {p} : l1'[q] = l1[q]
        /\ DOMAIN l1'[p] = DOMAIN l1[p] \cup {x}
        /\ l1'[p][x] = y
        /\ \A i \in DOMAIN l1[p] \ {x} : l1'[p][i] = l1[p][i]
    BY <1>0, <1>2, ExtendIs DEF Shape
  <2>2. TablesOK'
    BY <1>0, <1>2, <2>1 DEF TablesOK
  <2>3. Shape'
    BY <1>0, <1>2, <2>1 DEF Shape
  <2> QED
    BY <1>1, <2>2, <2>3 DEF TypeInv, TypeOK, TablesOK, RegionsOK, CallsOK
<1>3. CASE y \in Entry /\ l2' = Extend(l2, p, x, y) /\ UNCHANGED <<l1, l3>>
  <2>1. /\ l2' = [q \in Process |-> l2'[q]]
        /\ \A q \in Process \ {p} : l2'[q] = l2[q]
        /\ DOMAIN l2'[p] = DOMAIN l2[p] \cup {x}
        /\ l2'[p][x] = y
        /\ \A i \in DOMAIN l2[p] \ {x} : l2'[p][i] = l2[p][i]
    BY <1>0, <1>3, ExtendIs DEF Shape
  <2>2. TablesOK'
    BY <1>0, <1>3, <2>1 DEF TablesOK
  <2>3. Shape'
    BY <1>0, <1>3, <2>1 DEF Shape
  <2> QED
    BY <1>1, <2>2, <2>3 DEF TypeInv, TypeOK, TablesOK, RegionsOK, CallsOK
<1>4. CASE y \in Nat /\ l3' = Extend(l3, p, x, y) /\ UNCHANGED <<l1, l2>>
  <2>1. /\ l3' = [q \in Process |-> l3'[q]]
        /\ \A q \in Process \ {p} : l3'[q] = l3[q]
        /\ DOMAIN l3'[p] = DOMAIN l3[p] \cup {x}
        /\ l3'[p][x] = y
        /\ \A i \in DOMAIN l3[p] \ {x} : l3'[p][i] = l3[p][i]
    BY <1>0, <1>4, ExtendIs DEF Shape
  <2>2. TablesOK'
    BY <1>0, <1>4, <2>1 DEF TablesOK
  <2>3. Shape'
    BY <1>0, <1>4, <2>1 DEF Shape
  <2> QED
    BY <1>1, <2>2, <2>3 DEF TypeInv, TypeOK, TablesOK, RegionsOK, CallsOK
<1> QED
  BY <1>2, <1>3, <1>4

LEMMA QuotientNat ==
  ASSUME NEW a \in Nat, NEW b \in Nat \ {0}
  PROVE  a \div b \in Nat
OBVIOUS

LEMMA EnterType ==
  ASSUME TypeInv, NEW t \in Thread,
         NewL2Table(t) \/ NewL3Table(t) \/ MapLarge(t) \/ MapSmall(t) \/ MapThroughNull(t)
  PROVE  TypeInv'
<1>0. CallsOK /\ CallInv /\ Owner[t] \in Process
  BY TypeParts, Constants DEF TypeInv
<1>1. addr[t] \in Nat /\ addr[t] \div Huge \in Nat /\ Slot(addr[t]) \in Nat
  <2>1. addr[t] \in Nat
    BY <1>0 DEF CallsOK
  <2>2. Huge \in Nat \ {0} /\ Block \in Nat \ {0}
    BY AddressSpaceAssumption
  <2> QED
    BY <2>1, <2>2, QuotientNat DEF Slot
<1>2. ASSUME pc[t] = "enter"
      PROVE  [block |-> TRUE, frame |-> frame[t]] \in Entry /\ frame[t] \in Nat
  BY <1>0, <1>2 DEF CallInv, Entry
<1>3. CASE NewL2Table(t)
  <2>1. CallsOK' /\ CallInv'
    BY <1>0, <1>3 DEF CallsOK, CallInv, NewL2Table
  <2>2. next4K \in Nat
    BY <1>0 DEF CallsOK
  <2> QED
    BY <1>0, <1>1, <1>3, <2>1, <2>2, ExtendedTables DEF NewL2Table
<1>4. CASE NewL3Table(t)
  <2>1. CallsOK' /\ CallInv'
    BY <1>0, <1>4 DEF CallsOK, CallInv, NewL3Table
  <2>2. [block |-> FALSE, frame |-> next4K] \in Entry
    BY <1>0 DEF CallsOK, Entry
  <2> QED
    BY <1>0, <1>1, <1>4, <2>1, <2>2, ExtendedTables DEF NewL3Table
<1>5. CASE MapLarge(t)
  <2>0. devices' \subseteq Process \X {2, 3} \X Nat
    BY <1>0, <1>1, <1>5, MadeType DEF MapLarge
  <2>1. CallsOK' /\ CallInv' /\ pc[t] = "enter" /\ l1' = l1 /\ regions' = regions
    BY <1>0, <1>5, <2>0, NextPageType DEF MapLarge, NextPage
  <2> QED
    BY <1>0, <1>1, <1>2, <1>5, <2>1, ExtendedTables DEF MapLarge
<1>6. CASE MapSmall(t)
  <2>0. devices' \subseteq Process \X {2, 3} \X Nat
    BY <1>0, <1>1, <1>6, MadeType DEF MapSmall
  <2>1. CallsOK' /\ CallInv' /\ pc[t] = "enter" /\ l1' = l1 /\ regions' = regions
    BY <1>0, <1>6, <2>0, NextPageType DEF MapSmall, NextPage
  <2> QED
    BY <1>0, <1>1, <1>2, <1>6, <2>1, ExtendedTables DEF MapSmall
<1>7. CASE MapThroughNull(t)
  <2>1. CallsOK' /\ CallInv' /\ l1' = l1 /\ regions' = regions
    BY <1>0, <1>7, NextPageType DEF MapThroughNull, NextPage, CallsOK
  <2> QED
    BY <1>7, <2>1, SameTables DEF MapThroughNull
<1> QED
  BY <1>3, <1>4, <1>5, <1>6, <1>7

LEMMA ReturnType ==
  ASSUME TypeInv, NEW t \in Thread, Return(t)
  PROVE  TypeInv'
<1>0. CallsOK /\ CallInv /\ Owner[t] \in Process /\ TablesOK /\ RegionsOK /\ Shape
  BY TypeParts, Constants DEF TypeInv
<1>1. Nothing \in Request
  BY DEF Nothing, Request
<1>2. CallsOK'
  BY <1>0, <1>1 DEF CallsOK, Return, Release
<1>3. CallInv'
  BY <1>0 DEF CallsOK, CallInv, Return
<1> DEFINE new == [base |-> base[t], req |-> req[t]]
<1>4. new \in [base : Nat, req : Request]
  BY <1>0 DEF CallsOK
<1>5. regions' = [regions EXCEPT ![Owner[t]] = regions[Owner[t]] \cup {new}]
  BY DEF Return
<1> HIDE DEF new
<1>6. RegionsOK' /\ regions' = [p \in Process |-> regions'[p]]
  BY <1>0, <1>4, <1>5 DEF RegionsOK, Shape
<1>7. TablesOK' /\ UNCHANGED <<l1, l2, l3>>
  BY <1>0 DEF TablesOK, Return
<1>8. TypeOK'
  BY <1>2, <1>6, <1>7 DEF TypeOK, TablesOK, RegionsOK, CallsOK
<1> QED
  BY <1>0, <1>3, <1>6, <1>7, <1>8 DEF TypeInv, Shape

LEMMA TypeStep == TypeInv /\ [Next]_vmmVars => TypeInv'
<1> SUFFICES ASSUME TypeInv, [Next]_vmmVars PROVE TypeInv'
  OBVIOUS
<1>1. CASE UNCHANGED vmmVars
  <2>1. CallsOK' /\ CallInv'
    BY <1>1, TypeParts DEF vmmVars, TypeInv, CallsOK, CallInv
  <2> QED
    BY <1>1, <2>1, SameTables DEF vmmVars
<1>2. CASE Next
  <2> PICK t \in Thread :
        \/ \E r \in MemoryRequest[t] : MemoryAlloc(t, r)
        \/ \E r \in DeviceRequest[t] : DeviceAlloc(t, r)
        \/ Step(t)
    BY <1>2 DEF Next
  <2> QED
    BY SearchType, TakeType, EnterType, ReturnType DEF Step, Enter
<1> QED
  BY <1>1, <1>2

\* The tables, the requests and the state of every call are well typed.
THEOREM TypeCorrect == Spec => []TypeOK
<1>1. TypeInv => TypeOK
  BY DEF TypeInv
<1> QED
  BY <1>1, InitTypeInv, TypeStep, PTL DEF Spec

-----------------------------------------------------------------------------
\* Mappings

LEMMA InitNested == Init => Nested
<1> SUFFICES ASSUME Init, NEW p \in Process, NEW a \in DOMAIN l3[p]
             PROVE  Slot(a) \in DOMAIN l2[p] /\ ~l2[p][Slot(a)].block
  BY DEF Nested
<1>1. Block \in Nat \ {0} /\ Image \in Nat /\ Image <= Block
  BY AddressSpaceAssumption
<1>2. /\ l2[p] = [s \in {0} |-> [block |-> FALSE, frame |-> BootFrame[p] + 3]]
      /\ DOMAIN l3[p] = 0..Image - 1
  BY DEF Init
<1>3. a \in 0 * Block..0 * Block + Block - 1
  BY <1>1, <1>2
<1>4. Slot(a) = 0
  BY <1>3, SlotOf
<1> QED
  BY <1>2, <1>4

\* What a step may do to the tables of a process: add an entry.
Grows(f) == \A p \in Process :
  DOMAIN f[p] \subseteq DOMAIN f'[p] /\ \A i \in DOMAIN f[p] : f'[p][i] = f[p][i]

\* A page of Mapped has its slot's entry.
LEMMA MappedIs ==
  ASSUME TInv, NEW p \in Process, NEW a \in Mapped(p)
  PROVE  /\ Slot(a) \in DOMAIN l2[p]
         /\ l2[p][Slot(a)].block \/ a \in DOMAIN l3[p]
<1>1. CASE a \in DOMAIN l3[p]
  BY <1>1 DEF TInv, Nested
<1>2. CASE a \notin DOMAIN l3[p]
  <2>1. PICK s \in DOMAIN l2[p] : l2[p][s].block /\ a \in s * Block..s * Block + Block - 1
    BY <1>2 DEF Mapped
  <2>2. s \in Int
    BY DEF TInv, TypeInv, TypeOK
  <2>3. Slot(a) = s
    BY <2>1, <2>2, SlotOf
  <2> QED
    BY <2>1, <2>3
<1> QED
  BY <1>1, <1>2

LEMMA GrownStays ==
  ASSUME TInv, Grows(l2), Grows(l3), NEW p \in Process, NEW a \in Mapped(p)
  PROVE  V2P(p, a)' = V2P(p, a)
<1>1. /\ Slot(a) \in DOMAIN l2[p] /\ Slot(a) \in DOMAIN l2'[p]
      /\ l2'[p][Slot(a)] = l2[p][Slot(a)]
      /\ ~l2[p][Slot(a)].block => a \in DOMAIN l3[p]
      /\ a \in DOMAIN l3[p] => a \in DOMAIN l3'[p] /\ l3'[p][a] = l3[p][a]
  BY MappedIs DEF Grows
<1> QED
  BY <1>1 DEF V2P

LEMMA ExtensionGrows ==
  ASSUME TypeInv, NEW p \in Process, NEW x, NEW y
  PROVE  /\ x \notin DOMAIN l2[p] /\ l2' = Extend(l2, p, x, y) => Grows(l2)
         /\ x \notin DOMAIN l3[p] /\ l3' = Extend(l3, p, x, y) => Grows(l3)
<1>0. l2 = [q \in Process |-> l2[q]] /\ l3 = [q \in Process |-> l3[q]]
  BY DEF TypeInv, Shape
<1>1. ASSUME x \notin DOMAIN l2[p], l2' = Extend(l2, p, x, y) PROVE Grows(l2)
  <2>1. /\ \A q \in Process \ {p} : l2'[q] = l2[q]
        /\ DOMAIN l2'[p] = DOMAIN l2[p] \cup {x}
        /\ \A i \in DOMAIN l2[p] \ {x} : l2'[p][i] = l2[p][i]
    BY <1>0, <1>1, ExtendIs
  <2> QED
    BY <1>1, <2>1 DEF Grows
<1>2. ASSUME x \notin DOMAIN l3[p], l3' = Extend(l3, p, x, y) PROVE Grows(l3)
  <2>1. /\ \A q \in Process \ {p} : l3'[q] = l3[q]
        /\ DOMAIN l3'[p] = DOMAIN l3[p] \cup {x}
        /\ \A i \in DOMAIN l3[p] \ {x} : l3'[p][i] = l3[p][i]
    BY <1>0, <1>2, ExtendIs
  <2> QED
    BY <1>2, <2>1 DEF Grows
<1> QED
  BY <1>1, <1>2

LEMMA UnchangedGrows ==
  /\ UNCHANGED l2 => Grows(l2)
  /\ UNCHANGED l3 => Grows(l3)
BY DEF Grows

\* L3 entries stay under their tables when the tables of L2 grow and no L3 entry is
\* added elsewhere.
LEMMA GrownNested ==
  ASSUME Nested, Grows(l2),
         \A p \in Process : \A a \in DOMAIN l3'[p] \ DOMAIN l3[p] :
           Slot(a) \in DOMAIN l2[p] /\ ~l2[p][Slot(a)].block
  PROVE  Nested'
<1> SUFFICES ASSUME NEW p \in Process, NEW a \in DOMAIN l3'[p]
             PROVE  Slot(a) \in DOMAIN l2'[p] /\ ~l2'[p][Slot(a)].block
  BY DEF Nested, Slot
<1>1. Slot(a) \in DOMAIN l2[p] /\ ~l2[p][Slot(a)].block
  BY DEF Nested
<1> QED
  BY <1>1 DEF Grows

LEMMA TablesGrow ==
  ASSUME TInv, [Next]_vmmVars
  PROVE  Grows(l2) /\ Grows(l3) /\ Nested'
<1>1. TypeInv /\ Nested
  BY DEF TInv
<1>2. CASE UNCHANGED <<l2, l3>>
  BY <1>1, <1>2, UnchangedGrows, GrownNested
<1>3. ASSUME NEW t \in Thread, NewL3Table(t) \/ MapLarge(t)
      PROVE  Grows(l2) /\ Grows(l3) /\ Nested'
  <2>1. Owner[t] \in Process /\ ~HasL2(t) /\ UNCHANGED l3
    BY <1>3, AddressSpaceAssumption DEF NewL3Table, MapLarge
  <2>2. PICK y : l2' = Extend(l2, Owner[t], Slot(addr[t]), y)
    BY <1>3 DEF NewL3Table, MapLarge
  <2>3. Grows(l2) /\ Grows(l3)
    BY <1>1, <2>1, <2>2, ExtensionGrows, UnchangedGrows DEF HasL2
  <2> QED
    BY <1>1, <2>1, <2>3, GrownNested
<1>4. ASSUME NEW t \in Thread, MapSmall(t)
      PROVE  Grows(l2) /\ Grows(l3) /\ Nested'
  <2>1. /\ Owner[t] \in Process /\ HasL2(t) /\ ~UnderBlock(t) /\ UNCHANGED l2
        /\ addr[t] \notin DOMAIN l3[Owner[t]]
        /\ l3' = Extend(l3, Owner[t], addr[t], frame[t])
    BY <1>4, AddressSpaceAssumption DEF MapSmall
  <2>2. Grows(l2) /\ Grows(l3)
    BY <1>1, <2>1, ExtensionGrows, UnchangedGrows
  <2>3. l3 = [q \in Process |-> l3[q]]
    BY <1>1 DEF TypeInv, Shape
  <2>4. /\ \A q \in Process \ {Owner[t]} : l3'[q] = l3[q]
        /\ DOMAIN l3'[Owner[t]] = DOMAIN l3[Owner[t]] \cup {addr[t]}
    BY <2>1, <2>3, ExtendIs
  <2>5. \A p \in Process : \A a \in DOMAIN l3'[p] \ DOMAIN l3[p] :
          Slot(a) \in DOMAIN l2[p] /\ ~l2[p][Slot(a)].block
    BY <2>1, <2>4 DEF HasL2, UnderBlock
  <2> QED
    BY <1>1, <2>2, <2>5, GrownNested
<1>5. CASE UNCHANGED vmmVars
  BY <1>2, <1>5 DEF vmmVars, tables
<1>6. CASE Next
  <2>1. PICK t \in Thread :
          \/ \E r \in MemoryRequest[t] : MemoryAlloc(t, r)
          \/ \E r \in DeviceRequest[t] : DeviceAlloc(t, r)
          \/ Step(t)
    BY <1>6 DEF Next
  <2>2. CASE NewL3Table(t) \/ MapLarge(t) \/ MapSmall(t)
    BY <1>3, <1>4, <2>2
  <2>3. CASE \/ \E r \in MemoryRequest[t] : MemoryAlloc(t, r)
             \/ \E r \in DeviceRequest[t] : DeviceAlloc(t, r)
             \/ Find(t) \/ Retry(t) \/ Found(t) \/ Map(t)
    BY <1>2, <2>3 DEF MemoryAlloc, DeviceAlloc, Find, Retry, Found, Map, tables
  <2>4. CASE \/ TakeDevice(t) \/ TakeLarge(t) \/ TakeSmall(t) \/ NoPage(t)
             \/ NewL2Table(t) \/ NoTable(t) \/ MapThroughNull(t) \/ Taken(t) \/ Return(t)
    BY <1>2, <2>4 DEF TakeDevice, TakeLarge, TakeSmall, NoPage, NewL2Table, NoTable,
                      MapThroughNull, Taken, Return, tables
  <2> QED
    BY <2>1, <2>2, <2>3, <2>4 DEF Step, Enter
<1> QED
  BY <1>5, <1>6

\* A page that is mapped, once, is never mapped elsewhere: whatever calls other
\* threads are in, their searches and their mappings in any order.
THEOREM MappingsKept == Spec => MappingsStay
<1>1. Init => TInv
  BY InitTypeInv, InitNested DEF TInv
<1>2. TInv /\ [Next]_vmmVars => TInv'
  BY TypeStep, TablesGrow DEF TInv
<1>3. TInv /\ [Next]_vmmVars
        => [\A p \in Process : \A a \in Mapped(p) : V2P(p, a)' = V2P(p, a)]_vmmVars
  BY TablesGrow, GrownStays
<1> QED
  BY <1>1, <1>2, <1>3, PTL DEF Spec, MappingsStay

-----------------------------------------------------------------------------
\* Frames

\* The frames that the platform counts as restricted.
Counted == UNION {z.base..z.end - 1 : z \in Zones}

\* What a call has still to map.
Rest(t) == IF pc[t] \in {"page", "enter"} THEN Len(left[t]) ELSE Len(req[t])

\* What a call for a device has still to map is not restricted.
DeviceInv ==
  \A t \in Thread : pc[t] \notin {"user", "stuck"} /\ IsDevice(t) =>
    \A f \in Counted : ~(frame[t] <= f /\ f < frame[t] + Rest(t))

LEMMA Numbers ==
  /\ Pool4K \in Nat /\ EndPool4K \in Nat /\ Pool2M \in Nat /\ EndPool2M \in Nat
  /\ Pool4K <= EndPool4K /\ EndPool4K <= Pool2M
  /\ Image \in Nat \ {0}
  /\ \A p \in Process : BootFrame[p] \in Nat /\ BootFrame[p] + Image + 2 < Pool4K
  /\ \A p, q \in Process : p # q => BootFrames(p) \cap BootFrames(q) = {}
BY AddressSpaceAssumption

LEMMA CountedIs ==
  ASSUME NEW f \in Counted
  PROVE  f \in Nat /\ \E z \in Zones : z.base <= f /\ f < z.end
<1>1. PICK z \in Zones : f \in z.base..z.end - 1
  BY DEF Counted
<1>2. z.base \in Nat /\ z.end \in Nat
  BY AddressSpaceAssumption
<1>3. f \in Nat /\ z.base <= f /\ f < z.end
  BY <1>1, <1>2
<1> QED
  BY <1>3

LEMMA OneLess ==
  ASSUME NEW b \in Nat, NEW n \in Nat, n > 0
  PROVE  (n - 1) * b = n * b - b /\ n * b >= b /\ (n - 1) * b \in Nat /\ n * b \in Nat
<1>1. PICK m \in Nat : n = m + 1
  <2>1. n - 1 \in Nat /\ n = n - 1 + 1
    OBVIOUS
  <2> QED
    BY <2>1
<1>2. m * b \in Nat /\ n * b = m * b + b /\ n - 1 = m
  BY <1>1
<1> QED
  BY <1>2

\* The range that is not refused contains nothing that is restricted.
LEMMA Unrestricted ==
  ASSUME NEW pa \in Nat, NEW len \in Nat, ~Restricted(pa, len), NEW f \in Counted
  PROVE  ~(pa <= f /\ f < pa + len)
<1> SUFFICES ASSUME pa <= f /\ f < pa + len PROVE FALSE
  OBVIOUS
<1>1. PICK z \in Zones : z.base <= f /\ f < z.end
  BY CountedIs
<1>2. z.base \in Nat /\ z.end \in Nat /\ f \in Nat
  BY AddressSpaceAssumption, CountedIs
<1> QED
  BY <1>1, <1>2 DEF Restricted

LEMMA SizeOf ==
  ASSUME NEW r, r.large \in Nat, r.small \in Nat
  PROVE  /\ Len(r) \in Nat
         /\ r.large > 0 => Len(r) >= Block
         /\ r.small > 0 => Len(r) >= 1
<1>1. r.large * Block \in Nat /\ Block \in Nat
  BY Constants
<1>2. r.large > 0 => r.large * Block >= Block
  BY OneLess, Constants
<1> QED
  BY <1>1, <1>2 DEF Len

\* A step of one thread's call leaves the calls of the others alone.
Works(t) ==
  \/ \E r \in MemoryRequest[t] : MemoryAlloc(t, r)
  \/ \E r \in DeviceRequest[t] : DeviceAlloc(t, r)
  \/ Step(t)

LEMMA OthersKeep ==
  ASSUME TypeInv, NEW t \in Thread, Works(t), NEW u \in Thread \ {t}
  PROVE  /\ pc'[u] = pc[u] /\ req'[u] = req[u] /\ left'[u] = left[u] /\ frame'[u] = frame[u]
         /\ addr'[u] = addr[u] /\ base'[u] = base[u]
<1>0. CallsOK
  BY TypeParts DEF TypeInv
<1>1. CASE \/ \E r \in MemoryRequest[t] : MemoryAlloc(t, r)
           \/ \E r \in DeviceRequest[t] : DeviceAlloc(t, r)
  BY <1>0, <1>1 DEF CallsOK, MemoryAlloc, DeviceAlloc
<1>2. CASE Find(t) \/ Retry(t) \/ Found(t) \/ Map(t)
  BY <1>0, <1>2 DEF CallsOK, Find, Retry, Found, Map
<1>3. CASE TakeDevice(t) \/ TakeLarge(t) \/ TakeSmall(t) \/ NoPage(t) \/ Return(t)
  BY <1>0, <1>3 DEF CallsOK, TakeDevice, TakeLarge, TakeSmall, NoPage, Return
<1>4. CASE NewL2Table(t) \/ NewL3Table(t) \/ NoTable(t) \/ Taken(t)
  BY <1>0, <1>4 DEF CallsOK, NewL2Table, NewL3Table, NoTable, Taken
<1>5. CASE MapLarge(t) \/ MapSmall(t) \/ MapThroughNull(t)
  <2>1. NextPage(t)
    BY <1>5 DEF MapLarge, MapSmall, MapThroughNull
  <2>2. left' = [left EXCEPT ![t] = left'[t]]
    BY <1>0, <2>1 DEF CallsOK, NextPage
  <2> QED
    BY <1>0, <2>1, <2>2 DEF CallsOK, NextPage
<1> QED
  BY <1>1, <1>2, <1>3, <1>4, <1>5 DEF Works, Step, Enter

\* What NextPage does to its own call.
LEMMA NextPageIs ==
  ASSUME TypeInv, NEW t \in Thread, NextPage(t)
  PROVE  /\ pc[t] = "enter" /\ pc'[t] = "page" /\ req'[t] = req[t]
         /\ LET step == IF IsLarge(t) THEN Block ELSE 1 IN
            /\ IsDevice(t) => frame'[t] = frame[t] + step
            /\ Len(left[t]) \in Nat /\ Len(left[t]) >= step
            /\ Len(left'[t]) = Len(left[t]) - step
<1>0. CallsOK /\ CallInv
  BY TypeParts DEF TypeInv
<1>1. /\ pc[t] = "enter" /\ left[t] \in [large : Nat, small : Nat]
      /\ left[t].large > 0 \/ left[t].small > 0
  BY <1>0 DEF NextPage, CallsOK, CallInv
<1>2. /\ pc'[t] = "page" /\ req'[t] = req[t]
      /\ IsDevice(t) => frame'[t] = frame[t] + (IF IsLarge(t) THEN Block ELSE 1)
  BY <1>0 DEF NextPage, CallsOK
<1>3. CASE IsLarge(t)
  <2>1. left'[t] = [left[t] EXCEPT !.large = left[t].large - 1]
    BY <1>0, <1>3 DEF NextPage, CallsOK
  <2>2. left'[t].large = left[t].large - 1 /\ left'[t].small = left[t].small
    BY <1>1, <2>1
  <2> DEFINE n == left[t].large
  <2>3. (n - 1) * Block = n * Block - Block /\ n * Block >= Block /\ n * Block \in Nat
    BY <1>1, <1>3, OneLess, Constants DEF IsLarge
  <2>4. Len(left[t]) = n * Block + left[t].small /\ Len(left'[t]) = (n - 1) * Block + left[t].small
    BY <2>2 DEF Len
  <2> HIDE DEF n
  <2> QED
    BY <1>1, <1>2, <1>3, <2>3, <2>4, Constants
<1>4. CASE ~IsLarge(t)
  <2>1. left'[t] = [left[t] EXCEPT !.small = left[t].small - 1]
    BY <1>0, <1>4 DEF NextPage, CallsOK
  <2>2. left'[t].large = left[t].large /\ left'[t].small = left[t].small - 1
    BY <1>1, <2>1
  <2>3. left[t].large * Block \in Nat
    BY <1>1, Constants
  <2>4. /\ Len(left[t]) = left[t].large * Block + left[t].small
        /\ Len(left'[t]) = left[t].large * Block + (left[t].small - 1)
    BY <2>2 DEF Len
  <2> QED
    BY <1>1, <1>2, <1>4, <2>3, <2>4 DEF IsLarge
<1> QED
  BY <1>3, <1>4

LEMMA DeviceStep ==
  ASSUME TypeInv, DeviceInv, NEW t \in Thread, Works(t)
  PROVE  DeviceInv'
<1>0. CallsOK /\ CallInv
  BY TypeParts DEF TypeInv
<1> SUFFICES ASSUME pc'[t] \notin {"user", "stuck"}, IsDevice(t)', NEW f \in Counted
             PROVE  ~(frame'[t] <= f /\ f < frame'[t] + Rest(t)')
  <2> SUFFICES ASSUME NEW u \in Thread \ {t}, pc'[u] \notin {"user", "stuck"}, IsDevice(u)',
                      NEW f \in Counted
               PROVE  ~(frame'[u] <= f /\ f < frame'[u] + Rest(u)')
    BY DEF DeviceInv
  <2>1. pc'[u] = pc[u] /\ req'[u] = req[u] /\ left'[u] = left[u] /\ frame'[u] = frame[u]
    BY OthersKeep
  <2>2. IsDevice(u) /\ Rest(u)' = Rest(u)
    BY <2>1 DEF IsDevice, Rest
  <2> QED
    BY <2>1, <2>2 DEF DeviceInv
<1>s. ASSUME pc[t] \notin {"user", "stuck"}, UNCHANGED <<req, frame>>, Rest(t)' = Rest(t)
      PROVE  ~(frame'[t] <= f /\ f < frame'[t] + Rest(t)')
  BY <1>s DEF DeviceInv, IsDevice
<1>1. CASE \E r \in MemoryRequest[t] : MemoryAlloc(t, r)
  BY <1>0, <1>1, Constants DEF CallsOK, MemoryAlloc, IsDevice
<1>2. CASE \E r \in DeviceRequest[t] : DeviceAlloc(t, r)
  <2>1. PICK r \in DeviceRequest[t] : DeviceAlloc(t, r)
    BY <1>2
  <2>2. r \in Request /\ r.pa \in Nat
    BY Constants
  <2>3. frame'[t] = r.pa /\ Rest(t)' = Len(r) /\ ~Restricted(r.pa, Len(r))
    BY <1>0, <2>1 DEF CallsOK, DeviceAlloc, Rest
  <2>4. Len(r) \in Nat
    BY <2>2, RequestIs, SizeOf
  <2> QED
    BY <2>2, <2>3, <2>4, Unrestricted
<1>3. CASE Find(t) \/ Retry(t) \/ Found(t)
  <2>1. /\ pc[t] \in {"find", "search"} /\ pc'[t] \in {"search", "map"}
        /\ UNCHANGED <<req, frame>>
    BY <1>0, <1>3 DEF CallsOK, Find, Retry, Found
  <2> QED
    BY <1>s, <2>1 DEF Rest
<1>4. CASE Map(t)
  <2>1. /\ pc[t] = "map" /\ pc'[t] = "page" /\ UNCHANGED <<req, frame>>
        /\ left'[t] = [large |-> req[t].large, small |-> req[t].small]
    BY <1>0, <1>4 DEF CallsOK, Map
  <2>2. Len(left'[t]) = Len(req[t])
    BY <2>1 DEF Len
  <2> QED
    BY <1>s, <2>1, <2>2 DEF Rest
<1>5. CASE TakeDevice(t) \/ NewL2Table(t) \/ NewL3Table(t)
  <2>1. pc[t] \in {"page", "enter"} /\ pc'[t] \in {"page", "enter"} /\ UNCHANGED call
    BY <1>0, <1>5 DEF CallsOK, TakeDevice, NewL2Table, NewL3Table
  <2> QED
    BY <1>s, <2>1 DEF Rest
<1>6. CASE TakeLarge(t) \/ TakeSmall(t)
  BY <1>6 DEF TakeLarge, TakeSmall, IsDevice
<1>7. CASE NoPage(t) \/ NoTable(t) \/ Taken(t) \/ Return(t)
  BY <1>0, <1>7 DEF CallsOK, NoPage, NoTable, Taken, Return
<1>8. CASE MapLarge(t) \/ MapSmall(t) \/ MapThroughNull(t)
  <2>1. NextPage(t)
    BY <1>8 DEF MapLarge, MapSmall, MapThroughNull
  <2> DEFINE step == IF IsLarge(t) THEN Block ELSE 1
  <2>2. /\ pc[t] = "enter" /\ pc'[t] = "page" /\ req'[t] = req[t]
        /\ IsDevice(t) => frame'[t] = frame[t] + step
        /\ Len(left[t]) \in Nat /\ Len(left[t]) >= step
        /\ Len(left'[t]) = Len(left[t]) - step
    BY <2>1, NextPageIs
  <2>c. f \in Nat
    BY CountedIs
  <2>3. step \in Nat /\ IsDevice(t) /\ frame[t] \in Nat /\ f \in Nat
    BY <1>0, <2>2, <2>c, Constants DEF IsDevice, CallInv
  <2> HIDE DEF step
  <2>4. ~(frame[t] <= f /\ f < frame[t] + Len(left[t]))
    BY <2>2, <2>3 DEF DeviceInv, Rest
  <2>5. Rest(t)' = Len(left[t]) - step
    BY <2>2 DEF Rest
  <2> QED
    BY <2>2, <2>3, <2>4, <2>5
<1> QED
  BY <1>1, <1>2, <1>3, <1>4, <1>5, <1>6, <1>7, <1>8 DEF Works, Step, Enter

\* Entries of devices are made where there was none, and lead to nothing restricted.
EntriesInv ==
  \A p \in Process :
    /\ \A s : <<p, 2, s>> \in devices =>
         /\ s \in DOMAIN l2[p] /\ l2[p][s].block
         /\ \A f \in Counted : ~(l2[p][s].frame <= f /\ f < l2[p][s].frame + Block)
    /\ \A a : <<p, 3, a>> \in devices => a \in DOMAIN l3[p] /\ l3[p][a] \notin Counted

LEMMA DevicesAfter ==
  ASSUME NEW t \in Thread, Works(t)
  PROVE  \/ devices' = devices
         \/ MapLarge(t) /\ Made(t, 2, Slot(addr[t]))
         \/ MapSmall(t) /\ Made(t, 3, addr[t])
<1>1. CASE \/ \E r \in MemoryRequest[t] : MemoryAlloc(t, r)
           \/ \E r \in DeviceRequest[t] : DeviceAlloc(t, r)
           \/ Find(t) \/ Retry(t) \/ Found(t) \/ Map(t)
  BY <1>1 DEF MemoryAlloc, DeviceAlloc, Find, Retry, Found, Map
<1>2. CASE \/ TakeDevice(t) \/ TakeLarge(t) \/ TakeSmall(t) \/ NoPage(t)
           \/ NewL2Table(t) \/ NewL3Table(t) \/ NoTable(t) \/ Taken(t) \/ Return(t)
           \/ MapThroughNull(t)
  BY <1>2 DEF TakeDevice, TakeLarge, TakeSmall, NoPage, NewL2Table, NewL3Table, NoTable,
              Taken, Return, MapThroughNull
<1>3. CASE MapLarge(t) \/ MapSmall(t)
  BY <1>3 DEF MapLarge, MapSmall
<1> QED
  BY <1>1, <1>2, <1>3 DEF Works, Step, Enter

LEMMA MadeIs ==
  ASSUME NEW t \in Thread, NEW level, NEW i, Made(t, level, i)
  PROVE  /\ ~IsDevice(t) => devices' = devices
         /\ IsDevice(t) => <<Owner[t], level, i>> \in devices'
         /\ \A p, k, j : <<p, k, j>> \in devices' <=>
              \/ <<p, k, j>> \in devices
              \/ IsDevice(t) /\ p = Owner[t] /\ k = level /\ j = i
BY DEF Made

LEMMA EntriesStep ==
  ASSUME TInv, DeviceInv, EntriesInv, NEW t \in Thread, Works(t)
  PROVE  EntriesInv'
<1> DEFINE o == Owner[t]
           g == frame[t]
<1>0. CallsOK /\ CallInv /\ o \in Process /\ TypeInv /\ Shape
  BY TypeParts, Constants DEF TInv, TypeInv
<1>1. Grows(l2) /\ Grows(l3)
  BY TablesGrow DEF Works, Next
<1>2. ASSUME NEW p \in Process, NEW s, <<p, 2, s>> \in devices
      PROVE  /\ s \in DOMAIN l2'[p] /\ l2'[p][s].block
             /\ \A f \in Counted : ~(l2'[p][s].frame <= f /\ f < l2'[p][s].frame + Block)
  BY <1>1, <1>2 DEF EntriesInv, Grows
<1>3. ASSUME NEW p \in Process, NEW a, <<p, 3, a>> \in devices
      PROVE  a \in DOMAIN l3'[p] /\ l3'[p][a] \notin Counted
  BY <1>1, <1>3 DEF EntriesInv, Grows
<1>4. ASSUME NextPage(t), IsDevice(t)
      PROVE  /\ g \in Nat
             /\ \A f \in Counted : ~(g <= f /\ f < g + (IF IsLarge(t) THEN Block ELSE 1))
  <2>1. /\ pc[t] = "enter" /\ g \in Nat
        /\ Len(left[t]) \in Nat /\ Len(left[t]) >= IF IsLarge(t) THEN Block ELSE 1
    BY <1>0, <1>4, NextPageIs DEF CallInv
  <2>2. \A f \in Counted : ~(g <= f /\ f < g + Len(left[t]))
    BY <1>4, <2>1 DEF DeviceInv, Rest
  <2>3. Counted \subseteq Nat
    BY CountedIs
  <2> QED
    BY <2>1, <2>2, <2>3, Constants
<1>5. CASE devices' = devices
  BY <1>2, <1>3, <1>5 DEF EntriesInv
<1>6. CASE MapLarge(t) /\ Made(t, 2, Slot(addr[t]))
  <2> DEFINE x == Slot(addr[t])
  <2>1. /\ NextPage(t) /\ IsLarge(t)
        /\ l2' = Extend(l2, o, x, [block |-> TRUE, frame |-> g])
    BY <1>6 DEF MapLarge
  <2>2. x \in DOMAIN l2'[o] /\ l2'[o][x] = [block |-> TRUE, frame |-> g]
    BY <1>0, <2>1, ExtendIs DEF Shape
  <2>3. l2'[o][x].block /\ l2'[o][x].frame = g
    BY <2>2
  <2>4. \A p, k, j : <<p, k, j>> \in devices' <=>
          \/ <<p, k, j>> \in devices
          \/ IsDevice(t) /\ p = o /\ k = 2 /\ j = x
    BY <1>6 DEF Made
  <2>5. IsDevice(t) => \A f \in Counted : ~(g <= f /\ f < g + Block)
    BY <1>4, <2>1
  <2> HIDE DEF o, x, g
  <2> QED
    BY <1>2, <1>3, <2>2, <2>3, <2>4, <2>5 DEF EntriesInv
<1>7. CASE MapSmall(t) /\ Made(t, 3, addr[t])
  <2> DEFINE x == addr[t]
  <2>1. NextPage(t) /\ ~IsLarge(t) /\ l3' = Extend(l3, o, x, g)
    BY <1>7 DEF MapSmall
  <2>2. x \in DOMAIN l3'[o] /\ l3'[o][x] = g
    BY <1>0, <2>1, ExtendIs DEF Shape
  <2>3. \A p, k, j : <<p, k, j>> \in devices' <=>
          \/ <<p, k, j>> \in devices
          \/ IsDevice(t) /\ p = o /\ k = 3 /\ j = x
    BY <1>7 DEF Made
  <2>4. IsDevice(t) => g \notin Counted
    BY <1>4, <2>1
  <2> HIDE DEF o, x, g
  <2> QED
    BY <1>2, <1>3, <2>2, <2>3, <2>4 DEF EntriesInv
<1> QED
  BY <1>5, <1>6, <1>7, DevicesAfter

\* The blocks of memory lie in the part of the pool of blocks that is given away.
Blocks(p) == {s \in DOMAIN l2[p] : l2[p][s].block /\ <<p, 2, s>> \notin devices}

Pooled(f, n) == Pool2M <= f /\ f < EndPool2M /\ f + Block <= n

PendingLarge(t) == pc[t] = "enter" /\ ~IsDevice(t) /\ IsLarge(t)

Apart(f, g) == f + Block <= g \/ g + Block <= f

\* The blocks of memory are the pool's.  They lie apart, in whatever processes, and apart
\* from those that calls are about to map.
BlocksApart ==
  \A p, q \in Process : \A s \in Blocks(p), r \in Blocks(q) :
    /\ Pooled(l2[p][s].frame, next2M)
    /\ <<p, s>> # <<q, r>> => Apart(l2[p][s].frame, l2[q][r].frame)

PendingApart ==
  \A t \in Thread : PendingLarge(t) =>
    /\ Pooled(frame[t], next2M)
    /\ \A p \in Process : \A s \in Blocks(p) : Apart(frame[t], l2[p][s].frame)
    /\ \A u \in Thread \ {t} : PendingLarge(u) => Apart(frame[t], frame[u])

BlockInv == Pool2M <= next2M /\ BlocksApart /\ PendingApart

\* Nothing that the pool of blocks or its users see happens.
LEMMA BlockKeep ==
  ASSUME TypeInv, BlockInv, UNCHANGED next2M,
         \A p \in Process : /\ Blocks(p)' = Blocks(p)
                            /\ \A s \in Blocks(p) : l2'[p][s] = l2[p][s],
         \A u \in Thread : PendingLarge(u)' => PendingLarge(u) /\ frame'[u] = frame[u]
  PROVE  BlockInv'
<1>1. BlocksApart'
  <2> SUFFICES ASSUME NEW p \in Process, NEW q \in Process,
                      NEW s \in Blocks(p)', NEW r \in Blocks(q)'
               PROVE  /\ Pooled(l2'[p][s].frame, next2M')
                      /\ <<p, s>> # <<q, r>> => Apart(l2'[p][s].frame, l2'[q][r].frame)
    BY DEF BlocksApart, Apart
  <2> QED
    BY DEF BlockInv, BlocksApart, Pooled
<1>2. PendingApart'
  <2> SUFFICES ASSUME NEW t \in Thread, PendingLarge(t)'
               PROVE  /\ Pooled(frame'[t], next2M')
                      /\ \A p \in Process : \A s \in Blocks(p)' :
                           Apart(frame'[t], l2'[p][s].frame)
                      /\ \A u \in Thread \ {t} : PendingLarge(u)' => Apart(frame'[t], frame'[u])
    BY DEF PendingApart, Apart
  <2> QED
    BY DEF BlockInv, PendingApart, Pooled
<1> QED
  BY <1>1, <1>2 DEF BlockInv

LEMMA SameBlocks ==
  ASSUME UNCHANGED l2, NEW p \in Process,
         \A s : <<p, 2, s>> \in devices' <=> <<p, 2, s>> \in devices
  PROVE  Blocks(p)' = Blocks(p) /\ \A s \in Blocks(p) : l2'[p][s] = l2[p][s]
BY DEF Blocks

LEMMA OthersPending ==
  ASSUME TypeInv, NEW t \in Thread, Works(t), NEW u \in Thread \ {t}
  PROVE  /\ PendingLarge(u)' <=> PendingLarge(u)
         /\ frame'[u] = frame[u]
BY OthersKeep DEF PendingLarge, IsDevice, IsLarge

LEMMA BlockStep ==
  ASSUME TypeInv, BlockInv, NEW t \in Thread, Works(t)
  PROVE  BlockInv'
<1>0. CallsOK /\ CallInv /\ Owner[t] \in Process /\ TablesOK /\ Shape
  BY TypeParts, Constants DEF TypeInv
<1>s. ASSUME UNCHANGED <<l2, next2M>>, PendingLarge(t)' => PendingLarge(t) /\ frame'[t] = frame[t],
             \A p, s : <<p, 2, s>> \in devices' <=> <<p, 2, s>> \in devices
      PROVE  BlockInv'
  <2>1. \A u \in Thread : PendingLarge(u)' => PendingLarge(u) /\ frame'[u] = frame[u]
    BY <1>s, OthersPending
  <2> QED
    BY <1>s, <2>1, SameBlocks, BlockKeep
<1>1. CASE \/ \E r \in MemoryRequest[t] : MemoryAlloc(t, r)
           \/ \E r \in DeviceRequest[t] : DeviceAlloc(t, r)
           \/ Find(t) \/ Retry(t) \/ Found(t) \/ Map(t)
  <2>1. pc'[t] # "enter" /\ UNCHANGED <<l2, next2M, devices>>
    BY <1>0, <1>1 DEF CallsOK, MemoryAlloc, DeviceAlloc, Find, Retry, Found, Map
  <2> QED
    BY <1>s, <2>1 DEF PendingLarge
<1>2. CASE NoPage(t) \/ NoTable(t) \/ Taken(t) \/ Return(t) \/ MapSmall(t) \/ MapThroughNull(t)
  <2>1. pc'[t] # "enter" /\ UNCHANGED <<l2, next2M>>
    BY <1>0, <1>2 DEF CallsOK, NoPage, NoTable, Taken, Return, MapSmall, MapThroughNull, NextPage
  <2>2. devices' = devices \/ Made(t, 3, addr[t])
    BY <1>2 DEF NoPage, NoTable, Taken, Return, MapSmall, MapThroughNull
  <2>3. \A p, s : <<p, 2, s>> \in devices' <=> <<p, 2, s>> \in devices
    BY <2>2 DEF Made
  <2> QED
    BY <1>s, <2>1, <2>3 DEF PendingLarge
<1>3. CASE TakeDevice(t) \/ NewL2Table(t)
  <2>1. UNCHANGED <<l2, next2M, devices, req, frame, left>> /\ (pc'[t] = "enter" /\ ~IsDevice(t) => pc[t] = "enter")
    BY <1>0, <1>3 DEF CallsOK, TakeDevice, NewL2Table
  <2> QED
    BY <1>s, <2>1 DEF PendingLarge, IsDevice, IsLarge
<1>4. CASE TakeSmall(t)
  <2>1. UNCHANGED <<l2, next2M, devices, left>> /\ ~IsLarge(t)
    BY <1>4 DEF TakeSmall
  <2> QED
    BY <1>s, <2>1 DEF PendingLarge, IsLarge
<1>5. CASE NewL3Table(t)
  <2>1. /\ UNCHANGED <<next2M, devices, req, frame, left, pc>> /\ ~HasL2(t)
        /\ l2' = Extend(l2, Owner[t], Slot(addr[t]), [block |-> FALSE, frame |-> next4K])
    BY <1>5 DEF NewL3Table
  <2>2. l2 = [q \in Process |-> l2[q]]
    BY <1>0 DEF Shape
  <2>3. /\ \A q \in Process \ {Owner[t]} : l2'[q] = l2[q]
        /\ DOMAIN l2'[Owner[t]] = DOMAIN l2[Owner[t]] \cup {Slot(addr[t])}
        /\ l2'[Owner[t]][Slot(addr[t])] = [block |-> FALSE, frame |-> next4K]
        /\ \A i \in DOMAIN l2[Owner[t]] \ {Slot(addr[t])} : l2'[Owner[t]][i] = l2[Owner[t]][i]
    BY <1>0, <2>1, <2>2, ExtendIs
  <2>4. \A p \in Process : /\ Blocks(p)' = Blocks(p)
                           /\ \A s \in Blocks(p) : l2'[p][s] = l2[p][s]
    <3> SUFFICES ASSUME NEW p \in Process
                 PROVE  /\ Blocks(p)' = Blocks(p)
                        /\ \A s \in Blocks(p) : l2'[p][s] = l2[p][s]
      OBVIOUS
    <3>1. CASE p # Owner[t]
      BY <2>1, <2>3, <3>1 DEF Blocks
    <3>2. CASE p = Owner[t]
      <4> DEFINE x == Slot(addr[t])
      <4>1. /\ x \notin DOMAIN l2[p] /\ DOMAIN l2'[p] = DOMAIN l2[p] \cup {x}
            /\ l2'[p][x] = [block |-> FALSE, frame |-> next4K]
            /\ \A i \in DOMAIN l2[p] \ {x} : l2'[p][i] = l2[p][i]
        BY <2>1, <2>3, <3>2 DEF HasL2
      <4>2. ~l2'[p][x].block
        BY <4>1
      <4>3. devices' = devices
        BY <2>1
      <4> HIDE DEF x
      <4> QED
        BY <4>1, <4>2, <4>3 DEF Blocks
    <3> QED
      BY <3>1, <3>2
  <2>5. \A u \in Thread : PendingLarge(u)' => PendingLarge(u) /\ frame'[u] = frame[u]
    BY <2>1 DEF PendingLarge, IsDevice, IsLarge
  <2> QED
    BY <2>1, <2>4, <2>5, BlockKeep
<1>6. CASE TakeLarge(t)
  <2>1. /\ frame'[t] = next2M /\ next2M' = next2M + Block /\ UNCHANGED <<l2, devices>>
        /\ pc[t] = "page" /\ next2M \in Nat /\ Block \in Nat /\ Pool2M \in Nat
        /\ Pool2M <= next2M /\ next2M < EndPool2M
    BY <1>0, <1>6, Constants, Numbers DEF CallsOK, TakeLarge, BlockInv
  <2>2. \A p \in Process : Blocks(p)' = Blocks(p)
    BY <2>1, SameBlocks
  <2>3. \A p \in Process : \A s \in Blocks(p) : l2[p][s].frame \in Nat
    BY <1>0 DEF TablesOK, Blocks, Entry
  <2>4. ASSUME NEW p \in Process, NEW s \in Blocks(p)
        PROVE  Pooled(l2[p][s].frame, next2M') /\ Apart(next2M, l2[p][s].frame)
    <3>1. l2[p][s].frame \in Nat /\ Pooled(l2[p][s].frame, next2M)
      BY <2>3 DEF BlockInv, BlocksApart
    <3> QED
      BY <2>1, <3>1 DEF Pooled, Apart
  <2>5. BlocksApart'
    <3> SUFFICES ASSUME NEW p \in Process, NEW q \in Process,
                        NEW s \in Blocks(p), NEW r \in Blocks(q)
                 PROVE  /\ Pooled(l2[p][s].frame, next2M')
                        /\ <<p, s>> # <<q, r>> => Apart(l2[p][s].frame, l2[q][r].frame)
      BY <2>1, <2>2 DEF BlocksApart, Apart
    <3> QED
      BY <2>4 DEF BlockInv, BlocksApart
  <2>6. PendingApart'
    <3> SUFFICES ASSUME NEW u \in Thread, PendingLarge(u)'
                 PROVE  /\ Pooled(frame'[u], next2M')
                        /\ \A p \in Process : \A s \in Blocks(p) : Apart(frame'[u], l2[p][s].frame)
                        /\ \A v \in Thread \ {u} : PendingLarge(v)' => Apart(frame'[u], frame'[v])
      BY <2>1, <2>2 DEF PendingApart, Apart
    <3>1. ASSUME NEW v \in Thread \ {t}, PendingLarge(v)'
          PROVE  /\ PendingLarge(v) /\ frame'[v] = frame[v] /\ frame[v] \in Nat
                 /\ Pooled(frame[v], next2M) /\ Apart(next2M, frame[v]) /\ Apart(frame[v], next2M)
      <4>1. PendingLarge(v) /\ frame'[v] = frame[v]
        BY <3>1, OthersPending
      <4>2. frame[v] \in Nat /\ Pooled(frame[v], next2M)
        BY <1>0, <4>1 DEF CallInv, PendingLarge, BlockInv, PendingApart
      <4> QED
        BY <2>1, <4>1, <4>2 DEF Pooled, Apart
    <3>2. CASE u = t
      BY <2>1, <2>4, <3>1, <3>2 DEF Pooled
    <3>3. CASE u # t
      <4>1. /\ PendingLarge(u) /\ frame'[u] = frame[u] /\ frame[u] \in Nat
            /\ Pooled(frame[u], next2M) /\ Apart(frame[u], next2M)
        BY <3>1, <3>3
      <4>2. Pooled(frame'[u], next2M')
        BY <2>1, <4>1 DEF Pooled
      <4>3. \A v \in Thread \ {u} : PendingLarge(v)' => Apart(frame'[u], frame'[v])
        <5> SUFFICES ASSUME NEW v \in Thread \ {u}, PendingLarge(v)'
                     PROVE  Apart(frame'[u], frame'[v])
          OBVIOUS
        <5>1. CASE v = t
          BY <2>1, <4>1, <5>1
        <5>2. CASE v # t
          BY <3>1, <4>1, <5>2 DEF BlockInv, PendingApart
        <5> QED
          BY <5>1, <5>2
      <4> QED
        BY <2>4, <4>1, <4>2, <4>3 DEF BlockInv, PendingApart
    <3> QED
      BY <3>2, <3>3
  <2>7. Pool2M <= next2M'
    BY <2>1
  <2> QED
    BY <2>5, <2>6, <2>7 DEF BlockInv
<1>7. CASE MapLarge(t)
  <2> DEFINE o == Owner[t]
             x == Slot(addr[t])
             g == frame[t]
  <2>1. /\ NextPage(t) /\ IsLarge(t) /\ ~HasL2(t) /\ pc[t] = "enter" /\ next2M' = next2M
        /\ l2' = Extend(l2, o, x, [block |-> TRUE, frame |-> g])
        /\ g \in Nat
    BY <1>0, <1>7 DEF MapLarge, NextPage, CallInv
  <2>2. l2 = [q \in Process |-> l2[q]]
    BY <1>0 DEF Shape
  <2>3. /\ \A q \in Process \ {o} : l2'[q] = l2[q]
        /\ DOMAIN l2'[o] = DOMAIN l2[o] \cup {x}
        /\ l2'[o][x] = [block |-> TRUE, frame |-> g]
        /\ \A i \in DOMAIN l2[o] \ {x} : l2'[o][i] = l2[o][i]
    BY <1>0, <2>1, <2>2, ExtendIs
  <2>4. x \notin DOMAIN l2[o]
    BY <2>1 DEF HasL2
  <2>5. Made(t, 2, x)
    BY <1>7 DEF MapLarge
  <2>6. \A v \in Thread : PendingLarge(v)' => v # t /\ PendingLarge(v) /\ frame'[v] = frame[v]
    <3>1. pc'[t] = "page"
      BY <1>0, <2>1 DEF CallsOK, NextPage
    <3> QED
      BY <3>1, OthersPending DEF PendingLarge
  <2>7. CASE IsDevice(t)
    <3>1. \A p, k, j : <<p, k, j>> \in devices' <=>
            \/ <<p, k, j>> \in devices
            \/ p = o /\ k = 2 /\ j = x
      BY <2>5, <2>7 DEF Made
    <3>2. ASSUME NEW p \in Process
          PROVE  Blocks(p)' = Blocks(p) /\ \A s \in Blocks(p) : l2'[p][s] = l2[p][s]
      <4> HIDE DEF o, x, g
      <4>1. CASE p # o
        BY <2>3, <3>1, <4>1 DEF Blocks
      <4>2. CASE p = o
        BY <2>3, <2>4, <3>1, <4>2 DEF Blocks
      <4> QED
        BY <4>1, <4>2
    <3> QED
      BY <2>1, <2>6, <3>2, BlockKeep
  <2>8. CASE ~IsDevice(t)
    <3>1. devices' = devices /\ PendingLarge(t) /\ Pooled(g, next2M)
      BY <2>1, <2>5, <2>8, MadeIs DEF PendingLarge, BlockInv, PendingApart
    <3>2. ASSUME NEW p \in Process, NEW s \in Blocks(p)'
          PROVE  /\ <<p, s>> = <<o, x>> => l2'[p][s].frame = g
                 /\ <<p, s>> # <<o, x>> => s \in Blocks(p) /\ l2'[p][s] = l2[p][s]
      BY <2>3, <3>1 DEF Blocks
    <3>3. \A p \in Process : \A s \in Blocks(p) :
            Apart(g, l2[p][s].frame) /\ Apart(l2[p][s].frame, g)
      BY <3>1 DEF BlockInv, PendingApart, Apart
    <3>4. \A v \in Thread \ {t} : PendingLarge(v) => Apart(frame[v], g)
      BY <3>1 DEF BlockInv, PendingApart
    <3>5. UNCHANGED next2M
      BY <2>1 DEF Pooled
    <3> HIDE DEF o, x, g
    <3>6. BlocksApart'
      <4> SUFFICES ASSUME NEW p \in Process, NEW q \in Process,
                          NEW s \in Blocks(p)', NEW r \in Blocks(q)'
                   PROVE  /\ Pooled(l2'[p][s].frame, next2M)
                          /\ <<p, s>> # <<q, r>> => Apart(l2'[p][s].frame, l2'[q][r].frame)
        BY <3>5 DEF BlocksApart, Apart, Pooled
      <4>1. CASE <<p, s>> = <<o, x>>
        BY <3>1, <3>2, <3>3, <4>1
      <4>2. CASE <<p, s>> # <<o, x>>
        BY <3>2, <3>3, <4>2 DEF BlockInv, BlocksApart
      <4> QED
        BY <4>1, <4>2
    <3>7. PendingApart'
      <4> SUFFICES ASSUME NEW u \in Thread, PendingLarge(u)'
                   PROVE  /\ Pooled(frame'[u], next2M)
                          /\ \A p \in Process : \A s \in Blocks(p)' : Apart(frame'[u], l2'[p][s].frame)
                          /\ \A v \in Thread \ {u} : PendingLarge(v)' => Apart(frame'[u], frame'[v])
        BY <3>5 DEF PendingApart, Apart, Pooled
      <4>1. \A p \in Process : \A s \in Blocks(p)' : Apart(frame'[u], l2'[p][s].frame)
        <5> SUFFICES ASSUME NEW p \in Process, NEW s \in Blocks(p)'
                     PROVE  Apart(frame'[u], l2'[p][s].frame)
          OBVIOUS
        <5>1. CASE <<p, s>> = <<o, x>>
          BY <2>6, <3>2, <3>4, <5>1
        <5>2. CASE <<p, s>> # <<o, x>>
          BY <2>6, <3>2, <5>2 DEF BlockInv, PendingApart
        <5> QED
          BY <5>1, <5>2
      <4> QED
        BY <2>6, <4>1 DEF BlockInv, PendingApart
    <3> QED
      BY <3>5, <3>6, <3>7 DEF BlockInv
  <2> QED
    BY <2>7, <2>8
<1> QED
  BY <1>1, <1>2, <1>3, <1>4, <1>5, <1>6, <1>7 DEF Works, Step, Enter

\* The frames of 4 KB pages: those of boot and those that PP4K has given away.
Boot == UNION {BootFrames(p) : p \in Process}

OldFrames == Boot \cup (Pool4K..next4K - 1)

\* A frame that was given away, and to no table.
Clean(f) == f \in OldFrames /\ \A p \in Process : f \notin TableFrames(p)

Pending(t) == pc[t] = "enter" /\ ~IsDevice(t) /\ ~IsLarge(t)

\* The 4 KB pages of memory.
SmallPages(p) == {a \in DOMAIN l3[p] : <<p, 3, a>> \notin devices}

PagesClean == \A p \in Process : \A a \in SmallPages(p) : Clean(l3[p][a])

PagesOnce ==
  \A p, q \in Process : \A a \in SmallPages(p), b \in SmallPages(q) :
    l3[p][a] = l3[q][b] => p = q /\ a = b

PendingClean ==
  \A t \in Thread : Pending(t) =>
    /\ Clean(frame[t])
    /\ \A p \in Process : \A a \in SmallPages(p) : l3[p][a] # frame[t]
    /\ \A u \in Thread \ {t} : Pending(u) => frame[u] # frame[t]

\* A frame that PP4K has given away is that of one table, of one page, or of one page
\* about to be mapped.
PageInv ==
  /\ Pool4K <= next4K /\ next4K <= EndPool4K
  /\ \A p \in Process : TableFrames(p) \subseteq OldFrames
  /\ PagesClean /\ PagesOnce /\ PendingClean

LEMMA OldIs ==
  ASSUME next4K \in Nat, Pool4K <= next4K, next4K <= EndPool4K
  PROVE  \A f \in OldFrames : f \in Nat /\ f < next4K
<1> SUFFICES ASSUME NEW f \in OldFrames PROVE f \in Nat /\ f < next4K
  OBVIOUS
<1>1. CASE f \in Boot
  <2>1. PICK p \in Process : f \in BootFrames(p)
    BY <1>1 DEF Boot
  <2> QED
    BY <2>1, Numbers DEF BootFrames
<1>2. CASE f \in Pool4K..next4K - 1
  BY <1>2, Numbers
<1> QED
  BY <1>1, <1>2 DEF OldFrames

\* Clean frames stay so when one more page is given away, to a table or a call.
LEMMA CleanStays ==
  ASSUME next4K \in Nat, Pool4K <= next4K, next4K <= EndPool4K,
         next4K' = next4K \/ next4K' = next4K + 1,
         \A p \in Process : \A g \in TableFrames(p)' : g \in TableFrames(p) \/ g = next4K,
         NEW f, Clean(f)
  PROVE  f \in OldFrames' /\ (\A p \in Process : f \notin TableFrames(p)') /\ f # next4K
<1>1. f \in OldFrames'
  BY Numbers DEF Clean, OldFrames
<1>2. f # next4K
  BY OldIs DEF Clean
<1> QED
  BY <1>1, <1>2 DEF Clean

\* The tables of a process after a step.
LEMMA TablesAfter ==
  ASSUME TypeInv, NEW t \in Thread, Works(t), NEW p \in Process, NEW g \in TableFrames(p)'
  PROVE  g \in TableFrames(p) \/ (g = next4K /\ (NewL2Table(t) \/ NewL3Table(t)))
<1>0. Owner[t] \in Process /\ Shape
  BY Constants DEF TypeInv
<1> DEFINE o == Owner[t]
<1>1. CASE NewL2Table(t)
  <2> DEFINE x == addr[t] \div Huge
  <2>1. l1' = Extend(l1, o, x, next4K) /\ UNCHANGED l2
    BY <1>1 DEF NewL2Table
  <2>2. /\ \A q \in Process \ {o} : l1'[q] = l1[q]
        /\ DOMAIN l1'[o] = DOMAIN l1[o] \cup {x}
        /\ l1'[o][x] = next4K
        /\ \A i \in DOMAIN l1[o] \ {x} : l1'[o][i] = l1[o][i]
    BY <1>0, <2>1, ExtendIs DEF Shape
  <2> HIDE DEF x, o
  <2> QED
    BY <1>1, <2>1, <2>2 DEF TableFrames
<1>2. CASE NewL3Table(t) \/ MapLarge(t)
  <2> DEFINE x == Slot(addr[t])
  <2>1. /\ UNCHANGED l1
        /\ \/ NewL3Table(t) /\ l2' = Extend(l2, o, x, [block |-> FALSE, frame |-> next4K])
           \/ l2' = Extend(l2, o, x, [block |-> TRUE, frame |-> frame[t]])
    BY <1>2 DEF NewL3Table, MapLarge, NextPage
  <2>2. PICK y : /\ l2' = Extend(l2, o, x, y)
                 /\ ~y.block => y.frame = next4K /\ NewL3Table(t)
    BY <2>1
  <2>3. /\ \A q \in Process \ {o} : l2'[q] = l2[q]
        /\ DOMAIN l2'[o] = DOMAIN l2[o] \cup {x}
        /\ l2'[o][x] = y
        /\ \A i \in DOMAIN l2[o] \ {x} : l2'[o][i] = l2[o][i]
    BY <1>0, <2>2, ExtendIs DEF Shape
  <2> HIDE DEF x, o
  <2> QED
    BY <2>1, <2>2, <2>3 DEF TableFrames
<1>3. CASE UNCHANGED <<l1, l2>>
  BY <1>3 DEF TableFrames
<1>4. CASE \/ \E r \in MemoryRequest[t] : MemoryAlloc(t, r)
           \/ \E r \in DeviceRequest[t] : DeviceAlloc(t, r)
           \/ Find(t) \/ Retry(t) \/ Found(t) \/ Map(t)
  BY <1>3, <1>4 DEF MemoryAlloc, DeviceAlloc, Find, Retry, Found, Map
<1>5. CASE \/ TakeDevice(t) \/ TakeLarge(t) \/ TakeSmall(t) \/ NoPage(t)
           \/ NoTable(t) \/ MapSmall(t) \/ MapThroughNull(t) \/ Taken(t) \/ Return(t)
  BY <1>3, <1>5 DEF TakeDevice, TakeLarge, TakeSmall, NoPage, NoTable, MapSmall,
                    MapThroughNull, Taken, Return, NextPage
<1> QED
  BY <1>1, <1>2, <1>4, <1>5 DEF Works, Step, Enter

LEMMA SamePages ==
  ASSUME UNCHANGED l3, \A p, a : <<p, 3, a>> \in devices' <=> <<p, 3, a>> \in devices
  PROVE  \A p \in Process : SmallPages(p)' = SmallPages(p)
BY DEF SmallPages

\* What a step of t may do to PP4K and to what is mapped from it.
LEMMA PageKeep ==
  ASSUME TypeInv, PageInv, NEW t \in Thread, Works(t),
         next4K' = next4K \/ (next4K' = next4K + 1 /\ next4K < EndPool4K),
         NewL2Table(t) \/ NewL3Table(t) => next4K' = next4K + 1 /\ ~(pc[t] # "enter"),
         UNCHANGED l3, \A p \in Process : SmallPages(p)' = SmallPages(p),
         Pending(t)' => \/ Pending(t) /\ frame'[t] = frame[t]
                        \/ /\ frame'[t] = next4K /\ next4K' = next4K + 1
                           /\ pc[t] # "enter"
  PROVE  PageInv'
<1>0. next4K \in Nat /\ Pool4K <= next4K /\ next4K <= EndPool4K
  BY TypeParts DEF TypeInv, PageInv, CallsOK
<1>1. \A p \in Process : \A g \in TableFrames(p)' :
        g \in TableFrames(p) \/ (g = next4K /\ next4K' = next4K + 1 /\ pc[t] = "enter")
  BY TablesAfter
<1>2. Pool4K <= next4K' /\ next4K' <= EndPool4K
  BY <1>0, Numbers
<1>3. \A f \in OldFrames : f \in OldFrames'
  BY <1>0, Numbers DEF OldFrames
<1>4. \A p \in Process : TableFrames(p)' \subseteq OldFrames'
  <2>1. next4K' = next4K + 1 => next4K \in OldFrames'
    BY <1>0, Numbers DEF OldFrames
  <2> QED
    BY <1>1, <1>3, <2>1 DEF PageInv
<1>5. \A f : Clean(f) => f \in OldFrames' /\ (\A p \in Process : f \notin TableFrames(p)') /\ f # next4K
  BY <1>0, <1>1, CleanStays
<1>6. PagesClean'
  BY <1>5 DEF PageInv, PagesClean, Clean
<1>7. PagesOnce'
  BY DEF PageInv, PagesOnce
<1>8. ASSUME NEW u \in Thread, Pending(u)'
      PROVE  \/ Pending(u) /\ frame'[u] = frame[u]
             \/ /\ u = t /\ frame'[u] = next4K /\ next4K' = next4K + 1
                /\ pc[t] # "enter"
  <2>1. CASE u = t
    BY <1>8, <2>1
  <2>2. CASE u # t
    BY <1>8, <2>2, OthersKeep DEF Pending, IsDevice, IsLarge
  <2> QED
    BY <2>1, <2>2
<1>9. ASSUME next4K' = next4K + 1, pc[t] # "enter"
      PROVE  /\ next4K \in OldFrames' /\ \A p \in Process : next4K \notin TableFrames(p)'
             /\ \A p \in Process : \A a \in SmallPages(p) : l3[p][a] # next4K
             /\ \A f : Clean(f) => f # next4K
  <2>1. next4K \in OldFrames'
    BY <1>0, <1>2, <1>9, Numbers DEF OldFrames
  <2>2. next4K \notin OldFrames
    BY <1>0, OldIs
  <2>3. \A p \in Process : next4K \notin TableFrames(p)'
    BY <1>1, <1>9, <2>2 DEF PageInv
  <2>4. \A p \in Process : \A a \in SmallPages(p) : l3[p][a] # next4K
    BY <2>2 DEF PageInv, PagesClean, Clean
  <2> QED
    BY <1>5, <2>1, <2>3, <2>4
<1>10. PendingClean'
  <2> SUFFICES ASSUME NEW u \in Thread, Pending(u)'
               PROVE  /\ Clean(frame[u])'
                      /\ \A p \in Process : \A a \in SmallPages(p) : l3[p][a] # frame'[u]
                      /\ \A v \in Thread \ {u} : Pending(v)' => frame'[v] # frame'[u]
    BY DEF PendingClean
  <2>1. CASE Pending(u) /\ frame'[u] = frame[u]
    <3>1. Clean(frame[u]) /\ \A p \in Process : \A a \in SmallPages(p) : l3[p][a] # frame[u]
      BY <2>1 DEF PageInv, PendingClean
    <3>2. Clean(frame[u])'
      BY <1>5, <2>1, <3>1 DEF Clean
    <3>3. ASSUME NEW v \in Thread \ {u}, Pending(v)'
          PROVE  frame'[v] # frame'[u]
      <4>1. CASE Pending(v) /\ frame'[v] = frame[v]
        BY <2>1, <4>1 DEF PageInv, PendingClean
      <4>2. CASE frame'[v] = next4K /\ next4K' = next4K + 1 /\ pc[t] # "enter"
        BY <1>9, <2>1, <3>1, <4>2
      <4> QED
        BY <1>8, <3>3, <4>1, <4>2
    <3> QED
      BY <2>1, <3>1, <3>2, <3>3
  <2>2. CASE u = t /\ frame'[u] = next4K /\ next4K' = next4K + 1 /\ pc[t] # "enter"
    <3>1. Clean(frame[u])'
      BY <1>9, <2>2 DEF Clean
    <3>2. ASSUME NEW v \in Thread \ {u}, Pending(v)'
          PROVE  frame'[v] # next4K
      <4>1. Pending(v) /\ frame'[v] = frame[v]
        BY <1>8, <2>2, <3>2
      <4> QED
        BY <1>9, <2>2, <4>1 DEF PageInv, PendingClean
    <3> QED
      BY <1>9, <2>2, <3>1, <3>2
  <2> QED
    BY <1>8, <2>1, <2>2
<1> QED
  BY <1>2, <1>4, <1>6, <1>7, <1>10 DEF PageInv

LEMMA MapSmallPages ==
  ASSUME TypeInv, PageInv, NEW t \in Thread, MapSmall(t)
  PROVE  PageInv'
<1> DEFINE o == Owner[t]
           x == addr[t]
           g == frame[t]
<1>0. CallsOK /\ CallInv /\ o \in Process /\ Shape
  BY TypeParts, Constants DEF TypeInv
<1>1. /\ NextPage(t) /\ pc[t] = "enter" /\ ~IsLarge(t) /\ x \notin DOMAIN l3[o]
      /\ l3' = Extend(l3, o, x, g) /\ UNCHANGED <<l1, l2, next4K>> /\ g \in Nat
      /\ pc'[t] = "page"
  BY <1>0 DEF MapSmall, NextPage, CallInv, CallsOK
<1>2. /\ \A q \in Process \ {o} : l3'[q] = l3[q]
      /\ DOMAIN l3'[o] = DOMAIN l3[o] \cup {x}
      /\ l3'[o][x] = g
      /\ \A i \in DOMAIN l3[o] \ {x} : l3'[o][i] = l3[o][i]
  BY <1>0, <1>1, ExtendIs DEF Shape
<1>3. ~IsDevice(t) => Pending(t)
  BY <1>1 DEF Pending
<1>m. \A p, k, j : <<p, k, j>> \in devices' <=>
        \/ <<p, k, j>> \in devices
        \/ IsDevice(t) /\ p = o /\ k = 3 /\ j = x
  BY DEF MapSmall, Made
<1>4. ASSUME NEW p \in Process, NEW a \in SmallPages(p)'
      PROVE  \/ p = o /\ a = x /\ l3'[p][a] = g /\ ~IsDevice(t)
             \/ <<p, a>> # <<o, x>> /\ a \in SmallPages(p) /\ l3'[p][a] = l3[p][a]
  <2> HIDE DEF o, x, g
  <2>1. CASE p = o /\ a = x
    BY <1>2, <1>m, <2>1 DEF SmallPages
  <2>2. CASE ~(p = o /\ a = x)
    <3>1. a \in DOMAIN l3'[p] /\ <<p, 3, a>> \notin devices
      BY <1>m DEF SmallPages
    <3> QED
      BY <1>2, <2>2, <3>1 DEF SmallPages
  <2> QED
    BY <2>1, <2>2
<1>5. \A u \in Thread : Pending(u)' => u # t /\ Pending(u) /\ frame'[u] = frame[u]
  <2>1. Works(t)
    BY DEF Works, Step, Enter
  <2>2. ~Pending(t)'
    BY <1>1 DEF Pending
  <2> QED
    BY <2>1, <2>2, OthersKeep DEF Pending, IsDevice, IsLarge
<1>6. \A f : Clean(f)' <=> Clean(f)
  BY <1>1 DEF Clean, OldFrames, TableFrames
<1>7. \A p \in Process : TableFrames(p)' \subseteq OldFrames'
  BY <1>1 DEF PageInv, OldFrames, TableFrames
<1>8. ~IsDevice(t) =>
        /\ Clean(g) /\ \A p \in Process : \A a \in SmallPages(p) : l3[p][a] # g
        /\ \A u \in Thread \ {t} : Pending(u) => frame[u] # g
  BY <1>3 DEF PageInv, PendingClean
<1> HIDE DEF o, x, g
<1>10. PagesClean'
  <2> SUFFICES ASSUME NEW p \in Process, NEW a \in SmallPages(p)'
               PROVE  Clean(l3'[p][a])
    BY <1>6 DEF PagesClean
  <2> QED
    BY <1>4, <1>8 DEF PageInv, PagesClean
<1>11. PagesOnce'
  <2> SUFFICES ASSUME NEW p \in Process, NEW q \in Process,
                      NEW a \in SmallPages(p)', NEW b \in SmallPages(q)',
                      l3'[p][a] = l3'[q][b]
               PROVE  p = q /\ a = b
    BY DEF PagesOnce
  <2> QED
    BY <1>4, <1>8 DEF PageInv, PagesOnce
<1>12. PendingClean'
  <2> SUFFICES ASSUME NEW u \in Thread, Pending(u)'
               PROVE  /\ Clean(frame'[u])
                      /\ \A p \in Process : \A a \in SmallPages(p)' : l3'[p][a] # frame'[u]
                      /\ \A v \in Thread \ {u} : Pending(v)' => frame'[v] # frame'[u]
    BY <1>6 DEF PendingClean
  <2>1. u # t /\ Pending(u) /\ frame'[u] = frame[u]
    BY <1>5
  <2>2. \A p \in Process : \A a \in SmallPages(p)' : l3'[p][a] # frame[u]
    BY <1>4, <1>8, <2>1 DEF PageInv, PendingClean
  <2> QED
    BY <1>5, <2>1, <2>2 DEF PageInv, PendingClean
<1> QED
  BY <1>1, <1>7, <1>10, <1>11, <1>12 DEF PageInv

LEMMA PageStep ==
  ASSUME TypeInv, PageInv, NEW t \in Thread, Works(t)
  PROVE  PageInv'
<1>0. CallsOK
  BY TypeParts DEF TypeInv
<1>n. next4K \in Nat /\ next4K # next4K + 1
  BY <1>0 DEF CallsOK
<1>1. CASE \/ \E r \in MemoryRequest[t] : MemoryAlloc(t, r)
           \/ \E r \in DeviceRequest[t] : DeviceAlloc(t, r)
           \/ Find(t) \/ Retry(t) \/ Found(t) \/ Map(t)
  <2>1. pc[t] # "enter" /\ pc'[t] # "enter" /\ UNCHANGED <<l1, l2, l3, devices, next4K>>
    BY <1>0, <1>1 DEF CallsOK, MemoryAlloc, DeviceAlloc, Find, Retry, Found, Map
  <2>2. ~NewL2Table(t) /\ ~NewL3Table(t)
    BY <2>1 DEF NewL2Table, NewL3Table
  <2> QED
    BY <2>1, <2>2, SamePages, PageKeep DEF Pending
<1>2. CASE NoPage(t) \/ NoTable(t) \/ Taken(t) \/ Return(t) \/ MapThroughNull(t) \/ MapLarge(t)
  <2>1. pc'[t] # "enter" /\ UNCHANGED <<l3, next4K>>
    BY <1>0, <1>2 DEF CallsOK, NoPage, NoTable, Taken, Return, MapThroughNull, MapLarge, NextPage
  <2>2. ~NewL2Table(t) /\ ~NewL3Table(t)
    BY <1>n, <2>1 DEF NewL2Table, NewL3Table
  <2>3. devices' = devices \/ Made(t, 2, Slot(addr[t]))
    BY <1>2 DEF NoPage, NoTable, Taken, Return, MapThroughNull, MapLarge
  <2>4. \A p \in Process : SmallPages(p)' = SmallPages(p)
    BY <2>1, <2>3, SamePages DEF Made
  <2> QED
    BY <2>1, <2>2, <2>4, PageKeep DEF Pending
<1>3. CASE TakeDevice(t)
  <2>1. IsDevice(t)' /\ UNCHANGED <<l3, devices, next4K>>
    BY <1>3 DEF TakeDevice, IsDevice
  <2>2. ~NewL2Table(t) /\ ~NewL3Table(t)
    BY <1>n, <2>1 DEF NewL2Table, NewL3Table
  <2> QED
    BY <2>1, <2>2, SamePages, PageKeep DEF Pending
<1>4. CASE TakeLarge(t)
  <2>1. IsLarge(t)' /\ UNCHANGED <<l3, devices, next4K>>
    BY <1>4 DEF TakeLarge, IsLarge
  <2>2. ~NewL2Table(t) /\ ~NewL3Table(t)
    BY <1>n, <2>1 DEF NewL2Table, NewL3Table
  <2> QED
    BY <2>1, <2>2, SamePages, PageKeep DEF Pending
<1>5. CASE TakeSmall(t)
  <2>1. /\ next4K < EndPool4K /\ next4K' = next4K + 1 /\ UNCHANGED <<l3, devices>>
        /\ pc[t] = "page" /\ frame'[t] = next4K
    BY <1>0, <1>5 DEF CallsOK, TakeSmall
  <2>2. ~NewL2Table(t) /\ ~NewL3Table(t)
    BY <2>1 DEF NewL2Table, NewL3Table
  <2> QED
    BY <2>1, <2>2, SamePages, PageKeep
<1>6. CASE NewL2Table(t) \/ NewL3Table(t)
  <2>1. /\ next4K < EndPool4K /\ next4K' = next4K + 1 /\ pc[t] = "enter"
        /\ UNCHANGED <<l3, devices, pc, req, left, frame>>
    BY <1>6 DEF NewL2Table, NewL3Table
  <2> QED
    BY <2>1, SamePages, PageKeep DEF Pending, IsDevice, IsLarge
<1>7. CASE MapSmall(t)
  BY <1>7, MapSmallPages
<1> QED
  BY <1>1, <1>2, <1>3, <1>4, <1>5, <1>6, <1>7 DEF Works, Step, Enter

\* Where boot has left the pages and the tables of a process.
LEMMA InitFrames ==
  ASSUME Init
  PROVE  DeviceInv /\ EntriesInv /\ BlockInv /\ PageInv
<1>1. ASSUME NEW p \in Process
      PROVE  /\ l1[p] = [i \in {0} |-> BootFrame[p] + 2]
             /\ l2[p] = [s \in {0} |-> [block |-> FALSE, frame |-> BootFrame[p] + 3]]
             /\ l3[p] = [a \in 0..Image - 1 |-> IF a = 0 THEN BootFrame[p] + 1
                                                 ELSE BootFrame[p] + 3 + a]
  BY DEF Init
<1>2. /\ next4K = Pool4K /\ next2M = Pool2M
      /\ \A t \in Thread : pc[t] = "user"
  BY DEF Init
<1>3. DeviceInv /\ EntriesInv
  BY <1>2 DEF Init, DeviceInv, EntriesInv
<1>t. ASSUME NEW p \in Process
      PROVE  /\ DOMAIN l1[p] = {0} /\ l1[p][0] = BootFrame[p] + 2
             /\ DOMAIN l2[p] = {0} /\ ~l2[p][0].block /\ l2[p][0].frame = BootFrame[p] + 3
  <2>1. l1[p] = [i \in {0} |-> BootFrame[p] + 2]
    BY <1>1
  <2>2. l2[p] = [s \in {0} |-> [block |-> FALSE, frame |-> BootFrame[p] + 3]]
    BY <1>1
  <2>3. DOMAIN l1[p] = {0} /\ l1[p][0] = BootFrame[p] + 2
    BY <2>1
  <2>4. DOMAIN l2[p] = {0} /\ l2[p][0] = [block |-> FALSE, frame |-> BootFrame[p] + 3]
    BY <2>2
  <2>5. ~l2[p][0].block /\ l2[p][0].frame = BootFrame[p] + 3
    BY <2>4
  <2> QED
    BY <2>3, <2>4, <2>5
<1>4. \A p \in Process : Blocks(p) = {}
  BY <1>t DEF Blocks
<1>5. BlockInv
  BY <1>2, <1>4, Numbers DEF BlockInv, BlocksApart, PendingApart, PendingLarge
<1>6. ASSUME NEW p \in Process
      PROVE  /\ TableFrames(p) \subseteq {BootFrame[p], BootFrame[p] + 2, BootFrame[p] + 3}
             /\ TableFrames(p) \subseteq BootFrames(p)
  <2>1. TableFrames(p) \subseteq {BootFrame[p], BootFrame[p] + 2, BootFrame[p] + 3}
    BY <1>t DEF TableFrames
  <2>2. {BootFrame[p], BootFrame[p] + 2, BootFrame[p] + 3} \subseteq BootFrames(p)
    BY Numbers DEF BootFrames
  <2> QED
    BY <2>1, <2>2
<1>7. ASSUME NEW p \in Process, NEW a \in DOMAIN l3[p]
      PROVE  /\ l3[p][a] \in BootFrames(p) /\ l3[p][a] \notin TableFrames(p)
             /\ \A b \in DOMAIN l3[p] : l3[p][a] = l3[p][b] => a = b
  <2>1. BootFrame[p] \in Nat /\ Image \in Nat \ {0}
    BY Numbers
  <2>2. l3[p] = [x \in 0..Image - 1 |-> IF x = 0 THEN BootFrame[p] + 1
                                                 ELSE BootFrame[p] + 3 + x]
    BY <1>1
  <2>3. l3[p][a] \in BootFrames(p)
    BY <2>1, <2>2 DEF BootFrames
  <2>4. l3[p][a] \notin {BootFrame[p], BootFrame[p] + 2, BootFrame[p] + 3}
    BY <2>1, <2>2, SMTT(30)
  <2>5. \A b \in DOMAIN l3[p] : l3[p][a] = l3[p][b] => a = b
    BY <2>1, <2>2
  <2> QED
    BY <1>6, <2>3, <2>4, <2>5
<1>8. \A p, q \in Process : \A f \in BootFrames(p) : f \in BootFrames(q) => p = q
  BY Numbers
<1>9. \A p \in Process : BootFrames(p) \subseteq OldFrames
  BY DEF OldFrames, Boot
<1>s. \A p \in Process : SmallPages(p) = DOMAIN l3[p]
  BY DEF Init, SmallPages
<1>10. \A p \in Process : \A a \in DOMAIN l3[p] : Clean(l3[p][a])
  BY <1>6, <1>7, <1>8, <1>9 DEF Clean
<1>11. PagesOnce
  <2> SUFFICES ASSUME NEW p \in Process, NEW q \in Process,
                      NEW a \in DOMAIN l3[p], NEW b \in DOMAIN l3[q], l3[p][a] = l3[q][b]
               PROVE  p = q /\ a = b
    BY <1>s DEF PagesOnce
  <2>1. p = q
    BY <1>7, <1>8
  <2> QED
    BY <1>7, <2>1
<1>12. PendingClean
  BY <1>2 DEF PendingClean, Pending
<1>13. PageInv
  BY <1>2, <1>6, <1>9, <1>10, <1>11, <1>12, <1>s, Numbers DEF PageInv, PagesClean
<1> QED
  BY <1>3, <1>5, <1>13

-----------------------------------------------------------------------------

FramesInv == TInv /\ DeviceInv /\ EntriesInv /\ BlockInv /\ PageInv

LEMMA FramesInvStep ==
  ASSUME FramesInv, [Next]_vmmVars
  PROVE  FramesInv'
<1>1. TInv' /\ TypeInv
  BY TypeStep, TablesGrow DEF FramesInv, TInv
<1>2. CASE UNCHANGED vmmVars
  <2>1. DeviceInv'
    BY <1>2 DEF FramesInv, DeviceInv, IsDevice, Rest, vmmVars
  <2>e. EntriesInv'
    BY <1>2 DEF FramesInv, EntriesInv, vmmVars
  <2>2. BlockInv'
    BY <1>2 DEF FramesInv, BlockInv, BlocksApart, PendingApart, PendingLarge, Blocks, IsDevice,
                IsLarge, vmmVars
  <2>s. \A p \in Process : SmallPages(p)' = SmallPages(p)
    BY <1>2 DEF SmallPages, vmmVars
  <2>3. PageInv'
    <3>1. UNCHANGED <<l1, l2, l3, next4K, pc, req, left, frame>>
      BY <1>2 DEF vmmVars
    <3>2. /\ \A p \in Process : TableFrames(p)' = TableFrames(p)
          /\ \A f : Clean(f)' <=> Clean(f)
          /\ \A t \in Thread : Pending(t)' <=> Pending(t)
      BY <3>1 DEF Clean, Pending, OldFrames, TableFrames, IsDevice, IsLarge
    <3>3. PagesClean' /\ PagesOnce' /\ PendingClean'
      BY <2>s, <3>1, <3>2 DEF FramesInv, PageInv, PagesClean, PagesOnce, PendingClean, Clean
    <3> QED
      BY <3>1, <3>2, <3>3 DEF FramesInv, PageInv, OldFrames
  <2> QED
    BY <1>1, <2>1, <2>e, <2>2, <2>3 DEF FramesInv
<1>3. CASE Next
  <2>1. PICK t \in Thread : Works(t)
    BY <1>3 DEF Next, Works
  <2> QED
    BY <1>1, <2>1, DeviceStep, EntriesStep, BlockStep, PageStep DEF FramesInv
<1> QED
  BY <1>2, <1>3

LEMMA MappedIsInt ==
  ASSUME TInv, NEW p \in Process, NEW a \in Mapped(p)
  PROVE  a \in Int
<1>0. TablesOK
  BY TypeParts DEF TInv, TypeInv
<1>1. CASE a \in DOMAIN l3[p]
  BY <1>0, <1>1 DEF TablesOK
<1>2. CASE a \notin DOMAIN l3[p]
  <2>1. PICK i \in DOMAIN l2[p] : a \in i * Block..i * Block + Block - 1
    BY <1>2 DEF Mapped
  <2> QED
    BY <2>1
<1> QED
  BY <1>1, <1>2

\* The frame that a page of memory is mapped to: where it is from.
LEMMA FrameOf ==
  ASSUME FramesInv, NEW p \in Process, NEW a \in MemoryPages(p)
  PROVE  \/ /\ a \in SmallPages(p) /\ V2P(p, a) = l3[p][a]
            /\ Clean(V2P(p, a)) /\ V2P(p, a) < EndPool4K
         \/ /\ Slot(a) \in Blocks(p) /\ Pooled(l2[p][Slot(a)].frame, next2M)
            /\ V2P(p, a) = l2[p][Slot(a)].frame + (a % Block)
<1> DEFINE s == Slot(a)
<1>0. TypeInv /\ Nested /\ TablesOK /\ CallsOK /\ a \in Mapped(p) /\ ~ForDevice(p, a)
  BY TypeParts DEF FramesInv, TInv, TypeInv, MemoryPages
<1>1. s \in DOMAIN l2[p] /\ (l2[p][s].block \/ a \in DOMAIN l3[p])
  BY <1>0, MappedIs DEF FramesInv
<1>2. CASE l2[p][s].block
  <2>1. V2P(p, a) = l2[p][s].frame + (a % Block) /\ s \in Blocks(p)
    BY <1>0, <1>1, <1>2 DEF V2P, Blocks, ForDevice, InBlock
  <2> QED
    BY <2>1 DEF FramesInv, BlockInv, BlocksApart
<1>3. CASE ~l2[p][s].block
  <2>1. a \in SmallPages(p) /\ V2P(p, a) = l3[p][a]
    BY <1>0, <1>1, <1>3 DEF V2P, SmallPages, ForDevice, InBlock
  <2>2. Clean(V2P(p, a))
    BY <2>1 DEF FramesInv, PageInv, PagesClean
  <2>3. V2P(p, a) < next4K /\ V2P(p, a) \in Nat /\ next4K <= EndPool4K /\ next4K \in Nat
    BY <1>0, <2>2, OldIs DEF FramesInv, PageInv, Clean, CallsOK
  <2> QED
    BY <2>1, <2>2, <2>3, Numbers
<1> QED
  BY <1>2, <1>3

\* The same place of the same block is the same page.
LEMMA PlaceOf ==
  ASSUME NEW a \in Int, NEW b \in Int, Slot(a) = Slot(b), a % Block = b % Block
  PROVE  a = b
<1>1. /\ a = Block * (a \div Block) + (a % Block)
      /\ b = Block * (b \div Block) + (b % Block)
  BY Constants
<1> QED
  BY <1>1 DEF Slot

LEMMA FramesInvExclusive == FramesInv => FramesExclusive
<1> SUFFICES ASSUME FramesInv, NEW p \in Process, NEW q \in Process, NEW a \in MemoryPages(p)
             PROVE  /\ \A b \in MemoryPages(q) : V2P(p, a) = V2P(q, b) => p = q /\ a = b
                    /\ V2P(p, a) \notin TableFrames(q)
  BY DEF FramesExclusive
<1> DEFINE f == V2P(p, a)
           s == Slot(a)
<1>0. TInv /\ TypeInv /\ TablesOK /\ CallsOK /\ a \in Int
  BY TypeParts, MappedIsInt DEF FramesInv, TInv, TypeInv, MemoryPages
<1>i. \A b \in MemoryPages(q) : b \in Int
  BY <1>0, MappedIsInt DEF MemoryPages
<1>1. CASE a \in SmallPages(p) /\ f = l3[p][a] /\ Clean(f) /\ f < EndPool4K
  <2>1. f \notin TableFrames(q)
    BY <1>1 DEF Clean
  <2>2. ASSUME NEW b \in MemoryPages(q), f = V2P(q, b) PROVE p = q /\ a = b
    <3>1. CASE b \in SmallPages(q) /\ V2P(q, b) = l3[q][b]
      <4>1. l3[p][a] = l3[q][b] /\ PagesOnce
        BY <1>1, <2>2, <3>1 DEF FramesInv, PageInv
      <4> QED
        BY <1>1, <3>1, <4>1 DEF PagesOnce
    <3>2. CASE /\ Slot(b) \in Blocks(q) /\ Pooled(l2[q][Slot(b)].frame, next2M)
               /\ f = l2[q][Slot(b)].frame + (b % Block)
      <4> DEFINE g == l2[q][Slot(b)].frame
                 m == b % Block
      <4>1. g \in Nat /\ m \in 0..Block - 1
        BY <1>0, <1>i, <3>2, Constants DEF TablesOK, Blocks, Entry
      <4>2. Pool2M <= g /\ f = g + m
        BY <3>2 DEF Pooled
      <4> HIDE DEF f, g, m
      <4> QED
        BY <1>1, <4>1, <4>2, Numbers
    <3> QED
      BY <2>2, <3>1, <3>2, FrameOf
  <2> QED
    BY <2>1, <2>2
<1>2. CASE /\ s \in Blocks(p) /\ Pooled(l2[p][s].frame, next2M)
           /\ f = l2[p][s].frame + (a % Block)
  <2> DEFINE g == l2[p][s].frame
             m == a % Block
  <2>1. g \in Nat /\ m \in 0..Block - 1 /\ Block \in Nat
    BY <1>0, <1>2, Constants DEF TablesOK, Blocks, Entry
  <2>2. Pool2M <= g /\ f = g + m
    BY <1>2 DEF Pooled
  <2>3. f >= EndPool4K /\ f \in Nat
    <3> HIDE DEF f, g, m
    <3> QED
      BY <2>1, <2>2, Numbers
  <2>4. f \notin TableFrames(q)
    <3>1. ~(f < next4K)
      BY <1>0, <2>3, Numbers DEF FramesInv, PageInv, CallsOK
    <3>2. f \notin OldFrames
      BY <1>0, <3>1, OldIs DEF FramesInv, PageInv, CallsOK
    <3> QED
      BY <3>2 DEF FramesInv, PageInv
  <2>5. ASSUME NEW b \in MemoryPages(q), f = V2P(q, b) PROVE p = q /\ a = b
    <3> DEFINE h == l2[q][Slot(b)].frame
               n == b % Block
    <3>1. /\ Slot(b) \in Blocks(q) /\ Pooled(h, next2M) /\ f = h + n
      BY <2>3, <2>5, FrameOf, Numbers
    <3>2. h \in Nat /\ n \in 0..Block - 1 /\ b \in Int
      <4>1. h \in Nat /\ b \in Int
        BY <1>0, <1>i, <3>1 DEF TablesOK, Blocks, Entry
      <4> QED
        BY <4>1, Constants
    <3>3. ~Apart(g, h)
      <4> HIDE DEF f, g, m, h, n
      <4> QED
        BY <2>1, <2>2, <3>1, <3>2 DEF Apart
    <3>4. <<p, s>> = <<q, Slot(b)>>
      BY <1>2, <3>1, <3>3 DEF FramesInv, BlockInv, BlocksApart
    <3>5. g = h /\ m = n
      <4>1. g = h
        BY <3>4
      <4> HIDE DEF f, g, m, h, n
      <4> QED
        BY <2>1, <2>2, <3>1, <3>2, <4>1
    <3> QED
      BY <1>0, <3>2, <3>4, <3>5, PlaceOf
  <2> QED
    BY <2>4, <2>5
<1> QED
  BY <1>1, <1>2, FrameOf

\* Nothing of a device leads into a range that the platform counts.
LEMMA FramesInvRestricted == FramesInv => RestrictedUnmapped
<1> SUFFICES ASSUME FramesInv, NEW p \in Process, NEW a \in Mapped(p), ForDevice(p, a),
                    NEW z \in Zones, z.base <= V2P(p, a), V2P(p, a) < z.end
             PROVE  FALSE
  BY DEF RestrictedUnmapped
<1> DEFINE s == Slot(a)
           f == V2P(p, a)
<1>0. TInv /\ TablesOK /\ EntriesInv /\ a \in Int /\ z.base \in Nat /\ z.end \in Nat
  BY TypeParts, MappedIsInt, AddressSpaceAssumption DEF FramesInv, TInv, TypeInv
<1>1. s \in DOMAIN l2[p] /\ (l2[p][s].block \/ a \in DOMAIN l3[p])
  BY <1>0, MappedIs
<1>2. f \in Nat => f \in Counted
  <2> HIDE DEF f
  <2>1. f \in Nat => f \in z.base..z.end - 1
    BY <1>0 DEF f
  <2> QED
    BY <2>1 DEF Counted
<1>3. CASE l2[p][s].block
  <2> DEFINE g == l2[p][s].frame
  <2>1. f = g + (a % Block) /\ <<p, 2, s>> \in devices
    BY <1>1, <1>3 DEF V2P, ForDevice, InBlock
  <2>2. g \in Nat /\ a % Block \in 0..Block - 1
    BY <1>0, <1>1, Constants DEF TablesOK, Entry
  <2>3. \A y \in Counted : ~(g <= y /\ y < g + Block)
    BY <1>0, <2>1 DEF EntriesInv
  <2> HIDE DEF f, g, s
  <2> QED
    BY <1>2, <2>1, <2>2, <2>3, Constants
<1>4. CASE ~l2[p][s].block
  <2>1. f = l3[p][a] /\ <<p, 3, a>> \in devices /\ a \in DOMAIN l3[p]
    BY <1>1, <1>4 DEF V2P, ForDevice, InBlock
  <2>2. f \in Nat /\ f \notin Counted
    BY <1>0, <2>1 DEF TablesOK, EntriesInv
  <2> QED
    BY <1>2, <2>2
<1> QED
  BY <1>3, <1>4

\* Whatever processes ask for: a frame is mapped for memory at most once in the whole
\* system, and no frame of a translation table is.
THEOREM FramesAreExclusive == Spec => []FramesExclusive
<1>1. Init => FramesInv
  BY InitTypeInv, InitNested, InitFrames DEF FramesInv, TInv
<1>2. FramesInv /\ [Next]_vmmVars => FramesInv'
  BY FramesInvStep
<1>3. FramesInv => FramesExclusive
  BY FramesInvExclusive
<1> QED
  BY <1>1, <1>2, <1>3, PTL DEF Spec

\* Whatever ranges the platform counts and devices are asked for: no page of a device
\* leads into one of them.
THEOREM RestrictedRangesKept == Spec => []RestrictedUnmapped
<1>1. Init => FramesInv
  BY InitTypeInv, InitNested, InitFrames DEF FramesInv, TInv
<1>2. FramesInv /\ [Next]_vmmVars => FramesInv'
  BY FramesInvStep
<1>3. FramesInv => RestrictedUnmapped
  BY FramesInvRestricted
<1> QED
  BY <1>1, <1>2, <1>3, PTL DEF Spec

-----------------------------------------------------------------------------
\* Regions

Aligned(a) == a = Slot(a) * Block

Mapping(t) == pc[t] \in {"page", "enter"}

\* The table's lock is held from the search to its end, and while a range is mapped.
LockInv == \A t \in Thread : pc[t] \notin {"user", "find", "map"} => lock[Owner[t]] = t

\* A search resumes at pages in use, or goes up in blocks: a range found begins a slot,
\* or lies in a slot that has its entry.
FoundInv ==
  \A t \in Thread :
    /\ pc[t] = "search" => Aligned(addr[t]) \/
         (req[t].small > 0 /\ Slot(addr[t]) \in DOMAIN l2[Owner[t]])
    /\ pc[t] = "map" \/ Mapping(t) =>
         Aligned(base[t]) \/ Slot(base[t]) \in DOMAIN l2[Owner[t]]
    /\ pc[t] \in {"find", "search", "map"} /\ IsDevice(t) => frame[t] = req[t].pa

\* Blocks are mapped first, from the base on.
ProgressInv ==
  \A t \in Thread : Mapping(t) =>
    /\ left[t].large <= req[t].large /\ left[t].small <= req[t].small
    /\ left[t].large > 0 => left[t].small = req[t].small
    /\ addr[t] + Len(left[t]) = base[t] + Len(req[t])
    /\ left[t].large < req[t].large => Aligned(base[t])
    /\ IsDevice(t) => frame[t] = req[t].pa + (addr[t] - base[t])

Present(p, a) == InBlock(p, a) \/ a \in DOMAIN l3[p]

\* What a call for memory is about to map is of the pools, and its entry is new.
GivenInv ==
  /\ Pool4K <= next4K /\ Pool2M <= next2M
  /\ \A t \in Thread : PendingLarge(t) => Pool2M <= frame[t] /\ frame[t] + Block <= next2M
  /\ \A t \in Thread : Pending(t) => Pool4K <= frame[t] /\ frame[t] < next4K
  /\ \A p \in Process :
       /\ \A s : <<p, 2, s>> \in devices => s \in DOMAIN l2[p]
       /\ \A a : <<p, 3, a>> \in devices => a \in DOMAIN l3[p]

\* The pages from the first to before the last of a call for r are mapped.
Backed(p, r, from, to) ==
  \A a \in from..to - 1 :
    /\ a < from + r.large * Block => InBlock(p, a)
    /\ Present(p, a)
    /\ a < from + r.large * Block \/ ~InBlock(p, a) => Leads(p, r, from, a)

BackedInv ==
  /\ \A t \in Thread : Mapping(t) => Backed(Owner[t], req[t], base[t], addr[t])
  /\ \A p \in Process : \A x \in regions[p] : Backed(p, x.req, x.base, x.base + Len(x.req))

LEMMA AlignedIs ==
  ASSUME NEW k \in Nat
  PROVE  Slot(k * Block) = k /\ Aligned(k * Block) /\ k * Block \in Nat
<1>1. k * Block \in Nat /\ Block \in Nat \ {0}
  BY Constants
<1>2. k * Block \in k * Block..k * Block + Block - 1
  BY <1>1
<1>3. Slot(k * Block) = k
  BY <1>2, SlotOf
<1> QED
  BY <1>1, <1>3 DEF Aligned

LEMMA SlotNat ==
  ASSUME NEW a \in Nat
  PROVE  Slot(a) \in Nat /\ Slot(a) * Block \in Nat
<1>1. Slot(a) \in Nat
  BY Constants, QuotientNat DEF Slot
<1> QED
  BY <1>1, Constants

LEMMA AlignedPlus ==
  ASSUME NEW b \in Nat, Aligned(b), NEW k \in Nat
  PROVE  Aligned(b + k * Block)
<1> DEFINE s == Slot(b)
<1>1. s \in Nat /\ b = s * Block
  BY SlotNat DEF Aligned
<1> HIDE DEF s
<1>2. b + k * Block = (s + k) * Block
  BY <1>1, Constants
<1>3. s + k \in Nat
  BY <1>1
<1> QED
  BY <1>2, <1>3, AlignedIs

\* The pages of a block that begins at b.
LEMMA BlockPage ==
  ASSUME NEW b \in Nat, Aligned(b), NEW a \in b..b + Block - 1
  PROVE  Slot(a) = Slot(b) /\ a % Block = a - b
<1> DEFINE s == Slot(b)
<1>1. s \in Nat /\ b = s * Block
  BY SlotNat DEF Aligned
<1>2. Slot(a) = s
  BY <1>1, SlotOf
<1>3. a \in Int /\ a = Block * Slot(a) + (a % Block) /\ Block * s = s * Block
  BY <1>1, Constants DEF Slot
<1>4. a = b + (a % Block) /\ a % Block \in Int
  <2>1. a % Block \in 0..Block - 1
    BY <1>3, Constants
  <2> QED
    BY <1>1, <1>2, <1>3, <2>1
<1> QED
  BY <1>1, <1>2, <1>3, <1>4

\* A page either begins a slot or is of the slot of the page before.
LEMMA PageBefore ==
  ASSUME NEW a \in Nat, a > 0
  PROVE  Aligned(a) \/ Slot(a) = Slot(a - 1)
<1> DEFINE s == Slot(a)
<1>1. s \in Nat /\ s * Block \in Nat
  BY SlotNat
<1>2. a = Block * s + (a % Block) /\ a % Block \in 0..Block - 1 /\ Block * s = s * Block
  BY <1>1, Constants DEF Slot
<1> SUFFICES ASSUME ~Aligned(a) PROVE Slot(a - 1) = s
  OBVIOUS
<1>3. a - 1 \in s * Block..s * Block + Block - 1
  <2>1. a # s * Block
    BY DEF Aligned
  <2> HIDE DEF s
  <2> QED
    BY <1>1, <1>2, <2>1, Constants
<1> QED
  BY <1>1, <1>3, SlotOf

LEMMA PresentIs ==
  ASSUME TInv, NEW p \in Process, NEW a, Present(p, a)
  PROVE  /\ Slot(a) \in DOMAIN l2[p]
         /\ InBlock(p, a) <=> ~(a \in DOMAIN l3[p])
BY DEF TInv, Nested, Present, InBlock

\* Pages that are mapped stay as they are.
LEMMA PresentStays ==
  ASSUME TInv, [Next]_vmmVars, NEW p \in Process, NEW a, Present(p, a)
  PROVE  /\ Present(p, a)' /\ (InBlock(p, a)' <=> InBlock(p, a))
         /\ V2P(p, a)' = V2P(p, a)
         /\ ForDevice(p, a)' <=> ForDevice(p, a)
<1>1. Slot(a) \in DOMAIN l2[p]
  BY PresentIs
<1>2. /\ Slot(a) \in DOMAIN l2'[p] /\ l2'[p][Slot(a)] = l2[p][Slot(a)]
      /\ a \in DOMAIN l3[p] => a \in DOMAIN l3'[p] /\ l3'[p][a] = l3[p][a]
  BY <1>1, TablesGrow DEF Grows
<1>3. InBlock(p, a)' <=> InBlock(p, a)
  BY <1>1, <1>2 DEF InBlock
<1>4. ~InBlock(p, a) => a \in DOMAIN l3[p] /\ a \in DOMAIN l3'[p]
  BY <1>2 DEF Present
<1>5. V2P(p, a)' = V2P(p, a)
  BY <1>1, <1>2, <1>3, <1>4 DEF V2P, InBlock
<1>6. ForDevice(p, a)' <=> ForDevice(p, a)
  <2>1. CASE devices' = devices
    BY <1>3, <2>1 DEF ForDevice
  <2>2. CASE devices' # devices
    <3>1. PICK t \in Thread : Works(t)
      BY <2>2 DEF Next, Works, vmmVars
    <3>2. CASE MapLarge(t) /\ Made(t, 2, Slot(addr[t]))
      <4>1. ~(p = Owner[t] /\ Slot(a) = Slot(addr[t]))
        BY <1>1, <3>2 DEF MapLarge, HasL2
      <4> QED
        BY <1>3, <3>2, <4>1 DEF ForDevice, Made
    <3>3. CASE MapSmall(t) /\ Made(t, 3, addr[t])
      <4>1. InBlock(p, a) \/ ~(p = Owner[t] /\ a = addr[t])
        BY <1>4, <3>3 DEF MapSmall
      <4> QED
        BY <1>3, <3>3, <4>1 DEF ForDevice, Made
    <3> QED
      BY <2>2, <3>1, <3>2, <3>3, DevicesAfter
  <2> QED
    BY <2>1, <2>2
<1> QED
  BY <1>2, <1>3, <1>5, <1>6 DEF Present

LEMMA LockStep ==
  ASSUME TypeInv, LockInv, NEW t \in Thread, Works(t)
  PROVE  LockInv'
<1>0. CallsOK /\ Owner \in [Thread -> Process] /\ None \notin Thread
  BY TypeParts, AddressSpaceAssumption DEF TypeInv
<1>1. \A u \in Thread \ {t} : pc'[u] = pc[u]
  BY OthersKeep
<1>2. CASE Find(t) \/ Map(t)
  <2>1. /\ lock[Owner[t]] = None /\ lock' = [lock EXCEPT ![Owner[t]] = t]
    BY <1>2 DEF Find, Map, Acquire
  <2> QED
    BY <1>0, <1>1, <2>1 DEF CallsOK, LockInv
<1>3. CASE Found(t) \/ Return(t)
  <2>1. /\ pc[t] \notin {"user", "find", "map"} /\ pc'[t] \in {"user", "map"}
        /\ lock' = [lock EXCEPT ![Owner[t]] = None]
    BY <1>0, <1>3 DEF Found, Return, Release, CallsOK
  <2> QED
    BY <1>0, <1>1, <2>1 DEF CallsOK, LockInv
<1>4. ASSUME lock' = lock, pc'[t] \in {"user", "find", "map"} \/ pc[t] \notin {"user", "find", "map"}
      PROVE  LockInv'
  BY <1>0, <1>1, <1>4 DEF CallsOK, LockInv
<1>5. CASE \/ \E r \in MemoryRequest[t] : MemoryAlloc(t, r)
           \/ \E r \in DeviceRequest[t] : DeviceAlloc(t, r)
           \/ Retry(t)
  BY <1>0, <1>4, <1>5 DEF CallsOK, MemoryAlloc, DeviceAlloc, Retry
<1>6. CASE \/ TakeDevice(t) \/ TakeLarge(t) \/ TakeSmall(t) \/ NoPage(t)
           \/ NewL2Table(t) \/ NewL3Table(t) \/ NoTable(t) \/ Taken(t)
           \/ MapLarge(t) \/ MapSmall(t) \/ MapThroughNull(t)
  <2>1. lock' = lock /\ pc[t] \in {"page", "enter"}
    BY <1>6 DEF TakeDevice, TakeLarge, TakeSmall, NoPage, NewL2Table, NewL3Table, NoTable,
                Taken, MapLarge, MapSmall, MapThroughNull, NextPage
  <2> QED
    BY <1>4, <2>1
<1> QED
  BY <1>2, <1>3, <1>5, <1>6 DEF Works, Step, Enter

\* The entries of L2 tables never go.
LEMMA SlotsStay ==
  ASSUME TInv, [Next]_vmmVars, NEW p \in Process
  PROVE  DOMAIN l2[p] \subseteq DOMAIN l2'[p]
BY TablesGrow DEF Grows

LEMMA UsedHasSlot ==
  ASSUME NEW p \in Process, NEW a, ~Free(p, a)
  PROVE  Slot(a) \in DOMAIN l2[p]
BY DEF Free, V2P

\* Where a range may begin.
LEMMA SkipBegins ==
  ASSUME TypeInv, FoundInv, NEW t \in Thread, pc[t] = "search", NEW a \in Skip(t)
  PROVE  /\ a \in Nat
         /\ Aligned(a) \/ (req[t].small > 0 /\ Slot(a) \in DOMAIN l2[Owner[t]])
<1> DEFINE step == IF req[t].small > 0 THEN 1 ELSE Block
           at(j) == addr[t] + j * step
<1>0. CallsOK /\ Owner[t] \in Process
  BY TypeParts, Constants DEF TypeInv
<1>1. addr[t] \in Nat /\ a \in Nat /\ step \in Nat
  BY <1>0, SkipIs, Constants DEF CallsOK
<1>2. PICK i \in 0..Cardinality(Mapped(Owner[t])) :
        a = at(i) /\ \A j \in 0..i - 1 : ~Free(Owner[t], at(j))
  BY DEF Skip
<1>3. i \in Nat
  BY <1>2
<1>4. CASE i = 0
  <2>1. a = addr[t]
    BY <1>1, <1>2, <1>4
  <2> QED
    BY <1>1, <2>1 DEF FoundInv
<1>5. CASE i > 0 /\ req[t].small > 0
  <2>1. a = addr[t] + i /\ i - 1 \in 0..i - 1 /\ at(i - 1) = addr[t] + (i - 1)
    BY <1>1, <1>2, <1>3, <1>5
  <2>2. ~Free(Owner[t], a - 1) /\ a > 0
    <3>1. at(i - 1) = a - 1
      BY <1>1, <1>3, <2>1
    <3> HIDE DEF at
    <3> QED
      BY <1>1, <1>2, <1>5, <2>1, <3>1
  <2>3. Slot(a - 1) \in DOMAIN l2[Owner[t]]
    BY <1>0, <2>2, UsedHasSlot
  <2> QED
    BY <1>1, <1>5, <2>2, <2>3, PageBefore
<1>6. CASE ~(req[t].small > 0)
  <2>1. Aligned(addr[t]) /\ a = addr[t] + i * Block
    BY <1>2, <1>6 DEF FoundInv
  <2> QED
    BY <1>1, <1>3, <2>1, AlignedPlus
<1> QED
  BY <1>3, <1>4, <1>5, <1>6

LEMMA FoundStep ==
  ASSUME TInv, FoundInv, NEW t \in Thread, Works(t)
  PROVE  FoundInv'
<1>0. CallsOK /\ Owner[t] \in Process /\ TypeInv /\ [Next]_vmmVars
  BY TypeParts, Constants DEF TInv, TypeInv, Works, Next
<1> DEFINE o == Owner[t]
<1>1. \A u \in Thread : DOMAIN l2[Owner[u]] \subseteq DOMAIN l2'[Owner[u]]
  BY <1>0, SlotsStay, Constants
<1>2. ASSUME NEW u \in Thread, pc'[u] = pc[u], req'[u] = req[u], addr'[u] = addr[u],
             base'[u] = base[u], frame'[u] = frame[u]
      PROVE  /\ pc'[u] = "search" => Aligned(addr'[u]) \/
                  (req'[u].small > 0 /\ Slot(addr'[u]) \in DOMAIN l2'[Owner[u]])
             /\ pc'[u] = "map" \/ Mapping(u)' =>
                  Aligned(base'[u]) \/ Slot(base'[u]) \in DOMAIN l2'[Owner[u]]
             /\ pc'[u] \in {"find", "search", "map"} /\ IsDevice(u)' => frame'[u] = req'[u].pa
  BY <1>1, <1>2 DEF FoundInv, Mapping, IsDevice
<1> SUFFICES /\ pc'[t] = "search" => Aligned(addr'[t]) \/
                  (req'[t].small > 0 /\ Slot(addr'[t]) \in DOMAIN l2'[o])
             /\ pc'[t] = "map" \/ Mapping(t)' =>
                  Aligned(base'[t]) \/ Slot(base'[t]) \in DOMAIN l2'[o]
             /\ pc'[t] \in {"find", "search", "map"} /\ IsDevice(t)' => frame'[t] = req'[t].pa
  <2>1. \A u \in Thread \ {t} : /\ pc'[u] = pc[u] /\ req'[u] = req[u] /\ addr'[u] = addr[u]
                                /\ base'[u] = base[u] /\ frame'[u] = frame[u]
    BY <1>0, OthersKeep
  <2> QED
    BY <1>2, <2>1 DEF FoundInv, Aligned, Slot
<1>3. CASE \/ \E r \in MemoryRequest[t] : MemoryAlloc(t, r)
           \/ \E r \in DeviceRequest[t] : DeviceAlloc(t, r)
  BY <1>0, <1>3, Constants DEF CallsOK, MemoryAlloc, DeviceAlloc, Mapping, IsDevice
<1>4. CASE Find(t)
  <2>1. /\ pc[t] = "find" /\ pc'[t] = "search" /\ addr'[t] = 0 /\ UNCHANGED <<req, frame>>
    BY <1>0, <1>4 DEF CallsOK, Find
  <2>2. Aligned(0)
    <3>1. Aligned(0 * Block) /\ 0 * Block = 0
      BY AlignedIs, Constants
    <3> QED
      BY <3>1
  <2> QED
    BY <2>1, <2>2 DEF FoundInv, Mapping, IsDevice
<1>5. CASE Retry(t)
  <2>1. PICK a \in Skip(t) : \E y \in Used(t, a) : addr' = [addr EXCEPT ![t] = y]
    BY <1>5 DEF Retry
  <2>2. PICK y \in Used(t, a) : addr' = [addr EXCEPT ![t] = y]
    BY <2>1
  <2>3. /\ pc[t] = "search" /\ UNCHANGED <<l2, pc, req, frame>> /\ addr'[t] = y
        /\ req[t] \in Request
    BY <1>0, <1>5, <2>2 DEF CallsOK, Retry
  <2>4. y \in Probed(req[t], a) /\ Slot(y) \in DOMAIN l2[o]
    BY <1>0, UsedHasSlot DEF Used
  <2>5. a \in Nat /\ (Aligned(a) \/ req[t].small > 0)
    BY <1>0, <2>3, SkipBegins
  <2>6. CASE req[t].small > 0
    BY <2>3, <2>4, <2>6 DEF FoundInv, Mapping, IsDevice
  <2>7. CASE ~(req[t].small > 0)
    <3>1. req[t].small = 0 /\ req[t].large \in Nat
      BY <2>3, <2>7, RequestIs
    <3>2. PICK i \in 0..req[t].large - 1 : y = a + req[t].small + i * Block
      BY <2>4, <3>1 DEF Probed
    <3>3. i \in Nat /\ y = a + i * Block
      BY <2>5, <3>1, <3>2, Constants
    <3>4. Aligned(y)
      BY <2>5, <2>7, <3>3, AlignedPlus
    <3> QED
      BY <2>3, <3>4 DEF FoundInv, Mapping, IsDevice
  <2> QED
    BY <2>6, <2>7
<1>6. CASE Found(t)
  <2>1. PICK a \in Skip(t) : base' = [base EXCEPT ![t] = a]
    BY <1>6 DEF Found
  <2>2. /\ pc[t] = "search" /\ pc'[t] = "map" /\ UNCHANGED <<l2, req, frame>> /\ base'[t] = a
    BY <1>0, <1>6, <2>1 DEF CallsOK, Found
  <2>3. Aligned(a) \/ Slot(a) \in DOMAIN l2[o]
    BY <1>0, <2>2, SkipBegins
  <2> QED
    BY <2>2, <2>3 DEF FoundInv, Mapping, IsDevice
<1>7. CASE /\ pc[t] = "map" \/ Mapping(t)
           /\ pc'[t] \notin {"find", "search", "map"} /\ base'[t] = base[t]
  BY <1>1, <1>7 DEF FoundInv, Mapping
<1>8. CASE \/ Map(t) \/ TakeDevice(t) \/ TakeLarge(t) \/ TakeSmall(t) \/ NoPage(t)
           \/ NewL2Table(t) \/ NewL3Table(t) \/ NoTable(t) \/ Taken(t)
           \/ MapLarge(t) \/ MapSmall(t) \/ MapThroughNull(t)
  <2>1. /\ pc[t] = "map" \/ Mapping(t)
        /\ pc'[t] \notin {"find", "search", "map"} /\ base'[t] = base[t]
    BY <1>0, <1>8 DEF CallsOK, Map, TakeDevice, TakeLarge, TakeSmall, NoPage, NewL2Table,
                NewL3Table, NoTable, Taken, MapLarge, MapSmall, MapThroughNull, NextPage, Mapping
  <2> QED
    BY <1>7, <2>1
<1>9. CASE Return(t)
  <2>1. pc'[t] = "user"
    BY <1>0, <1>9 DEF CallsOK, Return
  <2> QED
    BY <2>1 DEF Mapping
<1> QED
  BY <1>3, <1>4, <1>5, <1>6, <1>8, <1>9 DEF Works, Step, Enter

\* NextPage goes one block or one page further.
LEMMA NextPageFurther ==
  ASSUME TypeInv, ProgressInv, NEW t \in Thread, NextPage(t)
  PROVE  LET step == IF IsLarge(t) THEN Block ELSE 1 IN
         /\ pc[t] = "enter" /\ pc'[t] = "page" /\ step \in Nat
         /\ addr[t] \in Nat /\ base[t] \in Nat /\ base[t] <= addr[t]
         /\ addr'[t] = addr[t] + step /\ base'[t] = base[t] /\ req'[t] = req[t]
         /\ IsLarge(t) => /\ left[t].large > 0
                          /\ left'[t].large = left[t].large - 1
                          /\ left'[t].small = left[t].small
                          /\ addr[t] = base[t] + (req[t].large - left[t].large) * Block
                          /\ addr[t] + Block <= base[t] + req[t].large * Block
         /\ ~IsLarge(t) => /\ left[t].large = 0 /\ left'[t].large = 0
                           /\ left'[t].small = left[t].small - 1
                           /\ addr[t] >= base[t] + req[t].large * Block
<1> DEFINE step == IF IsLarge(t) THEN Block ELSE 1
           n == left[t].large
           m == req[t].large
<1>0. CallsOK /\ CallInv
  BY TypeParts DEF TypeInv
<1>1. /\ pc[t] = "enter" /\ left[t] \in [large : Nat, small : Nat]
      /\ n \in Nat /\ m \in Nat /\ left[t].small \in Nat /\ req[t].small \in Nat
      /\ n > 0 \/ left[t].small > 0
      /\ addr[t] \in Nat /\ base[t] \in Nat
  BY <1>0, RequestIs DEF NextPage, CallsOK, CallInv
<1>2. /\ pc'[t] = "page" /\ req'[t] = req[t] /\ base'[t] = base[t] /\ addr'[t] = addr[t] + step
  BY <1>0 DEF NextPage, CallsOK
<1>3. /\ n <= m /\ left[t].small <= req[t].small
      /\ n > 0 => left[t].small = req[t].small
      /\ addr[t] + (n * Block + left[t].small) = base[t] + (m * Block + req[t].small)
  BY <1>1 DEF ProgressInv, Mapping, Len
<1>4. n * Block \in Nat /\ m * Block \in Nat /\ Block \in Nat \ {0}
  BY <1>1, Constants
<1>5. m * Block = n * Block + (m - n) * Block /\ m - n \in Nat /\ (m - n) * Block \in Nat
  <2>1. m - n \in Nat
    BY <1>1, <1>3
  <2>2. PICK d \in Nat : d = m - n
    BY <2>1
  <2>3. m = n + d
    BY <1>1, <2>2
  <2>4. m * Block = n * Block + d * Block
    BY <1>1, <1>4, <2>2, <2>3
  <2> QED
    BY <1>4, <2>2, <2>4
<1>6. base[t] <= addr[t]
  <2> HIDE DEF n, m
  <2> QED
    BY <1>1, <1>3, <1>4, <1>5
<1>7. CASE IsLarge(t)
  <2>1. left'[t] = [left[t] EXCEPT !.large = left[t].large - 1]
    BY <1>0, <1>7 DEF NextPage, CallsOK
  <2>2. left'[t].large = n - 1 /\ left'[t].small = left[t].small
    BY <1>1, <2>1
  <2>3. n > 0
    BY <1>7 DEF IsLarge
  <2>4. n * Block >= Block
    BY <1>1, <1>4, <2>3, OneLess
  <2>5. addr[t] = base[t] + (m - n) * Block /\ addr[t] + Block <= base[t] + m * Block
    <3> HIDE DEF n, m
    <3> QED
      BY <1>1, <1>3, <1>4, <1>5, <2>3, <2>4
  <2> QED
    BY <1>1, <1>2, <1>4, <1>6, <1>7, <2>2, <2>3, <2>5
<1>8. CASE ~IsLarge(t)
  <2>1. left'[t] = [left[t] EXCEPT !.small = left[t].small - 1]
    BY <1>0, <1>8 DEF NextPage, CallsOK
  <2>2. left'[t].large = n /\ left'[t].small = left[t].small - 1
    BY <1>1, <2>1
  <2>3. n = 0
    BY <1>1, <1>8 DEF IsLarge
  <2>4. addr[t] >= base[t] + m * Block
    <3>1. n * Block = 0
      BY <1>4, <2>3
    <3> HIDE DEF n, m
    <3> QED
      BY <1>1, <1>3, <1>4, <3>1
  <2> QED
    BY <1>1, <1>2, <1>4, <1>6, <1>8, <2>2, <2>3, <2>4
<1> QED
  BY <1>7, <1>8

\* A block is mapped where a slot begins.
LEMMA LargeAligned ==
  ASSUME TypeInv, FoundInv, ProgressInv, NEW t \in Thread, MapLarge(t)
  PROVE  Aligned(addr[t]) /\ Aligned(base[t])
<1> DEFINE n == left[t].large
           m == req[t].large
<1>0. CallsOK
  BY TypeParts DEF TypeInv
<1>1. NextPage(t) /\ IsLarge(t) /\ ~HasL2(t)
  BY DEF MapLarge
<1>2. /\ pc[t] = "enter" /\ base[t] \in Nat /\ addr[t] = base[t] + (m - n) * Block
      /\ n \in Nat /\ m \in Nat
  BY <1>0, <1>1, NextPageFurther, RequestIs DEF CallsOK
<1>3. n <= m /\ (n < m => Aligned(base[t]))
  BY <1>2 DEF ProgressInv, Mapping
<1>4. Aligned(base[t])
  <2> SUFFICES ASSUME ~(n < m) PROVE Aligned(base[t])
    BY <1>3
  <2>1. m - n = 0
    BY <1>2, <1>3
  <2>2. addr[t] = base[t]
    <3>1. (m - n) * Block = 0
      BY <2>1, Constants
    <3> QED
      BY <1>2, <3>1
  <2> QED
    BY <1>1, <1>2, <2>2 DEF FoundInv, Mapping, HasL2
<1>5. m - n \in Nat
  BY <1>2, <1>3
<1> QED
  BY <1>2, <1>4, <1>5, AlignedPlus

LEMMA ProgressStep ==
  ASSUME TInv, FoundInv, ProgressInv, NEW t \in Thread, Works(t)
  PROVE  ProgressInv'
<1>0. CallsOK /\ CallInv /\ Owner[t] \in Process /\ TypeInv
  BY TypeParts, Constants DEF TInv, TypeInv
<1> SUFFICES ASSUME Mapping(t)'
             PROVE  /\ left'[t].large <= req'[t].large /\ left'[t].small <= req'[t].small
                    /\ left'[t].large > 0 => left'[t].small = req'[t].small
                    /\ addr'[t] + Len(left'[t]) = base'[t] + Len(req'[t])
                    /\ left'[t].large < req'[t].large => Aligned(base'[t])
                    /\ IsDevice(t)' => frame'[t] = req'[t].pa + (addr'[t] - base'[t])
  <2>1. \A u \in Thread \ {t} :
          /\ pc'[u] = pc[u] /\ req'[u] = req[u] /\ addr'[u] = addr[u]
          /\ base'[u] = base[u] /\ frame'[u] = frame[u] /\ left'[u] = left[u]
    BY <1>0, OthersKeep
  <2>2. ASSUME NEW u \in Thread \ {t}, Mapping(u)'
        PROVE  /\ left'[u].large <= req'[u].large /\ left'[u].small <= req'[u].small
               /\ left'[u].large > 0 => left'[u].small = req'[u].small
               /\ addr'[u] + Len(left'[u]) = base'[u] + Len(req'[u])
               /\ left'[u].large < req'[u].large => Aligned(base'[u])
               /\ IsDevice(u)' => frame'[u] = req'[u].pa + (addr'[u] - base'[u])
    <3>1. Mapping(u) /\ (IsDevice(u)' <=> IsDevice(u))
      BY <2>1, <2>2 DEF Mapping, IsDevice
    <3> QED
      BY <2>1, <3>1 DEF ProgressInv
  <2> QED
    BY <2>2 DEF ProgressInv, Aligned, Slot, Len
<1>1. CASE \/ \E r \in MemoryRequest[t] : MemoryAlloc(t, r)
           \/ \E r \in DeviceRequest[t] : DeviceAlloc(t, r)
           \/ Find(t) \/ Retry(t) \/ Found(t) \/ Return(t) \/ NoPage(t) \/ NoTable(t) \/ Taken(t)
  <2>1. ~Mapping(t)'
    BY <1>0, <1>1 DEF CallsOK, MemoryAlloc, DeviceAlloc, Find, Retry, Found, Return, NoPage,
                      NoTable, Taken, Mapping
  <2> QED
    BY <2>1
<1>2. CASE Map(t)
  <2>1. /\ left'[t] = [large |-> req[t].large, small |-> req[t].small] /\ addr'[t] = base[t]
        /\ UNCHANGED <<req, base, frame>> /\ pc[t] = "map" /\ base[t] \in Nat
        /\ req[t] \in Request
    BY <1>0, <1>2 DEF CallsOK, Map
  <2>2. left'[t].large = req[t].large /\ left'[t].small = req[t].small
    BY <2>1
  <2>3. req[t].large \in Nat /\ req[t].small \in Nat
    BY <2>1, RequestIs
  <2>4. Len(left'[t]) = Len(req[t])
    BY <2>2 DEF Len
  <2>5. IsDevice(t)' => frame'[t] = req'[t].pa + (addr'[t] - base'[t])
    <3> SUFFICES ASSUME IsDevice(t) PROVE frame[t] = req[t].pa + (base[t] - base[t])
      BY <2>1 DEF IsDevice
    <3>1. frame[t] = req[t].pa /\ frame[t] \in Nat
      BY <1>0, <2>1 DEF FoundInv, CallInv, IsDevice
    <3> QED
      BY <2>1, <3>1
  <2> QED
    BY <2>1, <2>2, <2>3, <2>4, <2>5
<1>3. CASE TakeDevice(t) \/ NewL2Table(t) \/ NewL3Table(t)
  <2>1. Mapping(t) /\ UNCHANGED call
    BY <1>0, <1>3 DEF CallsOK, TakeDevice, NewL2Table, NewL3Table, Mapping
  <2> QED
    BY <2>1 DEF ProgressInv, IsDevice
<1>4. CASE TakeLarge(t) \/ TakeSmall(t)
  <2>1. Mapping(t) /\ UNCHANGED <<req, addr, base, left>> /\ ~IsDevice(t)
    BY <1>0, <1>4 DEF CallsOK, TakeLarge, TakeSmall, Mapping
  <2> QED
    BY <2>1 DEF ProgressInv, IsDevice
<1>5. CASE MapLarge(t) \/ MapSmall(t) \/ MapThroughNull(t)
  <2> DEFINE step == IF IsLarge(t) THEN Block ELSE 1
  <2>1. NextPage(t) /\ (IsLarge(t) => MapLarge(t))
    BY <1>5 DEF MapLarge, MapSmall, MapThroughNull
  <2>2. /\ pc[t] = "enter" /\ step \in Nat
        /\ addr[t] \in Nat /\ base[t] \in Nat /\ base[t] <= addr[t]
        /\ addr'[t] = addr[t] + step /\ base'[t] = base[t] /\ req'[t] = req[t]
        /\ IsLarge(t) => /\ left[t].large > 0
                         /\ left'[t].large = left[t].large - 1
                         /\ left'[t].small = left[t].small
        /\ ~IsLarge(t) => /\ left[t].large = 0 /\ left'[t].large = 0
                          /\ left'[t].small = left[t].small - 1
    BY <1>0, <2>1, NextPageFurther
  <2>3. /\ IsDevice(t) => frame'[t] = frame[t] + step
        /\ Len(left[t]) \in Nat /\ Len(left'[t]) = Len(left[t]) - step
    BY <1>0, <2>1, NextPageIs
  <2>4. /\ left[t].large \in Nat /\ left[t].small \in Nat
        /\ req[t].large \in Nat /\ req[t].small \in Nat
        /\ IsDevice(t) => req[t].pa \in Nat /\ frame[t] \in Nat
        /\ Len(req[t]) \in Nat
    <3>1. left[t].large \in Nat /\ left[t].small \in Nat
      BY <1>0 DEF CallsOK
    <3>2. req[t] \in Request
      BY <1>0 DEF CallsOK
    <3>3. req[t].large \in Nat /\ req[t].small \in Nat
      BY <3>2, RequestIs
    <3>4. Len(req[t]) \in Nat
      BY <3>3, SizeOf
    <3>5. IsDevice(t) => req[t].pa \in Nat /\ frame[t] \in Nat
      BY <1>0, <2>2, <3>2, RequestIs DEF IsDevice, CallInv
    <3> QED
      BY <3>1, <3>3, <3>4, <3>5
  <2>5. /\ left[t].large <= req[t].large /\ left[t].small <= req[t].small
        /\ left[t].large > 0 => left[t].small = req[t].small
        /\ addr[t] + Len(left[t]) = base[t] + Len(req[t])
        /\ left[t].large < req[t].large => Aligned(base[t])
        /\ IsDevice(t) => frame[t] = req[t].pa + (addr[t] - base[t])
    BY <2>2 DEF ProgressInv, Mapping
  <2>6. IsLarge(t) => Aligned(base[t])
    BY <1>0, <2>1, LargeAligned
  <2>7. IsDevice(t)' <=> IsDevice(t)
    BY <2>2 DEF IsDevice
  <2> HIDE DEF step
  <2>8. addr'[t] + Len(left'[t]) = base'[t] + Len(req'[t])
    BY <2>2, <2>3, <2>4, <2>5
  <2>9. IsDevice(t)' => frame'[t] = req'[t].pa + (addr'[t] - base'[t])
    BY <2>2, <2>3, <2>4, <2>5, <2>7
  <2>10. CASE IsLarge(t)
    BY <2>2, <2>4, <2>5, <2>6, <2>8, <2>9, <2>10
  <2>11. CASE ~IsLarge(t)
    BY <2>2, <2>4, <2>5, <2>8, <2>9, <2>11
  <2> QED
    BY <2>10, <2>11
<1> QED
  BY <1>1, <1>2, <1>3, <1>4, <1>5 DEF Works, Step, Enter

\* The pools only go on.
LEMMA PoolsGo ==
  ASSUME TypeInv, [Next]_vmmVars
  PROVE  next4K <= next4K' /\ next2M <= next2M'
<1>0. next4K \in Nat /\ next2M \in Nat /\ Block \in Nat
  BY TypeParts, Constants DEF TypeInv, CallsOK
<1>1. CASE UNCHANGED vmmVars
  BY <1>0, <1>1 DEF vmmVars
<1>2. CASE Next
  <2>1. PICK t \in Thread : Works(t)
    BY <1>2 DEF Next, Works
  <2>2. CASE \/ \E r \in MemoryRequest[t] : MemoryAlloc(t, r)
             \/ \E r \in DeviceRequest[t] : DeviceAlloc(t, r)
             \/ Find(t) \/ Retry(t) \/ Found(t) \/ Map(t)
    BY <1>0, <2>2 DEF MemoryAlloc, DeviceAlloc, Find, Retry, Found, Map
  <2>3. CASE TakeLarge(t) \/ TakeSmall(t) \/ NewL2Table(t) \/ NewL3Table(t)
    BY <1>0, <2>3 DEF TakeLarge, TakeSmall, NewL2Table, NewL3Table
  <2>4. CASE \/ TakeDevice(t) \/ NoPage(t) \/ NoTable(t) \/ Taken(t) \/ Return(t)
             \/ MapLarge(t) \/ MapSmall(t) \/ MapThroughNull(t)
    BY <1>0, <2>4 DEF TakeDevice, NoPage, NoTable, Taken, Return, MapLarge, MapSmall,
                      MapThroughNull, NextPage
  <2> QED
    BY <2>1, <2>2, <2>3, <2>4 DEF Works, Step, Enter
<1> QED
  BY <1>1, <1>2

LEMMA GivenStep ==
  ASSUME TInv, GivenInv, NEW t \in Thread, Works(t)
  PROVE  GivenInv'
<1>0. CallsOK /\ CallInv /\ TypeInv /\ [Next]_vmmVars
  BY TypeParts DEF TInv, TypeInv, Works, Next
<1>1. /\ next4K \in Nat /\ next2M \in Nat /\ next4K' \in Nat /\ next2M' \in Nat
      /\ Pool4K \in Nat /\ Pool2M \in Nat /\ Block \in Nat
  BY <1>0, TypeStep, Constants, Numbers DEF TypeInv, TypeOK
<1>2. next4K <= next4K' /\ next2M <= next2M'
  BY <1>0, PoolsGo
<1>3. Pool4K <= next4K' /\ Pool2M <= next2M'
  BY <1>1, <1>2 DEF GivenInv
<1>4. ASSUME NEW u \in Thread, PendingLarge(u)' \/ Pending(u)'
      PROVE  \/ /\ PendingLarge(u)' => PendingLarge(u)
                /\ Pending(u)' => Pending(u)
                /\ frame'[u] = frame[u]
             \/ u = t /\ (TakeLarge(t) \/ TakeSmall(t))
  <2>1. CASE u # t
    BY <1>0, <2>1, OthersKeep DEF PendingLarge, Pending, IsDevice, IsLarge
  <2>2. CASE u = t
    <3>1. pc'[t] = "enter" /\ ~IsDevice(t)'
      BY <1>4, <2>2 DEF PendingLarge, Pending
    <3>2. CASE \/ \E r \in MemoryRequest[t] : MemoryAlloc(t, r)
               \/ \E r \in DeviceRequest[t] : DeviceAlloc(t, r)
               \/ Find(t) \/ Retry(t) \/ Found(t) \/ Map(t)
      BY <1>0, <3>1, <3>2 DEF CallsOK, MemoryAlloc, DeviceAlloc, Find, Retry, Found, Map
    <3>3. CASE NewL2Table(t) \/ NewL3Table(t)
      BY <2>2, <3>3 DEF NewL2Table, NewL3Table, PendingLarge, Pending, IsDevice, IsLarge
    <3>4. CASE \/ NoPage(t) \/ NoTable(t) \/ Taken(t) \/ Return(t)
               \/ MapLarge(t) \/ MapSmall(t) \/ MapThroughNull(t)
      BY <1>0, <3>1, <3>4 DEF CallsOK, NoPage, NoTable, Taken, Return, MapLarge, MapSmall,
                              MapThroughNull, NextPage
    <3>5. CASE TakeDevice(t)
      BY <3>1, <3>5 DEF TakeDevice, IsDevice
    <3>6. CASE TakeLarge(t) \/ TakeSmall(t)
      BY <2>2, <3>6
    <3> QED
      BY <3>2, <3>3, <3>4, <3>5, <3>6 DEF Works, Step, Enter
  <2> QED
    BY <2>1, <2>2
<1>5. ASSUME NEW u \in Thread, PendingLarge(u)'
      PROVE  Pool2M <= frame'[u] /\ frame'[u] + Block <= next2M'
  <2>1. CASE PendingLarge(u) /\ frame'[u] = frame[u]
    <3>1. frame[u] \in Nat
      BY <1>0, <2>1 DEF PendingLarge, CallInv
    <3> QED
      BY <1>1, <1>2, <2>1, <3>1 DEF GivenInv
  <2>2. CASE u = t /\ TakeLarge(t)
    BY <1>0, <1>1, <2>2 DEF TakeLarge, GivenInv, CallsOK
  <2>3. CASE u = t /\ TakeSmall(t)
    BY <1>5, <2>3 DEF TakeSmall, PendingLarge, IsLarge
  <2> QED
    BY <1>4, <1>5, <2>1, <2>2, <2>3
<1>6. ASSUME NEW u \in Thread, Pending(u)'
      PROVE  Pool4K <= frame'[u] /\ frame'[u] < next4K'
  <2>1. CASE Pending(u) /\ frame'[u] = frame[u]
    <3>1. frame[u] \in Nat
      BY <1>0, <2>1 DEF Pending, CallInv
    <3> QED
      BY <1>1, <1>2, <2>1, <3>1 DEF GivenInv
  <2>2. CASE u = t /\ TakeLarge(t)
    BY <1>6, <2>2 DEF TakeLarge, Pending, IsLarge
  <2>3. CASE u = t /\ TakeSmall(t)
    BY <1>0, <1>1, <2>3 DEF TakeSmall, GivenInv, CallsOK
  <2> QED
    BY <1>4, <1>6, <2>1, <2>2, <2>3
<1>7. ASSUME NEW p \in Process
      PROVE  /\ \A s : <<p, 2, s>> \in devices' => s \in DOMAIN l2'[p]
             /\ \A a : <<p, 3, a>> \in devices' => a \in DOMAIN l3'[p]
  <2>1. Grows(l2) /\ Grows(l3) /\ Shape /\ Owner[t] \in Process
    BY <1>0, TablesGrow, Constants DEF TypeInv
  <2>2. CASE devices' = devices
    BY <2>1, <2>2 DEF GivenInv, Grows
  <2>3. CASE MapLarge(t) /\ Made(t, 2, Slot(addr[t]))
    <3>1. Slot(addr[t]) \in DOMAIN l2'[Owner[t]]
      BY <2>1, <2>3, ExtendIs DEF Shape, MapLarge
    <3> QED
      BY <2>1, <2>3, <3>1 DEF GivenInv, Grows, Made
  <2>4. CASE MapSmall(t) /\ Made(t, 3, addr[t])
    <3>1. addr[t] \in DOMAIN l3'[Owner[t]]
      BY <2>1, <2>4, ExtendIs DEF Shape, MapSmall
    <3> QED
      BY <2>1, <2>4, <3>1 DEF GivenInv, Grows, Made
  <2> QED
    BY <2>2, <2>3, <2>4, DevicesAfter
<1> QED
  BY <1>3, <1>5, <1>6, <1>7 DEF GivenInv

\* The pages that NextPage adds to a call.  Those it has made entries for were not
\* mapped before.
LEMMA NewPages ==
  ASSUME TInv, FoundInv, ProgressInv, GivenInv, NEW t \in Thread,
         MapLarge(t) \/ MapSmall(t) \/ MapThroughNull(t),
         NEW a \in addr[t]..addr'[t] - 1
  PROVE  LET o == Owner[t] IN
         /\ a < base[t] + req[t].large * Block => InBlock(o, a)'
         /\ Present(o, a)'
         /\ a < base[t] + req[t].large * Block \/ ~InBlock(o, a)' =>
              /\ ~Present(o, a)
              /\ req[t].pa # None => V2P(o, a)' = req[t].pa + (a - base[t])
              /\ req[t].pa = None =>
                   /\ ~ForDevice(o, a)'
                   /\ a < base[t] + req[t].large * Block => V2P(o, a)' \in Given(TRUE)'
                   /\ ~(a < base[t] + req[t].large * Block) => V2P(o, a)' \in Given(FALSE)'
<1> DEFINE o == Owner[t]
           x == addr[t]
           g == frame[t]
           top == base[t] + req[t].large * Block
<1>0. CallsOK /\ CallInv /\ o \in Process /\ TypeInv /\ Shape
  BY TypeParts, Constants DEF TInv, TypeInv
<1>1. NextPage(t)
  BY DEF MapLarge, MapSmall, MapThroughNull
<1>2. /\ pc[t] = "enter" /\ x \in Nat /\ base[t] \in Nat
      /\ g \in Nat /\ req[t] \in Request
      /\ addr'[t] = x + (IF IsLarge(t) THEN Block ELSE 1)
      /\ ~IsLarge(t) => x >= top
  BY <1>0, <1>1, NextPageFurther DEF CallsOK, CallInv
<1>3. req[t].pa # None => g = req[t].pa + (x - base[t]) /\ req[t].pa \in Nat
  BY <1>2, RequestIs DEF ProgressInv, Mapping, IsDevice
<1>4. top \in Nat
  <2>1. req[t].large \in Nat
    BY <1>2, RequestIs
  <2>2. req[t].large * Block \in Nat
    BY <2>1, Constants
  <2> QED
    BY <1>2, <2>2
<1>d. a \in Int /\ x <= a /\ a < x + (IF IsLarge(t) THEN Block ELSE 1)
  <2>1. x \in Nat /\ (IF IsLarge(t) THEN Block ELSE 1) \in Nat
    BY <1>2, Constants
  <2> QED
    BY <1>2, <2>1
<1>5. CASE MapLarge(t)
  <2>1. /\ IsLarge(t) /\ Slot(x) \notin DOMAIN l2[o]
        /\ l2' = Extend(l2, o, Slot(x), [block |-> TRUE, frame |-> g])
    BY <1>5 DEF MapLarge, HasL2
  <2>2. Slot(a) = Slot(x) /\ a % Block = a - x /\ a \in Int
    <3>1. a \in x..x + Block - 1
      BY <1>2, <1>d, <2>1, Constants
    <3> QED
      BY <1>0, <1>2, <1>5, <3>1, LargeAligned, BlockPage, Constants
  <2>3. /\ DOMAIN l2'[o] = DOMAIN l2[o] \cup {Slot(x)}
        /\ l2'[o][Slot(x)] = [block |-> TRUE, frame |-> g]
    BY <1>0, <2>1, ExtendIs DEF Shape
  <2>4. InBlock(o, a)' /\ V2P(o, a)' = g + (a - x)
    <3>1. l2'[o][Slot(x)].block /\ l2'[o][Slot(x)].frame = g
      BY <2>3
    <3> HIDE DEF o, x, g
    <3> QED
      BY <2>2, <2>3, <3>1 DEF InBlock, V2P
  <2>5. ~Present(o, a)
    BY <1>0, <2>1, <2>2, PresentIs
  <2>6. req[t].pa # None => V2P(o, a)' = req[t].pa + (a - base[t])
    <3> HIDE DEF o, x, g
    <3> QED
      BY <1>2, <1>3, <2>2, <2>4
  <2>7. a < top
    <3>1. addr'[t] <= top
      BY <1>0, <1>1, <2>1, NextPageFurther
    <3> HIDE DEF o, x, g, top
    <3> QED
      BY <1>2, <1>4, <1>d, <2>1, <3>1, Constants
  <2>8. ASSUME req[t].pa = None
        PROVE  ~ForDevice(o, a)' /\ V2P(o, a)' \in Given(TRUE)'
    <3>1. PendingLarge(t) /\ next2M' = next2M
      BY <1>1, <1>2, <2>1, <2>8 DEF PendingLarge, IsDevice, NextPage
    <3>2. devices' = devices
      BY <1>5, <2>8 DEF MapLarge, Made, IsDevice
    <3>3. ~ForDevice(o, a)'
      BY <1>0, <2>1, <2>2, <2>4, <3>2 DEF ForDevice, GivenInv
    <3>4. a - x \in 0..Block - 1 /\ next2M \in Nat /\ Pool2M \in Nat
      BY <1>0, <1>2, <1>d, <2>1, <2>2, Constants, Numbers DEF CallsOK
    <3>5. Pool2M <= g /\ g + Block <= next2M
      BY <3>1 DEF GivenInv
    <3>6. V2P(o, a)' \in Pool2M..next2M - 1
      <4> HIDE DEF o, x, g
      <4> QED
        BY <1>2, <2>4, <3>4, <3>5, Constants
    <3> QED
      BY <3>1, <3>3, <3>6 DEF Given
  <2> QED
    BY <2>4, <2>5, <2>6, <2>7, <2>8 DEF Present
<1>6. CASE ~MapLarge(t)
  <2>1. ~IsLarge(t) /\ l2' = l2
    BY <1>6 DEF MapLarge, MapSmall, MapThroughNull
  <2>2. a = x /\ ~(a < top)
    <3> HIDE DEF x, top
    <3> QED
      BY <1>2, <1>4, <1>d, <2>1
  <2>3. CASE MapSmall(t)
    <3>1. /\ l3' = Extend(l3, o, x, g) /\ x \notin DOMAIN l3[o] /\ HasL2(t) /\ ~UnderBlock(t)
      BY <2>3 DEF MapSmall
    <3>2. DOMAIN l3'[o] = DOMAIN l3[o] \cup {x} /\ l3'[o][x] = g
      BY <1>0, <3>1, ExtendIs DEF Shape
    <3>3. ~InBlock(o, a) /\ ~InBlock(o, a)' /\ ~l2[o][Slot(a)].block /\ Slot(a) \in DOMAIN l2[o]
      BY <2>1, <2>2, <3>1 DEF HasL2, UnderBlock, InBlock
    <3>4. V2P(o, a)' = g
      BY <2>1, <2>2, <3>2, <3>3 DEF V2P
    <3>5. ASSUME req[t].pa = None
          PROVE  ~ForDevice(o, a)' /\ V2P(o, a)' \in Given(FALSE)'
      <4>1. Pending(t) /\ next4K' = next4K /\ next4K \in Nat
        BY <1>0, <1>1, <1>2, <2>1, <3>5 DEF Pending, IsDevice, NextPage, CallsOK
      <4>2. devices' = devices
        BY <2>3, <3>5 DEF MapSmall, Made, IsDevice
      <4>3. ~ForDevice(o, a)'
        BY <1>0, <2>2, <3>1, <3>3, <4>2 DEF ForDevice, GivenInv
      <4>4. g \in Pool4K..next4K - 1
        BY <1>2, <4>1, Numbers DEF GivenInv
      <4> QED
        BY <3>4, <4>1, <4>3, <4>4 DEF Given
    <3> QED
      BY <1>3, <2>2, <3>1, <3>2, <3>3, <3>4, <3>5 DEF Present
  <2>4. CASE MapThroughNull(t)
    <3>1. InBlock(o, a)'
      BY <2>1, <2>2, <2>4 DEF MapThroughNull, UnderBlock, HasL2, InBlock
    <3> QED
      BY <2>2, <3>1 DEF Present
  <2> QED
    BY <1>6, <2>3, <2>4
<1> QED
  BY <1>5, <1>6

\* What a step does to a call: it begins, goes on, or stands still.
LEMMA CallAfter ==
  ASSUME TypeInv, NEW t \in Thread, Works(t), Mapping(t)'
  PROVE  \/ Map(t) /\ addr'[t] = base'[t]
         \/ MapLarge(t) \/ MapSmall(t) \/ MapThroughNull(t)
         \/ Mapping(t) /\ UNCHANGED <<req, addr, base>>
<1>0. CallsOK
  BY TypeParts DEF TypeInv
<1>1. CASE \/ \E r \in MemoryRequest[t] : MemoryAlloc(t, r)
           \/ \E r \in DeviceRequest[t] : DeviceAlloc(t, r)
           \/ Find(t) \/ Retry(t) \/ Found(t) \/ Return(t) \/ NoPage(t) \/ NoTable(t) \/ Taken(t)
  BY <1>0, <1>1 DEF CallsOK, MemoryAlloc, DeviceAlloc, Find, Retry, Found, Return, NoPage,
                    NoTable, Taken, Mapping
<1>2. CASE Map(t)
  BY <1>0, <1>2 DEF CallsOK, Map
<1>3. CASE \/ TakeDevice(t) \/ NewL2Table(t) \/ NewL3Table(t) \/ TakeLarge(t) \/ TakeSmall(t)
  BY <1>3 DEF TakeDevice, NewL2Table, NewL3Table, TakeLarge, TakeSmall, Mapping
<1> QED
  BY <1>1, <1>2, <1>3 DEF Works, Step, Enter

\* The page a of a call for r, mapped from address b on.
PageIs(p, r, b, a) ==
  /\ a < b + r.large * Block => InBlock(p, a)
  /\ Present(p, a)
  /\ a < b + r.large * Block \/ ~InBlock(p, a) => Leads(p, r, b, a)

LEMMA PageStays ==
  ASSUME TInv, [Next]_vmmVars, NEW p \in Process, NEW r, NEW b, NEW a, PageIs(p, r, b, a)
  PROVE  PageIs(p, r, b, a)'
<1>1. /\ Present(p, a)' /\ (InBlock(p, a)' <=> InBlock(p, a))
      /\ V2P(p, a)' = V2P(p, a)
      /\ ForDevice(p, a)' <=> ForDevice(p, a)
  BY PresentStays DEF PageIs
<1>2. Leads(p, r, b, a) => Leads(p, r, b, a)'
  <2>1. next4K <= next4K' /\ next2M <= next2M' /\ next4K \in Nat /\ next2M \in Nat
        /\ next4K' \in Nat /\ next2M' \in Nat /\ Pool4K \in Nat /\ Pool2M \in Nat
    BY PoolsGo, TypeStep, Numbers DEF TInv, TypeInv, TypeOK
  <2>2. \A f : (f \in Given(TRUE) => f \in Given(TRUE)') /\ (f \in Given(FALSE) => f \in Given(FALSE)')
    BY <2>1 DEF Given
  <2>3. CASE a < b + r.large * Block
    BY <1>1, <2>2, <2>3 DEF Leads, Given
  <2>4. CASE ~(a < b + r.large * Block)
    BY <1>1, <2>2, <2>4 DEF Leads, Given
  <2> QED
    BY <2>3, <2>4
<1> QED
  BY <1>1, <1>2 DEF PageIs

LEMMA BackedIs ==
  /\ \A p, r, b, e : Backed(p, r, b, e) <=> \A a \in b..e - 1 : PageIs(p, r, b, a)
BY DEF Backed, PageIs

RegionInv == LockInv /\ FoundInv /\ ProgressInv /\ GivenInv /\ BackedInv /\ RegionsDisjoint

\* The pages of a call after a step.
LEMMA CallPages ==
  ASSUME TInv, RegionInv, NEW t \in Thread, Works(t), NEW u \in Thread, Mapping(u)',
         NEW r, NEW b, NEW a, r = req'[u], b = base'[u], a \in b..addr'[u] - 1
  PROVE  /\ PageIs(Owner[u], r, b, a)'
         /\ \/ Mapping(u) /\ req[u] = r /\ base[u] = b /\ a \in b..addr[u] - 1
            \/ a < b + r.large * Block \/ ~InBlock(Owner[u], a)' => ~Present(Owner[u], a)
<1>0. CallsOK /\ TypeInv /\ [Next]_vmmVars /\ Owner[u] \in Process
  BY TypeParts, Constants DEF TInv, TypeInv, Works, Next
<1>1. ASSUME Mapping(u), req[u] = r, base[u] = b, a \in b..addr[u] - 1
      PROVE  PageIs(Owner[u], r, b, a)'
  <2>1. PageIs(Owner[u], r, b, a)
    BY <1>1, BackedIs DEF RegionInv, BackedInv
  <2> QED
    BY <1>0, <2>1, PageStays
<1>2. CASE Mapping(u) /\ req[u] = r /\ base[u] = b /\ addr'[u] = addr[u]
  BY <1>1, <1>2
<1>3. CASE u # t
  <2>1. Mapping(u) /\ req[u] = r /\ base[u] = b /\ addr'[u] = addr[u]
    BY <1>0, <1>3, OthersKeep DEF Mapping
  <2> QED
    BY <1>2, <2>1
<1>4. CASE u = t /\ Map(t) /\ addr'[t] = base'[t]
  <2>1. b \in Nat /\ addr'[u] = b
    BY <1>0, <1>4 DEF CallsOK, Map
  <2> QED
    BY <2>1
<1>5. CASE u = t /\ (MapLarge(t) \/ MapSmall(t) \/ MapThroughNull(t))
  <2>1. NextPage(t)
    BY <1>5 DEF MapLarge, MapSmall, MapThroughNull
  <2>2. /\ pc[t] = "enter" /\ req[t] = r /\ base[t] = b /\ b \in Nat
        /\ addr[t] \in Nat /\ b <= addr[t] /\ Mapping(t)
        /\ addr'[t] \in Nat
    BY <1>0, <1>5, <2>1, NextPageFurther DEF RegionInv, Mapping
  <2>3. CASE a < addr[t]
    <3>1. a \in b..addr[t] - 1
      BY <1>5, <2>2, <2>3
    <3> QED
      BY <1>1, <1>5, <2>2, <3>1
  <2>4. CASE ~(a < addr[t])
    <3>1. a \in addr[t]..addr'[t] - 1
      BY <1>5, <2>2, <2>4
    <3>2. /\ a < b + r.large * Block => InBlock(Owner[t], a)'
          /\ Present(Owner[t], a)'
          /\ a < b + r.large * Block \/ ~InBlock(Owner[t], a)' =>
               /\ ~Present(Owner[t], a)
               /\ r.pa # None => V2P(Owner[t], a)' = r.pa + (a - b)
               /\ r.pa = None => /\ ~ForDevice(Owner[t], a)'
                                 /\ a < b + r.large * Block => V2P(Owner[t], a)' \in Given(TRUE)'
                                 /\ ~(a < b + r.large * Block) =>
                                      V2P(Owner[t], a)' \in Given(FALSE)'
      BY <1>5, <2>2, <3>1, NewPages DEF RegionInv
    <3> QED
      BY <1>5, <3>2 DEF PageIs, Leads, Given
  <2> QED
    BY <2>3, <2>4
<1>6. CASE u = t /\ Mapping(t) /\ UNCHANGED <<req, addr, base>>
  BY <1>2, <1>6
<1> QED
  BY <1>0, <1>3, <1>4, <1>5, <1>6, CallAfter

\* The regions after a step: those of before, and the range of a call that returns.
LEMMA RegionAfter ==
  ASSUME TInv, RegionInv, NEW t \in Thread, Works(t), NEW p \in Process, NEW x \in regions'[p]
  PROVE  \/ x \in regions[p]
         \/ /\ Return(t) /\ p = Owner[t] /\ x.base = base[t] /\ x.req = req[t] /\ Mapping(t)
            /\ addr[t] = x.base + Len(x.req)
<1>0. CallsOK /\ TypeInv /\ Owner[t] \in Process /\ regions = [q \in Process |-> regions[q]]
  BY TypeParts, Constants DEF TInv, TypeInv, Shape
<1>1. CASE Return(t)
  <2>1. /\ pc[t] = "page" /\ left[t].large = 0 /\ left[t].small = 0
        /\ regions' = [regions EXCEPT ![Owner[t]] =
                         regions[Owner[t]] \cup {[base |-> base[t], req |-> req[t]]}]
    BY <1>1 DEF Return
  <2>2. addr[t] + Len(left[t]) = base[t] + Len(req[t]) /\ Mapping(t)
    BY <2>1 DEF RegionInv, ProgressInv, Mapping
  <2>3. Len(left[t]) = 0 /\ addr[t] \in Nat
    <3>1. 0 * Block = 0
      BY Constants
    <3> QED
      BY <1>0, <2>1, <3>1 DEF Len, CallsOK
  <2>4. addr[t] = base[t] + Len(req[t])
    BY <2>2, <2>3
  <2>5. x \in regions[p] \/ (p = Owner[t] /\ x = [base |-> base[t], req |-> req[t]])
    BY <1>0, <2>1
  <2> QED
    BY <1>1, <2>2, <2>4, <2>5
<1>2. CASE \/ \E r \in MemoryRequest[t] : MemoryAlloc(t, r)
           \/ \E r \in DeviceRequest[t] : DeviceAlloc(t, r)
           \/ Find(t) \/ Retry(t) \/ Found(t) \/ Map(t)
  BY <1>2 DEF MemoryAlloc, DeviceAlloc, Find, Retry, Found, Map
<1>3. CASE \/ TakeDevice(t) \/ TakeLarge(t) \/ TakeSmall(t) \/ NoPage(t)
           \/ NewL2Table(t) \/ NewL3Table(t) \/ NoTable(t) \/ Taken(t)
           \/ MapLarge(t) \/ MapSmall(t) \/ MapThroughNull(t)
  BY <1>3 DEF TakeDevice, TakeLarge, TakeSmall, NoPage, NewL2Table, NewL3Table, NoTable,
              Taken, MapLarge, MapSmall, MapThroughNull, NextPage
<1> QED
  BY <1>1, <1>2, <1>3 DEF Works, Step, Enter

LEMMA BackedStep ==
  ASSUME TInv, RegionInv, NEW t \in Thread, Works(t)
  PROVE  BackedInv'
<1>0. CallsOK /\ TypeInv /\ [Next]_vmmVars /\ Owner[t] \in Process
  BY TypeParts, Constants DEF TInv, TypeInv, Works, Next
<1>1. ASSUME NEW u \in Thread, Mapping(u)'
      PROVE  Backed(Owner[u], req[u], base[u], addr[u])'
  <2>1. PICK r, b, e : r = req'[u] /\ b = base'[u] /\ e = addr'[u]
    OBVIOUS
  <2>2. \A a \in b..e - 1 : PageIs(Owner[u], r, b, a)'
    BY <1>1, <2>1, CallPages
  <2> QED
    BY <2>1, <2>2 DEF Backed, PageIs
<1>2. ASSUME NEW p \in Process, NEW x \in regions'[p]
      PROVE  Backed(p, x.req, x.base, x.base + Len(x.req))'
  <2>1. Backed(p, x.req, x.base, x.base + Len(x.req))
    BY RegionAfter DEF RegionInv, BackedInv
  <2>2. ASSUME NEW a \in x.base..(x.base + Len(x.req)) - 1
        PROVE  PageIs(p, x.req, x.base, a)'
    <3>1. PageIs(p, x.req, x.base, a)
      BY <2>1, BackedIs
    <3> QED
      BY <1>0, <3>1, PageStays
  <2> QED
    BY <2>2 DEF Backed, PageIs, Len
<1> QED
  BY <1>1, <1>2 DEF BackedInv

\* A page of a region, and of a call, that is its own.
LEMMA OwnIs ==
  ASSUME NEW p, NEW r, NEW b, NEW e, NEW a
  PROVE  a \in Own(p, r, b, e) <=>
           a \in b..e - 1 /\ (a < b + r.large * Block \/ ~InBlock(p, a))
BY DEF Own

LEMMA RegionsStep ==
  ASSUME TInv, RegionInv, NEW t \in Thread, Works(t)
  PROVE  RegionsDisjoint'
<1>0. CallsOK /\ TypeInv /\ [Next]_vmmVars /\ Owner[t] \in Process
  BY TypeParts, Constants DEF TInv, TypeInv, Works, Next
\* What a region that was there owns, it has owned, and is mapped.
<1>1. ASSUME NEW p \in Process, NEW x \in regions[p], NEW a, a \in OwnPages(p, x)'
      PROVE  a \in OwnPages(p, x) /\ Present(p, a)
  <2>1. /\ a \in x.base..(x.base + Len(x.req)) - 1
        /\ a < x.base + x.req.large * Block \/ ~InBlock(p, a)'
    BY <1>1 DEF OwnPages, Own, Len
  <2>2. PageIs(p, x.req, x.base, a)
    BY <2>1, BackedIs DEF RegionInv, BackedInv
  <2>3. Present(p, a)
    BY <2>2 DEF PageIs
  <2>4. InBlock(p, a)' <=> InBlock(p, a)
    BY <1>0, <2>3, PresentStays
  <2> QED
    BY <2>1, <2>3, <2>4 DEF OwnPages, Own
\* So for a call that returns.
<1>2. ASSUME Return(t), NEW x, x.base = base[t], x.req = req[t], Mapping(t),
             addr[t] = x.base + Len(x.req), NEW a, a \in OwnPages(Owner[t], x)'
      PROVE  a \in Own(Owner[t], req[t], base[t], addr[t]) /\ Present(Owner[t], a)
  <2>1. /\ a \in x.base..(x.base + Len(x.req)) - 1
        /\ a < x.base + x.req.large * Block \/ ~InBlock(Owner[t], a)'
    BY <1>2 DEF OwnPages, Own, Len
  <2>2. Present(Owner[t], a)
    BY <1>2, <2>1, BackedIs DEF RegionInv, BackedInv, PageIs
  <2>3. InBlock(Owner[t], a)' <=> InBlock(Owner[t], a)
    BY <1>0, <2>2, PresentStays
  <2> QED
    BY <1>2, <2>1, <2>2, <2>3 DEF Own
<1>3. ASSUME NEW p \in Process, NEW x \in regions'[p], NEW y \in regions'[p], x # y
      PROVE  OwnPages(p, x)' \cap OwnPages(p, y)' = {}
  <2>0. SUFFICES ASSUME NEW a, a \in OwnPages(p, x)', a \in OwnPages(p, y)' PROVE FALSE
    OBVIOUS
  <2>1. CASE x \in regions[p] /\ y \in regions[p]
    BY <1>1, <1>3, <2>0, <2>1 DEF RegionInv, RegionsDisjoint
  <2>2. ASSUME NEW v \in regions[p], a \in OwnPages(p, v)', NEW w, a \in OwnPages(p, w)',
               Return(t), p = Owner[t], w.base = base[t], w.req = req[t], Mapping(t),
               addr[t] = w.base + Len(w.req)
        PROVE  FALSE
    <3>1. a \in OwnPages(p, v)
      BY <1>1, <2>2
    <3>2. a \in Own(Owner[t], req[t], base[t], addr[t])
      BY <1>2, <2>2
    <3> QED
      BY <2>2, <3>1, <3>2 DEF RegionInv, RegionsDisjoint, Mapping
  <2>3. CASE x \notin regions[p] /\ y \notin regions[p]
    <3>1. x = y
      <4>1. x \in [base : Nat, req : Request] /\ y \in [base : Nat, req : Request]
        BY <1>0, TypeStep DEF TypeInv, TypeOK
      <4>2. x.base = y.base /\ x.req = y.req
        BY <2>3, RegionAfter
      <4> QED
        BY <4>1, <4>2
    <3> QED
      BY <1>3, <3>1
  <2>4. CASE x \in regions[p] /\ y \notin regions[p]
    BY <2>0, <2>2, <2>4, RegionAfter
  <2>5. CASE x \notin regions[p] /\ y \in regions[p]
    BY <2>0, <2>2, <2>5, RegionAfter
  <2> QED
    BY <2>1, <2>3, <2>4, <2>5
<1>4. ASSUME NEW p \in Process, NEW x \in regions'[p], NEW u \in Thread, Owner[u] = p,
             Mapping(u)'
      PROVE  OwnPages(p, x)' \cap Own(p, req[u], base[u], addr[u])' = {}
  <2>1. PICK r, b, e : r = req'[u] /\ b = base'[u] /\ e = addr'[u]
    OBVIOUS
  <2>2. SUFFICES ASSUME NEW a, a \in OwnPages(p, x)', a \in Own(p, r, b, e)' PROVE FALSE
    BY <2>1 DEF Own
  <2>3. a \in b..e - 1 /\ (a < b + r.large * Block \/ ~InBlock(p, a)')
    BY <2>2 DEF Own
  <2>4. CASE x \in regions[p]
    <3>1. a \in OwnPages(p, x) /\ Present(p, a)
      BY <1>1, <2>2, <2>4
    <3>2. Mapping(u) /\ req[u] = r /\ base[u] = b /\ a \in b..addr[u] - 1
      BY <1>4, <2>1, <2>3, <3>1, CallPages
    <3>3. InBlock(p, a)' <=> InBlock(p, a)
      BY <1>0, <3>1, PresentStays
    <3>4. a \in Own(p, req[u], base[u], addr[u])
      BY <2>3, <3>2, <3>3 DEF Own
    <3> QED
      BY <1>4, <2>4, <3>1, <3>2, <3>4 DEF RegionInv, RegionsDisjoint, Mapping
  <2>5. CASE x \notin regions[p]
    <3>1. Return(t) /\ p = Owner[t] /\ Mapping(t)
      BY <2>5, RegionAfter
    <3>2. u # t
      BY <1>0, <1>4, <3>1 DEF Return, Mapping, CallsOK
    <3>3. Mapping(u)
      BY <1>0, <1>4, <3>2, OthersKeep DEF Mapping
    <3> QED
      BY <1>4, <3>1, <3>2, <3>3 DEF RegionInv, LockInv, Mapping
  <2> QED
    BY <2>4, <2>5
<1>5. ASSUME NEW p \in Process, NEW x \in regions'[p], NEW u \in Thread, Owner[u] = p,
             pc'[u] \in {"page", "enter"}
      PROVE  OwnPages(p, x)' \cap Own(p, req[u], base[u], addr[u])' = {}
  BY <1>4, <1>5 DEF Mapping
<1> QED
  BY <1>3, <1>5 DEF RegionsDisjoint

LEMMA InitRegions == Init => RegionInv
<1> SUFFICES ASSUME Init PROVE RegionInv
  OBVIOUS
<1>1. (\A t \in Thread : pc[t] = "user") /\ (\A p \in Process : regions[p] = {})
  BY DEF Init
<1> QED
  BY <1>1, Numbers DEF Init, RegionInv, LockInv, FoundInv, ProgressInv, GivenInv, BackedInv,
                       RegionsDisjoint, Mapping, Pending, PendingLarge

LEMMA RegionInvStep == TInv /\ RegionInv /\ [Next]_vmmVars => RegionInv'
<1> SUFFICES ASSUME TInv, RegionInv, [Next]_vmmVars PROVE RegionInv'
  OBVIOUS
<1>1. CASE UNCHANGED vmmVars
  <2>1. GivenInv'
    BY <1>1 DEF RegionInv, GivenInv, Pending, PendingLarge, IsDevice, IsLarge, vmmVars
  <2>2. BackedInv'
    BY <1>1 DEF RegionInv, BackedInv, Mapping, Backed, Present, InBlock, Leads, ForDevice, Given,
                V2P, vmmVars
  <2> QED
    BY <1>1, <2>1, <2>2 DEF RegionInv, LockInv, FoundInv, ProgressInv, RegionsDisjoint, Mapping,
                            IsDevice, InBlock, Own, OwnPages, vmmVars, Aligned, Slot, Len
<1>2. CASE Next
  <2>1. PICK t \in Thread : Works(t)
    BY <1>2 DEF Next, Works
  <2>2. TypeInv
    BY DEF TInv
  <2> QED
    BY <2>1, <2>2, LockStep, FoundStep, ProgressStep, GivenStep, BackedStep, RegionsStep DEF RegionInv
<1> QED
  BY <1>1, <1>2

LEMMA RegionInvBacked == TInv /\ RegionInv => RegionBacked
<1> SUFFICES ASSUME TInv, RegionInv PROVE RegionBacked
  OBVIOUS
<1>o. ASSUME NEW p \in Process, NEW x \in regions[p], NEW a \in OwnPages(p, x)
      PROVE  a \in Pages(x)
  <2>1. a \in x.base..(x.base + Len(x.req)) - 1
    BY OwnIs DEF OwnPages
  <2>2. x.base \in Nat /\ x.req \in Request
    BY DEF TInv, TypeInv, TypeOK
  <2>3. Len(x.req) \in Nat
    BY <2>2, RequestIs, SizeOf
  <2> QED
    BY <2>1, <2>2, <2>3 DEF Pages
<1> SUFFICES ASSUME NEW p \in Process, NEW x \in regions[p], NEW a \in Pages(x)
             PROVE  V2P(p, a) # None /\ (a \in OwnPages(p, x) => Leads(p, x.req, x.base, a))
  BY <1>o DEF RegionBacked
<1>1. PageIs(p, x.req, x.base, a)
  <2>1. x.base \in Nat /\ x.req \in Request
    BY DEF TInv, TypeInv, TypeOK
  <2>2. Len(x.req) \in Nat
    BY <2>1, RequestIs, SizeOf
  <2>3. a \in x.base..(x.base + Len(x.req)) - 1
    BY <2>1, <2>2 DEF Pages
  <2> QED
    BY <2>3, BackedIs DEF RegionInv, BackedInv
<1>2. V2P(p, a) # None
  <2>1. Slot(a) \in DOMAIN l2[p] /\ (InBlock(p, a) \/ a \in DOMAIN l3[p])
    BY <1>1, PresentIs DEF PageIs, Present
  <2>2. TablesOK /\ None \notin Nat
    BY TypeParts, AddressSpaceAssumption DEF TInv, TypeInv
  <2>3. CASE InBlock(p, a)
    <3>1. V2P(p, a) = l2[p][Slot(a)].frame + (a % Block) /\ l2[p][Slot(a)].frame \in Nat
      BY <2>1, <2>2, <2>3 DEF V2P, InBlock, TablesOK, Entry
    <3>2. a % Block \in Nat
      <4>1. x.base \in Nat
        BY DEF TInv, TypeInv, TypeOK
      <4>2. a \in Int
        BY <4>1 DEF Pages
      <4> QED
        BY <4>2, Constants
    <3> QED
      BY <2>2, <3>1, <3>2
  <2>4. CASE ~InBlock(p, a)
    BY <2>1, <2>2, <2>4 DEF V2P, InBlock, TablesOK
  <2> QED
    BY <2>3, <2>4
<1> QED
  BY <1>1, <1>2 DEF PageIs, OwnPages, Own

\* Calls of any threads of a process, for any mixture of pages and blocks, memory and
\* devices, in any order: no call maps what another has mapped for itself.
THEOREM RegionsAreDisjoint == Spec => []RegionsDisjoint
<1>1. Init => TInv /\ RegionInv
  BY InitTypeInv, InitNested, InitRegions DEF TInv
<1>2. TInv /\ RegionInv /\ [Next]_vmmVars => (TInv /\ RegionInv)'
  BY TypeStep, TablesGrow, RegionInvStep DEF TInv
<1>3. RegionInv => RegionsDisjoint
  BY DEF RegionInv
<1> QED
  BY <1>1, <1>2, <1>3, PTL DEF Spec

\* What a call has returned is mapped, page by page, and stays so: the pages of a device
\* are the device's, in order, those of memory lead to frames of the pools, which
\* FramesAreExclusive says are no one else's.
THEOREM RegionsAreBacked == Spec => []RegionBacked
<1>1. Init => TInv /\ RegionInv
  BY InitTypeInv, InitNested, InitRegions DEF TInv
<1>2. TInv /\ RegionInv /\ [Next]_vmmVars => (TInv /\ RegionInv)'
  BY TypeStep, TablesGrow, RegionInvStep DEF TInv
<1>3. TInv /\ RegionInv => RegionBacked
  BY RegionInvBacked
<1> QED
  BY <1>1, <1>2, <1>3, PTL DEF Spec
=============================================================================
