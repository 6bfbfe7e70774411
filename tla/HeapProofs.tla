----------------------------- MODULE HeapProofs -----------------------------
(* Any CPUs, regions and sizes: whatever is freed under its walk, malloc      *)
(* finds a block that is nobody's, and blocks lie one behind the other.  Their *)
(* recorded sizes say so, but for runs that were merged up to the end of their *)
(* list; until one of those has been freed the heap is an allocator of        *)
(* disjoint blocks.                                                           *)
EXTENDS Heap, FiniteSetTheorems, SequenceTheorems, WellFoundedInduction, TLAPS

Inside == {"find", "extend", "skip", "run", "mark"}

\* A marker and its first byte lie in what a region has given out.
Placed(a) == \E r \in 1..Regions : Base[r] <= a /\ a + Marker < freeBase[r]

RegionInv ==
  /\ \A r \in 1..Regions : Base[r] <= freeBase[r] /\ freeBase[r] <= Base[r] + Length[r]
  /\ \A r \in 1..Regions : \A i \in 1..Len(blocks[r]) : Placed(blocks[r][i])
  /\ \A a \in used : Placed(a)

LockInv == \A c \in Cpu : lock = c <=> pc[c] \in Inside

\* The walk is at a block or behind the list, and a run starts at a free block:
\* frees make blocks free, and nobody else marks them used.
WalkInv ==
  \A c \in Cpu :
    /\ pc[c] \in {"find", "skip", "run"} => my[c].idx >= 1
    /\ pc[c] \in Inside => my[c].n \in Request
    /\ pc[c] = "run" => /\ my[c].start \in 1..Len(blocks[my[c].reg])
                        /\ blocks[my[c].reg][my[c].start] \notin used
    /\ pc[c] \notin {"mark", "free"} => my[c].block = None
    /\ my[c].block # None => Placed(my[c].block)
    /\ pc[c] = "free" => my[c].block \in used /\ my[c].saw < SizeModulus

\* A block has one owner at most: who was granted it, who has found it, or who
\* is freeing it.  The USED bit of the first and the last is set.
OwnerInv ==
  /\ \A g \in granted : g.at - Marker \in used
  /\ \A g, h \in granted : g.at = h.at => g = h
  /\ \A c \in Cpu : my[c].block # None =>
       /\ \A g \in granted : g.at # my[c].block + Marker
       /\ \A d \in Cpu \ {c} : my[d].block # my[c].block

IInv == TypeOK /\ RegionInv /\ LockInv /\ WalkInv /\ OwnerInv

-----------------------------------------------------------------------------
\* Arithmetic

LEMMA Commutes ==
  ASSUME NEW a \in Int, NEW b \in Int
  PROVE  a * b = b * a /\ a * b \in Int
OBVIOUS

\* A block with its marker and its padding is longer than the marker.
LEMMA NeededBounds ==
  ASSUME NEW n \in Nat \ {0}
  PROVE  Needed(n) \in Nat /\ Needed(n) > Marker
<1> DEFINE x == Marker + n + Align - 1
           q == x \div Align
           p == Align * q
<1>1. x \in Nat /\ Align \in Nat \ {0} /\ Marker \in Nat
  BY HeapAssumption
<1>2. q \in Int /\ x = p + (x % Align) /\ x % Align \in 0..(Align - 1)
  BY <1>1
<1>3. q * Align = p /\ p \in Int
  BY <1>1, <1>2, Commutes
<1> HIDE DEF p, q
<1>4. p > Marker
  BY <1>1, <1>2, <1>3
<1>5. Needed(n) = p
  BY <1>3 DEF Needed, q
<1> QED
  BY <1>1, <1>3, <1>4, <1>5

\* It covers its marker and the bytes asked for.
LEMMA NeededCovers ==
  ASSUME NEW n \in Nat \ {0}
  PROVE  Needed(n) >= Marker + n
<1> DEFINE x == Marker + n + Align - 1
           q == x \div Align
           p == Align * q
<1>1. x \in Nat /\ Align \in Nat \ {0} /\ Marker \in Nat
  BY HeapAssumption
<1>2. q \in Int /\ x = p + (x % Align) /\ x % Align \in 0..(Align - 1)
  BY <1>1
<1>3. q * Align = p /\ p \in Int
  BY <1>1, <1>2, Commutes
<1> HIDE DEF p, q
<1>4. p >= Marker + n
  BY <1>1, <1>2, <1>3
<1>5. Needed(n) = p
  BY <1>3 DEF Needed, q
<1> QED
  BY <1>4, <1>5

\* What is left modulo SizeModulus is a size.
LEMMA SizeBits ==
  ASSUME NEW x \in Int
  PROVE  x % SizeModulus \in 0..(SizeModulus - 1)
BY HeapAssumption

LEMMA MemoryNat == Memory \subseteq Nat /\ None \notin Memory /\ Marker \in Nat
BY HeapAssumption, SMTT(30) DEF Memory

\* Cutting a difference to the bits there are makes it no larger, and leaves one
\* that fits alone.
LEMMA CutToBits ==
  ASSUME NEW x \in Nat
  PROVE  /\ x % SizeModulus \in Nat /\ x % SizeModulus <= x
         /\ x < SizeModulus => x % SizeModulus = x
<1>1. SizeModulus \in Nat \ {0}
  BY HeapAssumption
<1>2. x % SizeModulus \in Nat /\ x \div SizeModulus \in Nat
      /\ x = SizeModulus * (x \div SizeModulus) + (x % SizeModulus)
  BY <1>1
<1>3. \A q \in Nat : SizeModulus * q \in Nat
  BY <1>1
<1>4. SizeModulus * (x \div SizeModulus) \in Nat
  BY <1>2, <1>3
<1>5. x < SizeModulus => x % SizeModulus = x
  <2>1. ASSUME NEW q \in Nat, q # 0 PROVE SizeModulus * q >= SizeModulus
    <3>1. q - 1 \in Nat
      BY <2>1
    <3>2. SizeModulus * (q - 1) \in Nat
      BY <1>3, <3>1
    <3>3. SizeModulus * q = SizeModulus * (q - 1) + SizeModulus
      BY <1>1
    <3> QED
      BY <1>1, <3>2, <3>3
  <2>2. SizeModulus * 0 = 0
    BY <1>1
  <2>3. ASSUME NEW q \in Nat, x < SizeModulus, NEW m \in Nat, x = SizeModulus * q + m PROVE m = x
    <3>1. q = 0
      BY <1>1, <1>3, <2>1, <2>3
    <3> QED
      BY <2>2, <2>3, <3>1
  <2>4. PICK q \in Nat : q = x \div SizeModulus
    BY <1>2
  <2>5. PICK m \in Nat : m = x % SizeModulus
    BY <1>2
  <2>6. x = SizeModulus * q + m
    BY <1>2, <2>4, <2>5
  <2>7. x < SizeModulus => m = x
    BY <2>3, <2>6
  <2> QED
    BY <2>5, <2>7, Zenon
<1> QED
  BY <1>2, <1>4, <1>5

\* The blocks that compaction leaves, by their places in the list it had.
Cut(b, i, j) == SubSeq(b, 1, i) \o SubSeq(b, j, Len(b))

LEMMA CutIndex ==
  ASSUME NEW S, NEW b \in Seq(S), NEW i \in 1..Len(b), NEW j \in Nat, i < j, j <= Len(b) + 1
  PROVE  /\ Len(Cut(b, i, j)) = i + (Len(b) - j) + 1
         /\ \A k \in 1..i : Cut(b, i, j)[k] = b[k]
         /\ \A k \in (i + 1)..Len(Cut(b, i, j)) : Cut(b, i, j)[k] = b[k - i + (j - 1)]
<1> DEFINE cut == Cut(b, i, j)
<1>1. Len(b) \in Nat /\ i \in Int /\ j \in Int /\ 1 <= i /\ i <= Len(b) /\ 1 <= j /\ j <= Len(b) + 1
  OBVIOUS
<1>2. \A k \in 1..i : b[k] \in S
  BY <1>1
<1>3. \A k \in j..Len(b) : b[k] \in S
  BY <1>1
<1>4. /\ SubSeq(b, 1, i) \in Seq(S) /\ Len(SubSeq(b, 1, i)) = i
      /\ \A k \in 1..i : SubSeq(b, 1, i)[k] = b[k]
  <2>1. /\ SubSeq(b, 1, i) \in Seq(S) /\ Len(SubSeq(b, 1, i)) = IF 1 <= i THEN i - 1 + 1 ELSE 0
        /\ \A k \in 1..i - 1 + 1 : SubSeq(b, 1, i)[k] = b[1 + k - 1]
    BY <1>1, <1>2, SubSeqProperties
  <2>2. i - 1 + 1 = i /\ \A k \in 1..i : 1 + k - 1 = k
    BY <1>1
  <2> QED
    BY <1>1, <2>1, <2>2
<1>5. /\ SubSeq(b, j, Len(b)) \in Seq(S) /\ Len(SubSeq(b, j, Len(b))) = Len(b) - j + 1
      /\ \A k \in 1..(Len(b) - j + 1) : SubSeq(b, j, Len(b))[k] = b[j + k - 1]
  BY <1>1, <1>3, SubSeqProperties
<1>6. PICK s : s = SubSeq(b, 1, i)
  OBVIOUS
<1>7. PICK t : t = SubSeq(b, j, Len(b))
  OBVIOUS
<1>8. /\ cut = s \o t /\ s \in Seq(S) /\ t \in Seq(S) /\ Len(s) = i /\ Len(t) = Len(b) - j + 1
  BY <1>4, <1>5, <1>6, <1>7 DEF Cut
<1> HIDE DEF cut
<1>9. /\ Len(cut) = Len(s) + Len(t)
      /\ \A k \in 1..(Len(s) + Len(t)) : cut[k] = IF k <= Len(s) THEN s[k] ELSE t[k - Len(s)]
  <2>1. /\ Len(s \o t) = Len(s) + Len(t)
        /\ \A k \in 1..(Len(s) + Len(t)) : (s \o t)[k] = IF k <= Len(s) THEN s[k] ELSE t[k - Len(s)]
    BY <1>8, ConcatProperties
  <2> QED
    BY <1>8, <2>1
<1>10. Len(cut) = i + (Len(b) - j) + 1
  BY <1>1, <1>8, <1>9
<1>11. \A k \in 1..i : cut[k] = b[k]
  <2> SUFFICES ASSUME NEW k \in 1..i PROVE cut[k] = b[k]
    OBVIOUS
  <2>1. k \in 1..(Len(s) + Len(t)) /\ k <= Len(s)
    BY <1>1, <1>8
  <2> QED
    BY <2>1, <1>4, <1>6, <1>9
<1>12. \A k \in (i + 1)..Len(cut) : cut[k] = b[k - i + (j - 1)]
  <2> SUFFICES ASSUME NEW k \in (i + 1)..Len(cut) PROVE cut[k] = b[k - i + (j - 1)]
    OBVIOUS
  <2>1. k \in 1..(Len(s) + Len(t)) /\ ~(k <= Len(s)) /\ k - i \in 1..(Len(b) - j + 1)
    BY <1>1, <1>8, <1>9
  <2>2. cut[k] = t[k - i]
    BY <2>1, <1>8, <1>9
  <2>3. t[k - i] = b[j + (k - i) - 1]
    BY <2>1, <1>5, <1>7
  <2>4. j + (k - i) - 1 = k - i + (j - 1)
    BY <1>1, <2>1
  <2> QED
    BY <2>2, <2>3, <2>4
<1> QED
  BY <1>10, <1>11, <1>12 DEF cut

\* Placed addresses are the heap's, and so are those of the bytes behind their
\* markers.
LEMMA PlacedMemory ==
  ASSUME TypeOK, RegionInv, NEW a \in Int, Placed(a)
  PROVE  a \in Memory /\ a + Marker \in Memory
<1>1. PICK r \in 1..Regions : Base[r] <= a /\ a + Marker < freeBase[r]
  BY DEF Placed
<1>2. Base[r] \in Nat /\ Length[r] \in Nat /\ freeBase[r] \in Nat /\ Marker \in Nat \ {0}
  BY HeapAssumption DEF TypeOK
<1>3. freeBase[r] <= Base[r] + Length[r]
  BY DEF RegionInv
<1>4. a \in Base[r]..(Base[r] + Length[r] - 1) /\ a + Marker \in Base[r]..(Base[r] + Length[r] - 1)
  BY <1>1, <1>2, <1>3
<1> QED
  BY <1>4 DEF Memory

-----------------------------------------------------------------------------
\* The inductive invariant

LEMMA InitIInv == Init => IInv
<1> SUFFICES ASSUME Init PROVE IInv
  OBVIOUS
<1>1. NoLocals \in Locals
  BY HeapAssumption DEF NoLocals, Locals
<1>6. 0 \in 0..(SizeModulus - 1)
  BY HeapAssumption
<1>2. TypeOK
  <2>1. /\ size \in [Memory -> 0..(SizeModulus - 1)] /\ room \in [Memory -> 0..(SizeModulus - 1)]
        /\ loose \in BOOLEAN
    BY <1>6 DEF Init
  <2>2. blocks \in [1..Regions -> Seq(Memory)] /\ freeBase \in [1..Regions -> Nat]
    BY HeapAssumption DEF Init
  <2>3. pc \in [Cpu -> Label] /\ my \in [Cpu -> Locals] /\ lock \in Cpu \cup {None}
    BY <1>1 DEF Init, Label
  <2> QED
    BY <2>1, <2>2, <2>3 DEF Init, TypeOK
<1>3. RegionInv
  BY HeapAssumption DEF Init, RegionInv
<1>4. LockInv
  BY HeapAssumption DEF Init, LockInv, Inside
<1>5. WalkInv /\ OwnerInv
  BY DEF Init, WalkInv, OwnerInv, NoLocals, Inside
<1> QED
  BY <1>2, <1>3, <1>4, <1>5 DEF IInv

\* malloc's CPU is the only one inside.
LEMMA Alone ==
  ASSUME IInv, NEW c \in Cpu, pc[c] \in Inside, NEW d \in Cpu, d # c
  PROVE  pc[d] \notin Inside /\ lock = c /\ pc[d] \in {"idle", "free"}
<1>1. lock = c /\ lock # d
  BY DEF IInv, LockInv
<1>2. pc[d] \notin Inside /\ pc[d] \in Label
  BY <1>1 DEF IInv, LockInv, TypeOK
<1> QED
  BY <1>1, <1>2 DEF Inside, Label

\* A step of the walk changes its own variables and label only.
LEMMA WalkStep ==
  ASSUME IInv, NEW c \in Cpu, pc[c] \in Inside,
         NEW L \in Locals, my' = [my EXCEPT ![c] = L],
         NEW l \in Inside, pc' = [pc EXCEPT ![c] = l],
         L.block = None, my[c].block = None, L.n = my[c].n, L.idx >= 1,
         l = "run" => /\ L.start \in 1..Len(blocks[L.reg])
                      /\ blocks[L.reg][L.start] \notin used,
         UNCHANGED <<blocks, size, used, freeBase, lock, granted, history>>
  PROVE  IInv'
<1>1. TypeOK'
  BY DEF IInv, TypeOK, Inside, Label, history
<1>2. my'[c] = L /\ pc'[c] = l /\ \A d \in Cpu \ {c} : my'[d] = my[d] /\ pc'[d] = pc[d]
  BY DEF IInv, TypeOK
<1>3. RegionInv'
  BY DEF IInv, RegionInv, Placed
<1>4. LockInv'
  BY <1>2 DEF IInv, LockInv
<1>5. WalkInv'
  <2> SUFFICES ASSUME NEW d \in Cpu PROVE WalkInv!(d)'
    BY DEF WalkInv
  <2>1. CASE d = c
    BY <2>1, <1>2 DEF IInv, WalkInv, Inside
  <2>2. CASE d # c
    BY <2>2, <1>2 DEF IInv, WalkInv, Placed
  <2> QED
    BY <2>1, <2>2
<1>6. OwnerInv'
  <2>1. \A d \in Cpu : my'[d].block = my[d].block
    BY <1>2
  <2> QED
    BY <2>1 DEF IInv, OwnerInv
<1> QED
  BY <1>1, <1>3, <1>4, <1>5, <1>6 DEF IInv

\* The steps of the walk that find nothing yet.
LEMMA FindPassIInv == ASSUME IInv, NEW c \in Cpu, FindPass(c) PROVE IInv'
<1> DEFINE L == [my[c] EXCEPT !.idx = @ + 1]
           l == "find"
<1>1. c \in DOMAIN my /\ c \in DOMAIN pc /\ my[c] \in Locals /\ my[c].block = None
  BY DEF IInv, TypeOK, WalkInv, FindPass, At
<1>2. pc[c] \in Inside /\ l \in Inside
  BY DEF FindPass, At, Inside
<1>3. my' = [my EXCEPT ![c] = L] /\ pc' = [pc EXCEPT ![c] = l]
  BY <1>1 DEF IInv, TypeOK, FindPass, At, Goto, Advance
<1>4. L \in Locals /\ L.block = None /\ L.n = my[c].n /\ L.idx >= 1
  <2>1. my[c].idx \in Nat /\ my[c].idx >= 1
    BY <1>1 DEF IInv, WalkInv, FindPass, At, Locals
  <2>8. L.block = None /\ L.n = my[c].n /\ L.idx >= 1
    BY <1>1, <2>1 DEF Locals
  <2>9. L \in Locals
    BY <1>1, <2>1 DEF Locals
  <2> QED
    BY <2>8, <2>9
<1>5. l = "run" => /\ L.start \in 1..Len(blocks[L.reg])
                   /\ blocks[L.reg][L.start] \notin used
  BY <1>1 DEF IInv, TypeOK, WalkInv, FindPass, At, Locals
<1> HIDE DEF L, l
<1> QED
  BY <1>1, <1>2, <1>3, <1>4, <1>5, WalkStep DEF FindPass

LEMMA SkipUsedIInv == ASSUME IInv, NEW c \in Cpu, SkipUsed(c) PROVE IInv'
<1> DEFINE L == [my[c] EXCEPT !.idx = @ + 1]
           l == "skip"
<1>1. c \in DOMAIN my /\ c \in DOMAIN pc /\ my[c] \in Locals /\ my[c].block = None
  BY DEF IInv, TypeOK, WalkInv, SkipUsed, At
<1>2. pc[c] \in Inside /\ l \in Inside
  BY DEF SkipUsed, At, Inside
<1>3. my' = [my EXCEPT ![c] = L] /\ pc' = [pc EXCEPT ![c] = l]
  BY <1>1 DEF IInv, TypeOK, SkipUsed, At, Goto, Advance
<1>4. L \in Locals /\ L.block = None /\ L.n = my[c].n /\ L.idx >= 1
  <2>1. my[c].idx \in Nat /\ my[c].idx >= 1
    BY <1>1 DEF IInv, WalkInv, SkipUsed, At, Locals
  <2>8. L.block = None /\ L.n = my[c].n /\ L.idx >= 1
    BY <1>1, <2>1 DEF Locals
  <2>9. L \in Locals
    BY <1>1, <2>1 DEF Locals
  <2> QED
    BY <2>8, <2>9
<1>5. l = "run" => /\ L.start \in 1..Len(blocks[L.reg])
                   /\ blocks[L.reg][L.start] \notin used
  BY <1>1 DEF IInv, TypeOK, WalkInv, SkipUsed, At, Locals
<1> HIDE DEF L, l
<1> QED
  BY <1>1, <1>2, <1>3, <1>4, <1>5, WalkStep DEF SkipUsed

LEMMA NoRoomIInv == ASSUME IInv, NEW c \in Cpu, NoRoom(c) PROVE IInv'
<1> DEFINE L == [my[c] EXCEPT !.reg = 1, !.idx = 1]
           l == "skip"
<1>1. c \in DOMAIN my /\ c \in DOMAIN pc /\ my[c] \in Locals /\ my[c].block = None
  BY DEF IInv, TypeOK, WalkInv, NoRoom, At
<1>2. pc[c] \in Inside /\ l \in Inside
  BY DEF NoRoom, At, Inside
<1>3. my' = [my EXCEPT ![c] = L] /\ pc' = [pc EXCEPT ![c] = l]
  BY <1>1 DEF IInv, TypeOK, NoRoom, At, Goto
<1>4. L \in Locals /\ L.block = None /\ L.n = my[c].n /\ L.idx >= 1
  <2>1. 1 \in 1..Regions
    BY HeapAssumption
  <2>8. L.block = None /\ L.n = my[c].n /\ L.idx >= 1
    BY <1>1, <2>1 DEF Locals
  <2>9. L \in Locals
    BY <1>1, <2>1 DEF Locals
  <2> QED
    BY <2>8, <2>9
<1>5. l = "run" => /\ L.start \in 1..Len(blocks[L.reg])
                   /\ blocks[L.reg][L.start] \notin used
  BY <1>1 DEF IInv, TypeOK, WalkInv, NoRoom, At, Locals
<1> HIDE DEF L, l
<1> QED
  BY <1>1, <1>2, <1>3, <1>4, <1>5, WalkStep DEF NoRoom

LEMMA StartRunIInv == ASSUME IInv, NEW c \in Cpu, StartRun(c) PROVE IInv'
<1> DEFINE L == [my[c] EXCEPT !.start = my[c].idx, !.total = 0]
           l == "run"
<1>1. c \in DOMAIN my /\ c \in DOMAIN pc /\ my[c] \in Locals /\ my[c].block = None
  BY DEF IInv, TypeOK, WalkInv, StartRun, At
<1>2. pc[c] \in Inside /\ l \in Inside
  BY DEF StartRun, At, Inside
<1>3. my' = [my EXCEPT ![c] = L] /\ pc' = [pc EXCEPT ![c] = l]
  BY <1>1 DEF IInv, TypeOK, StartRun, At, Goto
<1>4. L \in Locals /\ L.block = None /\ L.n = my[c].n /\ L.idx >= 1
  <2>1. my[c].idx \in Nat /\ my[c].idx >= 1
    BY <1>1 DEF IInv, WalkInv, StartRun, At, Locals
  <2>8. L.block = None /\ L.n = my[c].n /\ L.idx >= 1
    BY <1>1, <2>1 DEF Locals
  <2>9. L \in Locals
    BY <1>1, <2>1 DEF Locals
  <2> QED
    BY <2>8, <2>9
<1>5. l = "run" => /\ L.start \in 1..Len(blocks[L.reg])
                   /\ blocks[L.reg][L.start] \notin used
  BY <1>1 DEF IInv, TypeOK, WalkInv, StartRun, At, Locals, InList, Here
<1> HIDE DEF L, l
<1> QED
  BY <1>1, <1>2, <1>3, <1>4, <1>5, WalkStep DEF StartRun

LEMMA RunIInv == ASSUME IInv, NEW c \in Cpu, Run(c) PROVE IInv'
<1> DEFINE L == [my[c] EXCEPT !.total = @ + size[Here(c)] + Marker, !.idx = @ + 1]
           l == "run"
<1>1. c \in DOMAIN my /\ c \in DOMAIN pc /\ my[c] \in Locals /\ my[c].block = None
  BY DEF IInv, TypeOK, WalkInv, Run, At
<1>2. pc[c] \in Inside /\ l \in Inside
  BY DEF Run, At, Inside
<1>3. my' = [my EXCEPT ![c] = L] /\ pc' = [pc EXCEPT ![c] = l]
  BY <1>1 DEF IInv, TypeOK, Run, At, Goto, CountBlock
<1>4. L \in Locals /\ L.block = None /\ L.n = my[c].n /\ L.idx >= 1
  <2>1. my[c].idx \in Nat /\ my[c].idx >= 1 /\ my[c].reg \in 1..Regions /\ my[c].total \in Nat
    BY <1>1 DEF IInv, WalkInv, Run, At, Locals
  <2>2. Here(c) \in Memory
    BY <2>1 DEF IInv, TypeOK, Run, InList, Here
  <2>3. size[Here(c)] \in Nat /\ Marker \in Nat
    BY <2>2, HeapAssumption DEF IInv, TypeOK
  <2>4. my[c].total + size[Here(c)] + Marker \in Nat
    BY <2>1, <2>3
  <2>8. L.block = None /\ L.n = my[c].n /\ L.idx >= 1
    BY <1>1, <2>1, <2>4 DEF Locals
  <2>9. L \in Locals
    <3>1. ASSUME NEW t \in Nat, NEW i \in Nat
          PROVE  [my[c] EXCEPT !.total = t, !.idx = i] \in Locals
      BY <1>1 DEF Locals
    <3>2. my[c].idx + 1 \in Nat
      BY <2>1
    <3> QED
      BY <2>4, <3>1, <3>2
  <2> QED
    BY <2>8, <2>9
<1>5. l = "run" => /\ L.start \in 1..Len(blocks[L.reg])
                   /\ blocks[L.reg][L.start] \notin used
  BY <1>1 DEF IInv, TypeOK, WalkInv, Run, At, Locals
<1> HIDE DEF L, l
<1> QED
  BY <1>1, <1>2, <1>3, <1>4, <1>5, WalkStep DEF Run

LEMMA RunTooShortIInv == ASSUME IInv, NEW c \in Cpu, RunTooShort(c) PROVE IInv'
<1> DEFINE L == my[c]
           l == "skip"
<1>1. c \in DOMAIN my /\ c \in DOMAIN pc /\ my[c] \in Locals /\ my[c].block = None
  BY DEF IInv, TypeOK, WalkInv, RunTooShort, At
<1>2. pc[c] \in Inside /\ l \in Inside
  BY DEF RunTooShort, At, Inside
<1>3. my' = [my EXCEPT ![c] = L] /\ pc' = [pc EXCEPT ![c] = l]
  BY <1>1 DEF IInv, TypeOK, RunTooShort, At, Goto
<1>4. L \in Locals /\ L.block = None /\ L.n = my[c].n /\ L.idx >= 1
  <2>1. my[c].idx \in Nat /\ my[c].idx >= 1
    BY <1>1 DEF IInv, WalkInv, RunTooShort, At, Locals
  <2>8. L.block = None /\ L.n = my[c].n /\ L.idx >= 1
    BY <1>1, <2>1 DEF Locals
  <2>9. L \in Locals
    BY <1>1, <2>1 DEF Locals
  <2> QED
    BY <2>8, <2>9
<1>5. l = "run" => /\ L.start \in 1..Len(blocks[L.reg])
                   /\ blocks[L.reg][L.start] \notin used
  BY <1>1 DEF IInv, TypeOK, WalkInv, RunTooShort, At, Locals
<1> HIDE DEF L, l
<1> QED
  BY <1>1, <1>2, <1>3, <1>4, <1>5, WalkStep DEF RunTooShort

LEMMA NextRegionIInv == ASSUME IInv, NEW c \in Cpu, NextRegion(c) PROVE IInv'
<1>1. c \in DOMAIN my /\ c \in DOMAIN pc /\ my[c] \in Locals /\ my[c].block = None
      /\ pc[c] \in {"find", "skip"}
  BY DEF IInv, TypeOK, WalkInv, NextRegion
<1>2. my[c].reg \in 1..Regions /\ my[c].idx >= 1
  BY <1>1 DEF IInv, WalkInv, Locals
<1>3. pc[c] \in Inside
  BY <1>1 DEF Inside
<1>4. CASE my[c].reg < Regions
  <2> DEFINE L == [my[c] EXCEPT !.reg = @ + 1, !.idx = 1]
  <2>1. my[c].reg + 1 \in 1..Regions
    <3>1. Regions \in Nat
      BY HeapAssumption
    <3> QED
      BY <1>2, <1>4, <3>1
  <2>2. L \in Locals /\ L.block = None /\ L.n = my[c].n /\ L.idx >= 1
    <3>1. ASSUME NEW r \in 1..Regions
          PROVE  [my[c] EXCEPT !.reg = r, !.idx = 1] \in Locals
      BY <1>1 DEF Locals
    <3>2. L.block = None /\ L.n = my[c].n /\ L.idx >= 1
      BY <1>1 DEF Locals
    <3> QED
      BY <2>1, <3>1, <3>2
  <2>3. my' = [my EXCEPT ![c] = L] /\ pc' = [pc EXCEPT ![c] = pc[c]]
    BY <1>1, <1>4 DEF IInv, TypeOK, NextRegion
  <2> HIDE DEF L
  <2> QED
    BY <1>1, <1>3, <2>2, <2>3, WalkStep DEF NextRegion
<1>5. CASE ~(my[c].reg < Regions)
  <2> DEFINE l == IF At(c, "find") THEN "extend" ELSE "mark"
  <2>1. my' = [my EXCEPT ![c] = my[c]] /\ pc' = [pc EXCEPT ![c] = l]
    BY <1>1, <1>5 DEF IInv, TypeOK, NextRegion, Goto
  <2>2. l \in Inside /\ l # "run"
    BY DEF Inside
  <2> HIDE DEF l
  <2> QED
    BY <1>1, <1>2, <1>3, <2>1, <2>2, WalkStep DEF NextRegion
<1> QED
  BY <1>4, <1>5

LEMMA MallocIInv == ASSUME IInv, NEW c \in Cpu, NEW n \in Request, Malloc(c, n) PROVE IInv'
<1> DEFINE L == [NoLocals EXCEPT !.n = n, !.idx = 1, !.fit = Fits(n)]
<1>1. L \in Locals /\ L.block = None /\ L.n = n /\ L.idx = 1
  <2>1. Fits(n) \in BOOLEAN
    BY DEF Fits
  <2>2. n \in Nat /\ 1 \in 1..Regions
    BY HeapAssumption
  <2>3. ASSUME NEW M \in Locals, NEW i \in Nat, NEW j \in Nat, NEW b \in BOOLEAN
        PROVE  [M EXCEPT !.n = i, !.idx = j, !.fit = b] \in Locals
    BY DEF Locals
  <2>4. NoLocals \in Locals
    BY <2>2 DEF NoLocals, Locals
  <2>5. ASSUME NEW M \in Locals, NEW b \in BOOLEAN
        PROVE  LET K == [M EXCEPT !.n = n, !.idx = 1, !.fit = b]
               IN  K.block = M.block /\ K.n = n /\ K.idx = 1
    BY DEF Locals
  <2>6. NoLocals.block = None
    BY DEF NoLocals
  <2> QED
    BY <2>1, <2>2, <2>3, <2>4, <2>5, <2>6
<1>2. my' = [my EXCEPT ![c] = L] /\ pc' = [pc EXCEPT ![c] = "find"] /\ lock' = c
  BY DEF Malloc, Goto
<1> HIDE DEF L
<1>3. my[c].block = None
  BY DEF IInv, WalkInv, Malloc, At
<1>4. my'[c] = L /\ pc'[c] = "find" /\ \A d \in Cpu \ {c} : my'[d] = my[d] /\ pc'[d] = pc[d]
  BY <1>2 DEF IInv, TypeOK
<1>5. TypeOK'
  BY <1>1, <1>2 DEF IInv, TypeOK, Malloc, Label, history
<1>6. RegionInv'
  BY DEF IInv, RegionInv, Placed, Malloc
<1>7. LockInv'
  <2>1. \A d \in Cpu : pc[d] \notin Inside
    BY HeapAssumption DEF IInv, LockInv, Malloc
  <2> QED
    BY <2>1, <1>2, <1>4 DEF LockInv, Inside
<1>8. WalkInv'
  <2> SUFFICES ASSUME NEW d \in Cpu PROVE WalkInv!(d)'
    BY DEF WalkInv
  <2>1. CASE d = c
    BY <2>1, <1>1, <1>4 DEF WalkInv
  <2>2. CASE d # c
    BY <2>2, <1>4 DEF IInv, WalkInv, Placed, Malloc
  <2> QED
    BY <2>1, <2>2
<1>9. OwnerInv'
  <2>1. \A d \in Cpu : my'[d].block = my[d].block
    BY <1>1, <1>3, <1>4
  <2> QED
    BY <2>1 DEF IInv, OwnerInv, Malloc
<1> QED
  BY <1>5, <1>6, <1>7, <1>8, <1>9 DEF IInv

\* Who finds a block that is not marked used has found one that is nobody's.
LEMMA FoundStep ==
  ASSUME IInv, NEW c \in Cpu, pc[c] \in Inside,
         NEW a \in Memory, a \notin used, Found(c, a),
         blocks' \in [1..Regions -> Seq(Memory)],
         size' \in [Memory -> 0..(SizeModulus - 1)],
         room' \in [Memory -> 0..(SizeModulus - 1)], loose' = loose,
         freeBase' \in [1..Regions -> Nat],
         used \subseteq used', used' \subseteq Memory,
         RegionInv', \A b \in Memory : Placed(b) => Placed(b)', Placed(a)',
         UNCHANGED <<lock, granted>>
  PROVE  IInv'
<1>1. my' = [my EXCEPT ![c].block = a] /\ pc' = [pc EXCEPT ![c] = "mark"]
  BY DEF Found, Goto
<1>2. my[c] \in Locals /\ c \in DOMAIN my /\ c \in DOMAIN pc
  BY DEF IInv, TypeOK
<1>3. /\ my'[c] \in Locals /\ my'[c].block = a /\ my'[c].n = my[c].n /\ pc'[c] = "mark"
      /\ \A d \in Cpu \ {c} : my'[d] = my[d] /\ pc'[d] = pc[d]
  <2>1. my'[c] = [my[c] EXCEPT !.block = a] /\ pc'[c] = "mark"
        /\ \A d \in Cpu \ {c} : my'[d] = my[d] /\ pc'[d] = pc[d]
    BY <1>1, <1>2 DEF IInv, TypeOK
  <2>2. ASSUME NEW M \in Locals
        PROVE  /\ [M EXCEPT !.block = a] \in Locals
               /\ [M EXCEPT !.block = a].block = a /\ [M EXCEPT !.block = a].n = M.n
    BY DEF Locals
  <2> QED
    BY <1>2, <2>1, <2>2
<1>4. \A d \in Cpu \ {c} : my[d].block # a /\ pc[d] \notin Inside
  <2> SUFFICES ASSUME NEW d \in Cpu \ {c} PROVE my[d].block # a /\ pc[d] \notin Inside
    OBVIOUS
  <2>1. pc[d] \notin Inside /\ pc[d] \in {"idle", "free"}
    BY Alone
  <2>2. pc[d] = "idle" => my[d].block = None
    BY DEF IInv, WalkInv
  <2>3. pc[d] = "free" => my[d].block \in used
    BY DEF IInv, WalkInv
  <2> QED
    BY <2>1, <2>2, <2>3, MemoryNat
<1>5. TypeOK'
  <2>1. my' \in [Cpu -> Locals]
    BY <1>1, <1>3 DEF IInv, TypeOK
  <2> QED
    BY <1>1, <2>1 DEF IInv, TypeOK, Label
<1>6. LockInv'
  BY <1>3 DEF IInv, LockInv, Inside
<1>7. WalkInv'
  <2> SUFFICES ASSUME NEW d \in Cpu PROVE WalkInv!(d)'
    BY DEF WalkInv
  <2>1. CASE d = c
    BY <2>1, <1>3 DEF IInv, WalkInv
  <2>2. CASE d # c
    <3>1. my'[d] = my[d] /\ pc'[d] = pc[d] /\ pc[d] \notin {"find", "skip", "run"}
      BY <2>2, <1>3, <1>4 DEF Inside
    <3>2. my[d].block \in Memory \cup {None}
      BY DEF IInv, TypeOK, Locals
    <3>3. my[d].block # None => Placed(my[d].block)
      BY DEF IInv, WalkInv
    <3>4. my'[d].block # None => Placed(my[d].block)'
      BY <3>1, <3>2, <3>3 DEF Placed
    <3> QED
      BY <2>2, <1>4, <3>1, <3>4 DEF IInv, WalkInv
  <2> QED
    BY <2>1, <2>2
<1>8. OwnerInv'
  <2>1. \A g \in granted : g.at - Marker \in used' /\ g.at # a + Marker
    <3> SUFFICES ASSUME NEW g \in granted PROVE g.at - Marker \in used' /\ g.at # a + Marker
      OBVIOUS
    <3>1. g.at \in Memory
      BY DEF IInv, TypeOK
    <3>2. g.at \in Nat /\ a \in Nat /\ Marker \in Nat
      BY <3>1, MemoryNat
    <3>3. g.at - Marker \in used
      BY DEF IInv, OwnerInv
    <3> QED
      BY <3>2, <3>3
  <2>2. \A g, h \in granted : g.at = h.at => g = h
    BY DEF IInv, OwnerInv
  <2> SUFFICES ASSUME NEW d \in Cpu, my'[d].block # None
               PROVE  /\ \A g \in granted : g.at # my'[d].block + Marker
                      /\ \A e \in Cpu \ {d} : my'[e].block # my'[d].block
    BY <2>1, <2>2 DEF OwnerInv
  <2>3. CASE d = c
    BY <2>3, <2>1, <1>3, <1>4
  <2>4. CASE d # c
    BY <2>4, <1>3, <1>4 DEF IInv, OwnerInv
  <2> QED
    BY <2>3, <2>4
<1> QED
  BY <1>5, <1>6, <1>7, <1>8 DEF IInv

LEMMA FindHitIInv == ASSUME IInv, NEW c \in Cpu, FindHit(c) PROVE IInv'
<1>1. my[c].reg \in 1..Regions /\ my[c].idx \in 1..Len(blocks[my[c].reg])
  BY DEF IInv, TypeOK, WalkInv, Locals, FindHit, At, InList
<1>2. Here(c) \in Memory /\ Here(c) \notin used /\ Placed(Here(c))
  BY <1>1 DEF IInv, TypeOK, RegionInv, Here, FindHit
<1>3. RegionInv' /\ \A b : Placed(b) => Placed(b)'
  BY DEF IInv, RegionInv, Placed, FindHit
<1>4. pc[c] \in Inside
  BY DEF FindHit, At, Inside
<1> QED
  BY <1>2, <1>3, <1>4, FoundStep DEF IInv, TypeOK, FindHit, history

\* What compaction leaves of a list has the list's blocks only.
LEMMA CutSeq ==
  ASSUME NEW S, NEW b \in Seq(S), NEW i \in 1..Len(b), NEW j \in Nat \ {0}
  PROVE  SubSeq(b, 1, i) \o SubSeq(b, j, Len(b)) \in Seq(S)
<1>1. \A k \in 1..Len(b) : b[k] \in S
  OBVIOUS
<1>2. SubSeq(b, 1, i) \in Seq(S)
  <2>1. \A k \in 1..i : b[k] \in S
    BY <1>1
  <2> QED
    BY <2>1, SubSeqProperties
<1>3. SubSeq(b, j, Len(b)) \in Seq(S)
  <2>1. \A k \in j..Len(b) : b[k] \in S
    BY <1>1
  <2>2. j \in Int /\ Len(b) \in Int
    OBVIOUS
  <2> QED
    BY <2>1, <2>2, SubSeqProperties
<1> QED
  BY <1>2, <1>3, ConcatProperties

LEMMA MergeIInv == ASSUME IInv, NEW c \in Cpu, Merge(c) PROVE IInv'
<1> DEFINE r == my[c].reg
           i == my[c].start
           j == my[c].idx
           first == blocks[r][i]
           cut == SubSeq(blocks[r], 1, i) \o SubSeq(blocks[r], j, Len(blocks[r]))
           S == {a \in Memory : Placed(a)}
           end == IF InList(c) THEN Here(c) ELSE 0
           behind == IF InList(c) THEN Here(c) ELSE freeBase[r]
<1>1. r \in 1..Regions /\ j \in Nat \ {0} /\ pc[c] = "run"
  <2>1. my[c] \in Locals /\ pc[c] = "run"
    BY DEF IInv, TypeOK, Merge, At
  <2>2. j \in Nat /\ j >= 1
    BY <2>1 DEF IInv, WalkInv, Locals
  <2> QED
    BY <2>1, <2>2 DEF Locals
<1>2. i \in 1..Len(blocks[r]) /\ first \notin used
  BY <1>1 DEF IInv, WalkInv
<1>3. blocks[r] \in Seq(Memory) /\ \A k \in 1..Len(blocks[r]) : Placed(blocks[r][k])
  BY <1>1 DEF IInv, TypeOK, RegionInv
<1>4. blocks[r] \in Seq(S)
  <2>1. \A k \in 1..Len(blocks[r]) : blocks[r][k] \in S
    BY <1>3
  <2>2. blocks[r] = [k \in 1..Len(blocks[r]) |-> blocks[r][k]]
    BY <1>3
  <2> QED
    BY <1>3, <2>1, <2>2
<1>5. first \in Memory /\ Placed(first)
  BY <1>2, <1>3
<1>6. cut \in Seq(S) /\ cut \in Seq(Memory)
  BY <1>1, <1>2, <1>3, <1>4, CutSeq
<1>7. blocks' = [blocks EXCEPT ![r] = cut]
  BY DEF Merge
<1>8. /\ size' \in [Memory -> 0..(SizeModulus - 1)]
      /\ room' \in [Memory -> 0..(SizeModulus - 1)]
  <2>1. /\ size' = [size EXCEPT ![first] = Span(first, end)]
        /\ room' = [room EXCEPT ![first] = Span(first, behind)]
    BY DEF Merge
  <2>2. end \in Int /\ behind \in Int /\ first \in Int /\ Marker \in Int
    <3>1. InList(c) => Here(c) \in Memory
      BY <1>1, <1>3 DEF InList, Here
    <3>2. Memory \subseteq Nat /\ Marker \in Nat /\ freeBase[r] \in Nat
      BY <1>1, MemoryNat DEF IInv, TypeOK
    <3>3. end \in Nat /\ behind \in Nat
      BY <3>1, <3>2
    <3>4. first \in Nat
      BY <1>5, <3>2
    <3> HIDE DEF end, behind, first
    <3> QED
      BY <3>2, <3>3, <3>4
  <2>3. Span(first, end) \in 0..(SizeModulus - 1) /\ Span(first, behind) \in 0..(SizeModulus - 1)
    <3>1. end - first - Marker \in Int /\ behind - first - Marker \in Int
      BY <2>2
    <3> HIDE DEF end, behind, first
    <3> QED
      BY <3>1, SizeBits DEF Span
  <2> QED
    BY <2>1, <2>3 DEF IInv, TypeOK
<1>9. used' = used \cup {first} /\ Found(c, first) /\ freeBase' = freeBase /\ UNCHANGED <<lock, granted, loose>>
  BY DEF Merge
<1>10. \A a : Placed(a)' <=> Placed(a)
  BY <1>9 DEF Placed
<1> HIDE DEF first, end, behind
<1>11. blocks' \in [1..Regions -> Seq(Memory)]
  BY <1>6, <1>7 DEF IInv, TypeOK
<1>12. RegionInv'
  <2>1. \A q \in 1..Regions : \A k \in 1..Len(blocks'[q]) : Placed(blocks'[q][k])
    <3> SUFFICES ASSUME NEW q \in 1..Regions, NEW k \in 1..Len(blocks'[q])
                 PROVE  Placed(blocks'[q][k])
      OBVIOUS
    <3>1. CASE q = r
      <4>1. blocks'[q] = cut
        BY <3>1, <1>7 DEF IInv, TypeOK
      <4>2. ASSUME NEW t \in Seq(S), NEW m \in 1..Len(t) PROVE Placed(t[m])
        OBVIOUS
      <4> HIDE DEF cut, S
      <4> QED
        BY <4>1, <4>2, <1>6
    <3>2. CASE q # r
      BY <3>2, <1>7 DEF IInv, TypeOK, RegionInv
    <3> QED
      BY <3>1, <3>2
  <2>2. \A a \in used' : Placed(a)
    BY <1>5, <1>9 DEF IInv, RegionInv
  <2> QED
    BY <2>1, <2>2, <1>9 DEF IInv, RegionInv, Placed
<1>13. used' \subseteq Memory /\ used \subseteq used' /\ freeBase' \in [1..Regions -> Nat] /\ pc[c] \in Inside
  BY <1>1, <1>5, <1>9 DEF IInv, TypeOK, Inside
<1> QED
  BY <1>2, <1>5, <1>8, <1>9, <1>10, <1>11, <1>12, <1>13, FoundStep DEF Placed

\* The end of what a region has given out is no block's address.
LEMMA EndIsNew ==
  ASSUME IInv, NEW r \in 1..Regions, freeBase[r] < Base[r] + Length[r], NEW a \in Int, Placed(a)
  PROVE  a # freeBase[r]
<1>1. PICK s \in 1..Regions : Base[s] <= a /\ a + Marker < freeBase[s]
  BY DEF Placed
<1>2. /\ Base[r] \in Nat /\ Length[r] \in Nat /\ freeBase[r] \in Nat
      /\ Base[s] \in Nat /\ Length[s] \in Nat /\ freeBase[s] \in Nat
  BY HeapAssumption DEF IInv, TypeOK
<1>3. /\ Base[r] <= freeBase[r] /\ freeBase[r] <= Base[r] + Length[r]
      /\ Base[s] <= freeBase[s] /\ freeBase[s] <= Base[s] + Length[s]
  BY DEF IInv, RegionInv
<1>4. (r < s => Base[r] + Length[r] <= Base[s]) /\ (s < r => Base[s] + Length[s] <= Base[r])
  BY HeapAssumption
<1>5. r < s \/ s < r \/ r = s
  OBVIOUS
<1>6. Marker \in Nat
  BY MemoryNat
<1> QED
  BY <1>1, <1>2, <1>3, <1>4, <1>5, <1>6

LEMMA ExtendIInv == ASSUME IInv, NEW c \in Cpu, Extend(c) PROVE IInv'
<1> DEFINE n == my[c].n
<1>1. PICK r \in 1..Regions :
        /\ HasRoom(r, n)
        /\ blocks' = [blocks EXCEPT ![r] = Append(@, freeBase[r])]
        /\ size' = [size EXCEPT ![freeBase[r]] = n]
        /\ room' = [room EXCEPT ![freeBase[r]] = n]
        /\ used' = used \cup {freeBase[r]}
        /\ freeBase' = [freeBase EXCEPT ![r] = @ + Needed(n)]
        /\ Found(c, freeBase[r])
  BY DEF Extend
<1>0. PICK a : a = freeBase[r]
  OBVIOUS
<1>2. pc[c] \in Inside /\ UNCHANGED <<lock, granted, loose>>
  BY DEF Extend, At, Inside
<1>3. n \in Nat \ {0} /\ n \in 0..(SizeModulus - 1)
  <2>1. n \in Request
    BY <1>2 DEF IInv, WalkInv
  <2>2. SizeModulus \in Nat /\ Request \subseteq 1..(SizeModulus - 1)
    BY HeapAssumption
  <2> HIDE DEF n
  <2>3. n \in 1..(SizeModulus - 1)
    BY <2>1, <2>2
  <2> QED
    BY <2>2, <2>3
<1>4. Needed(n) \in Nat /\ Needed(n) > Marker /\ Marker \in Nat
  BY <1>3, NeededBounds, MemoryNat
<1>5. Base[r] \in Nat /\ Length[r] \in Nat /\ a \in Nat /\ Base[r] <= a
  BY <1>0, HeapAssumption DEF IInv, TypeOK, RegionInv
<1>6. a + Needed(n) < Base[r] + Length[r]
  BY <1>0, <1>1 DEF HasRoom
<1>7. a \in Memory
  <2>1. a \in Base[r]..(Base[r] + Length[r] - 1)
    BY <1>4, <1>5, <1>6
  <2> QED
    BY <2>1 DEF Memory
<1>8. freeBase' \in [1..Regions -> Nat] /\ freeBase'[r] = a + Needed(n)
      /\ \A s \in 1..Regions \ {r} : freeBase'[s] = freeBase[s]
  BY <1>0, <1>1, <1>4, <1>5 DEF IInv, TypeOK
<1>9. \A s \in 1..Regions : freeBase[s] <= freeBase'[s] /\ freeBase[s] \in Nat /\ freeBase'[s] \in Nat
  <2> SUFFICES ASSUME NEW s \in 1..Regions
               PROVE  freeBase[s] <= freeBase'[s] /\ freeBase[s] \in Nat /\ freeBase'[s] \in Nat
    OBVIOUS
  <2>1. freeBase[s] \in Nat /\ freeBase'[s] \in Nat
    BY <1>8 DEF IInv, TypeOK
  <2>2. CASE s = r
    BY <2>1, <2>2, <1>0, <1>4, <1>5, <1>8
  <2>3. CASE s # r
    BY <2>1, <2>3, <1>8
  <2> QED
    BY <2>1, <2>2, <2>3
<1>10. \A b \in Memory : Placed(b) => Placed(b)'
  <2> SUFFICES ASSUME NEW b \in Memory, NEW s \in 1..Regions, Base[s] <= b, b + Marker < freeBase[s]
               PROVE  b + Marker < freeBase'[s]
    BY DEF Placed
  <2>1. b \in Nat
    BY MemoryNat
  <2> QED
    BY <2>1, <1>4, <1>9
<1>11. Placed(a)'
  <2>1. a + Marker < freeBase'[r]
    BY <1>4, <1>5, <1>8
  <2> QED
    BY <2>1, <1>5 DEF Placed
<1>12. a \notin used
  <2> SUFFICES ASSUME a \in used PROVE FALSE
    OBVIOUS
  <2>1. Placed(a) /\ a \in Int
    BY <1>5 DEF IInv, RegionInv
  <2>2. a < Base[r] + Length[r]
    BY <1>4, <1>5, <1>6
  <2> QED
    BY <1>0, <2>1, <2>2, EndIsNew
<1>13. blocks' \in [1..Regions -> Seq(Memory)]
  <2>1. Append(blocks[r], a) \in Seq(Memory)
    BY <1>7, AppendProperties DEF IInv, TypeOK
  <2>2. blocks' = [blocks EXCEPT ![r] = Append(blocks[r], a)]
    BY <1>0, <1>1
  <2> QED
    BY <2>1, <2>2 DEF IInv, TypeOK
<1>14. size' \in [Memory -> 0..(SizeModulus - 1)] /\ room' \in [Memory -> 0..(SizeModulus - 1)]
  BY <1>0, <1>1, <1>3 DEF IInv, TypeOK
<1>15. used \subseteq used' /\ used' \subseteq Memory
  BY <1>0, <1>1, <1>7 DEF IInv, TypeOK
<1>16. RegionInv'
  <2>1. ASSUME NEW s \in 1..Regions
        PROVE  Base[s] <= freeBase'[s] /\ freeBase'[s] <= Base[s] + Length[s]
    <3>1. Base[s] <= freeBase[s] /\ freeBase[s] <= Base[s] + Length[s] /\ Base[s] \in Nat
      BY HeapAssumption DEF IInv, RegionInv
    <3>2. CASE s = r
      BY <3>1, <3>2, <1>4, <1>5, <1>6, <1>8, <1>9
    <3>3. CASE s # r
      BY <3>1, <3>3, <1>8, <1>9
    <3> QED
      BY <3>2, <3>3
  <2>2. ASSUME NEW s \in 1..Regions, NEW i \in 1..Len(blocks'[s])
        PROVE  blocks'[s][i] \in Memory /\ (blocks'[s][i] = a \/ Placed(blocks'[s][i]))
    <3>1. blocks[s] \in Seq(Memory) /\ \A k \in 1..Len(blocks[s]) : Placed(blocks[s][k])
      BY DEF IInv, TypeOK, RegionInv
    <3>2. CASE s = r
      <4>1. blocks'[s] = Append(blocks[s], a)
        BY <3>2, <1>0, <1>1 DEF IInv, TypeOK
      <4>2. ASSUME NEW t \in Seq(Memory), NEW k \in 1..Len(Append(t, a))
            PROVE  (k \in 1..Len(t) /\ Append(t, a)[k] = t[k]) \/ Append(t, a)[k] = a
        BY <1>7, AppendProperties
      <4> QED
        BY <3>1, <4>1, <4>2, <1>7
    <3>3. CASE s # r
      BY <3>1, <3>3, <1>1 DEF IInv, TypeOK
    <3> QED
      BY <3>2, <3>3
  <2>3. \A x \in used' : x \in Memory /\ (x = a \/ Placed(x))
    BY <1>0, <1>1, <1>7 DEF IInv, TypeOK, RegionInv
  <2> QED
    BY <2>1, <2>2, <2>3, <1>10, <1>11 DEF RegionInv, Placed
<1>17. Found(c, a)
  BY <1>0, <1>1
<1> QED
  BY <1>2, <1>7, <1>8, <1>10, <1>11, <1>12, <1>13, <1>14, <1>15, <1>16, <1>17, FoundStep

\* The block found goes into its owner's hands with its USED bit set.
LEMMA MarkIInv == ASSUME IInv, NEW c \in Cpu, Mark(c) PROVE IInv'
<1> DEFINE b == my[c].block
           n == my[c].n
<1>1. /\ my' = [my EXCEPT ![c] = NoLocals] /\ pc' = [pc EXCEPT ![c] = "idle"]
      /\ lock' = None /\ used' = used \cup ({b} \ {None})
      /\ granted' = granted \cup Granted(c)
      /\ UNCHANGED <<blocks, size, freeBase, room, loose>>
  BY DEF Mark, Return, Goto, history
<1>2. pc[c] \in Inside /\ lock = c
  BY DEF IInv, LockInv, Mark, At, Inside
<1>3. NoLocals \in Locals /\ NoLocals.block = None
  BY HeapAssumption DEF NoLocals, Locals
<1>4. /\ my'[c] = NoLocals /\ pc'[c] = "idle"
      /\ \A d \in Cpu \ {c} : my'[d] = my[d] /\ pc'[d] = pc[d] /\ pc[d] \notin Inside
  BY <1>1, <1>2, Alone DEF IInv, TypeOK
<1>5. b \in Memory \cup {None} /\ (b # None => Placed(b)) /\ n \in Request
  BY <1>2 DEF IInv, TypeOK, WalkInv, Locals
<1>6. \A g \in granted' : g \in granted \/ (b # None /\ g = [at |-> b + Marker, len |-> n])
  BY <1>1 DEF Granted
<1>7. b # None => b \in Memory /\ b \in Nat /\ Marker \in Nat /\ b + Marker \in Memory
  <2> HIDE DEF b
  <2> SUFFICES ASSUME b # None PROVE b \in Memory /\ b \in Nat /\ Marker \in Nat /\ b + Marker \in Memory
    OBVIOUS
  <2>1. b \in Nat /\ Marker \in Nat
    BY <1>5, MemoryNat
  <2> QED
    BY <1>5, <2>1, PlacedMemory DEF IInv
<1>8. TypeOK'
  <2>1. granted' \subseteq [at : Memory, len : Request]
    BY <1>5, <1>6, <1>7 DEF IInv, TypeOK
  <2>2. used' \subseteq Memory
    BY <1>1, <1>5 DEF IInv, TypeOK
  <2> QED
    BY <1>1, <1>3, <2>1, <2>2 DEF IInv, TypeOK, Label
<1>9. RegionInv'
  BY <1>1, <1>5 DEF IInv, RegionInv, Placed
<1>10. LockInv'
  BY <1>1, <1>4, HeapAssumption DEF LockInv, Inside
<1>11. WalkInv'
  <2> SUFFICES ASSUME NEW d \in Cpu PROVE WalkInv!(d)'
    BY DEF WalkInv
  <2>1. CASE d = c
    BY <2>1, <1>3, <1>4 DEF WalkInv, Inside
  <2>2. CASE d # c
    BY <2>2, <1>1, <1>4 DEF IInv, WalkInv, Placed, Inside
  <2> QED
    BY <2>1, <2>2
<1>12. OwnerInv'
  <2> HIDE DEF b, n
  <2>1. \A g \in granted : g.at - Marker \in used /\ (b # None => g.at # b + Marker)
    BY DEF IInv, OwnerInv, b
  <2>2. \A g \in granted' : g.at - Marker \in used'
    BY <1>1, <1>6, <1>7, <2>1
  <2>3. \A g, h \in granted' : g.at = h.at => g = h
    <3>1. \A g, h \in granted : g.at = h.at => g = h
      BY DEF IInv, OwnerInv
    <3> QED
      BY <1>6, <2>1, <3>1
  <2>4. ASSUME NEW d \in Cpu \ {c}, my[d].block # None, NEW g \in granted'
        PROVE  g.at # my[d].block + Marker
    <3>1. \A h \in granted : h.at # my[d].block + Marker
      BY <2>4 DEF IInv, OwnerInv
    <3>2. my[d].block # b /\ my[d].block \in Memory
      BY <2>4 DEF IInv, OwnerInv, TypeOK, Locals, b
    <3>3. my[d].block \in Nat
      BY <3>2, MemoryNat
    <3>4. b # None => b + Marker # my[d].block + Marker
      BY <1>7, <3>2, <3>3
    <3> QED
      BY <1>6, <3>1, <3>4
  <2> SUFFICES ASSUME NEW d \in Cpu, my'[d].block # None
               PROVE  /\ \A g \in granted' : g.at # my'[d].block + Marker
                      /\ \A e \in Cpu \ {d} : my'[e].block # my'[d].block
    BY <2>2, <2>3 DEF OwnerInv
  <2>5. d # c /\ my[d].block # None
    BY <1>3, <1>4
  <2>6. \A e \in Cpu \ {d} : my'[e].block # my'[d].block
    BY <1>3, <1>4, <2>5 DEF IInv, OwnerInv
  <2> QED
    BY <1>4, <2>4, <2>5, <2>6
<1> QED
  BY <1>8, <1>9, <1>10, <1>11, <1>12 DEF IInv

\* free takes the block from its owner; its USED bit is still set when another
\* CPU looks at it.
LEMMA FreeReadIInv == ASSUME IInv, NEW c \in Cpu, NEW g \in granted, FreeRead(c, g) PROVE IInv'
<1> DEFINE a == g.at - Marker
<1>1. /\ pc[c] = "idle" /\ granted' = granted \ {g}
      /\ UNCHANGED <<blocks, size, used, freeBase, lock, room, loose>>
  BY DEF FreeRead, At, history
<1>2. a \in used /\ a \in Memory /\ g.at \in Nat /\ a \in Nat /\ a + Marker = g.at
  <2>1. a \in used /\ a \in Memory /\ g.at \in Memory
    BY DEF IInv, OwnerInv, TypeOK
  <2>2. g.at \in Nat /\ a \in Nat /\ Marker \in Nat
    BY <2>1, MemoryNat
  <2> QED
    BY <2>1, <2>2
<1>3. /\ my' = [my EXCEPT ![c].block = a, ![c].saw = size[a]]
      /\ pc' = [pc EXCEPT ![c] = "free"]
  BY <1>2 DEF FreeRead, Goto
<1>4. size[a] \in Nat /\ size[a] < SizeModulus
  BY <1>2, HeapAssumption, SMTT(30) DEF IInv, TypeOK
<1>5. /\ my'[c] \in Locals /\ my'[c].block = a /\ my'[c].saw = size[a]
      /\ pc'[c] = "free"
      /\ \A d \in Cpu \ {c} : my'[d] = my[d] /\ pc'[d] = pc[d]
  <2>1. my[c] \in Locals /\ c \in DOMAIN my /\ c \in DOMAIN pc
    BY DEF IInv, TypeOK
  <2>2. my'[c] = [my[c] EXCEPT !.block = a, !.saw = size[a]] /\ pc'[c] = "free"
        /\ \A d \in Cpu \ {c} : my'[d] = my[d] /\ pc'[d] = pc[d]
    BY <1>3, <2>1 DEF IInv, TypeOK
  <2>3. a \in Memory /\ size[a] \in Nat
    BY <1>2, <1>4
  <2> HIDE DEF a
  <2> HIDE DEF a
  <2>4. my'[c] \in Locals
    BY <2>1, <2>2, <2>3 DEF Locals
  <2>5. my'[c].block = a /\ my'[c].saw = size[a]
    BY <2>1, <2>2 DEF Locals
  <2> QED
    BY <2>2, <2>4, <2>5
<1>6. Placed(a) /\ a # None
  BY <1>2, MemoryNat DEF IInv, RegionInv
<1> HIDE DEF a
<1>7. TypeOK'
  BY <1>1, <1>3, <1>5 DEF IInv, TypeOK, Label
<1>8. RegionInv'
  BY <1>1 DEF IInv, RegionInv, Placed
<1>9. LockInv'
  BY <1>1, <1>5 DEF IInv, LockInv, Inside
<1>10. WalkInv'
  <2> SUFFICES ASSUME NEW d \in Cpu PROVE WalkInv!(d)'
    BY DEF WalkInv
  <2>1. CASE d = c
    BY <2>1, <1>1, <1>2, <1>4, <1>5, <1>6 DEF WalkInv, Inside, Placed
  <2>2. CASE d # c
    BY <2>2, <1>1, <1>5 DEF IInv, WalkInv, Placed
  <2> QED
    BY <2>1, <2>2
<1>11. OwnerInv'
  <2>1. \A h \in granted' : h \in granted /\ h.at # g.at
    BY <1>1 DEF IInv, OwnerInv
  <2>2. \A d \in Cpu \ {c} : my[d].block # a
    BY <1>2, <1>6 DEF IInv, OwnerInv
  <2>3. \A h \in granted' : h.at - Marker \in used'
    BY <1>1, <2>1 DEF IInv, OwnerInv
  <2>4. \A h, k \in granted' : h.at = k.at => h = k
    BY <2>1 DEF IInv, OwnerInv
  <2> SUFFICES ASSUME NEW d \in Cpu, my'[d].block # None
               PROVE  /\ \A h \in granted' : h.at # my'[d].block + Marker
                      /\ \A e \in Cpu \ {d} : my'[e].block # my'[d].block
    BY <2>3, <2>4 DEF OwnerInv
  <2>5. CASE d = c
    BY <2>5, <1>2, <1>5, <2>1, <2>2
  <2>6. CASE d # c
    BY <2>6, <1>5, <2>1, <2>2 DEF IInv, OwnerInv
  <2> QED
    BY <2>5, <2>6
<1> QED
  BY <1>7, <1>8, <1>9, <1>10, <1>11 DEF IInv

\* Clearing the USED bit frees what this CPU has taken, and nothing else.
LEMMA FreeWriteIInv == ASSUME IInv, NEW c \in Cpu, FreeWrite(c) PROVE IInv'
<1> DEFINE b == my[c].block
<1>1. /\ pc[c] = "free" /\ my' = [my EXCEPT ![c] = NoLocals] /\ pc' = [pc EXCEPT ![c] = "idle"]
      /\ size' = [size EXCEPT ![b] = my[c].saw] /\ used' = used \ {b}
      /\ loose' = (loose \/ my[c].saw # room[b])
      /\ UNCHANGED <<blocks, freeBase, lock, granted, room>>
  BY DEF FreeWrite, Return, Goto, At
<1>2. b \in used /\ b \in Memory /\ b \in Nat /\ my[c].saw \in 0..(SizeModulus - 1)
  <2>1. my[c] \in Locals /\ b \in used /\ my[c].saw < SizeModulus
    BY <1>1 DEF IInv, TypeOK, WalkInv
  <2>2. my[c].saw \in Nat /\ b \in Memory
    BY <2>1 DEF IInv, TypeOK, Locals
  <2>3. b \in Nat
    BY <2>2, MemoryNat
  <2>4. SizeModulus \in Nat
    BY HeapAssumption
  <2>5. my[c].saw \in 0..(SizeModulus - 1)
    BY <2>1, <2>2, <2>4
  <2> QED
    BY <2>1, <2>2, <2>3, <2>5
<1>3. NoLocals \in Locals /\ NoLocals.block = None
  BY HeapAssumption DEF NoLocals, Locals
<1>4. /\ my'[c] = NoLocals /\ pc'[c] = "idle"
      /\ \A d \in Cpu \ {c} : my'[d] = my[d] /\ pc'[d] = pc[d]
  BY <1>1 DEF IInv, TypeOK
<1>5. b # None /\ (\A g \in granted : g.at # b + Marker) /\ \A d \in Cpu \ {c} : my[d].block # b
  BY <1>2, MemoryNat DEF IInv, OwnerInv
<1>6. TypeOK'
  BY <1>1, <1>2, <1>3 DEF IInv, TypeOK, Label
<1>7. RegionInv'
  BY <1>1 DEF IInv, RegionInv, Placed
<1>8. LockInv'
  BY <1>1, <1>4 DEF IInv, LockInv, Inside
<1>9. WalkInv'
  <2> SUFFICES ASSUME NEW d \in Cpu PROVE WalkInv!(d)'
    BY DEF WalkInv
  <2>1. CASE d = c
    BY <2>1, <1>3, <1>4 DEF WalkInv, Inside
  <2>2. CASE d # c
    <3>1. pc[d] = "free" => my[d].block \in used'
      BY <2>2, <1>1, <1>5 DEF IInv, WalkInv
    <3> QED
      BY <2>2, <3>1, <1>1, <1>4 DEF IInv, WalkInv, Placed
  <2> QED
    BY <2>1, <2>2
<1>10. OwnerInv'
  <2> HIDE DEF b
  <2>1. \A g \in granted : g.at - Marker \in used'
    <3> SUFFICES ASSUME NEW g \in granted PROVE g.at - Marker \in used'
      OBVIOUS
    <3>1. g.at \in Memory /\ g.at - Marker \in used
      BY DEF IInv, TypeOK, OwnerInv
    <3>2. g.at \in Nat /\ Marker \in Nat
      BY <3>1, MemoryNat
    <3>3. g.at - Marker # b
      BY <1>2, <1>5, <3>2
    <3> QED
      BY <1>1, <3>1, <3>3
  <2>2. \A d \in Cpu : my'[d].block # None => d # c /\ my'[d] = my[d]
    BY <1>3, <1>4
  <2> SUFFICES ASSUME NEW d \in Cpu, my'[d].block # None
               PROVE  /\ \A g \in granted : g.at # my'[d].block + Marker
                      /\ \A e \in Cpu \ {d} : my'[e].block # my'[d].block
    BY <2>1, <1>1 DEF IInv, OwnerInv
  <2> QED
    BY <1>3, <1>4, <2>2 DEF IInv, OwnerInv
<1> QED
  BY <1>6, <1>7, <1>8, <1>9, <1>10 DEF IInv

LEMMA NextIInv == IInv /\ [Next]_vars => IInv'
<1> SUFFICES ASSUME IInv, [Next]_vars PROVE IInv'
  OBVIOUS
<1>1. ASSUME NEW c \in Cpu, NEW n \in Request, Malloc(c, n) PROVE IInv'
  BY <1>1, MallocIInv
<1>2. ASSUME NEW c \in Cpu, NEW g \in granted, FreeRead(c, g) PROVE IInv'
  BY <1>2, FreeReadIInv
<1>3. ASSUME NEW c \in Cpu, Step(c) PROVE IInv'
  BY <1>3, FindPassIInv, FindHitIInv, NextRegionIInv, ExtendIInv, NoRoomIInv, SkipUsedIInv,
     StartRunIInv, RunIInv, RunTooShortIInv, MergeIInv, MarkIInv, FreeWriteIInv DEF Step
<1>4. CASE UNCHANGED vars
  BY <1>4 DEF IInv, TypeOK, RegionInv, LockInv, WalkInv, OwnerInv, Placed, vars
<1> QED
  BY <1>1, <1>2, <1>3, <1>4 DEF Next

LEMMA Invariance == Spec => []IInv
BY InitIInv, NextIInv, PTL DEF Spec

-----------------------------------------------------------------------------
\* Results

\* Addresses stay in the heap's memory and sizes within their 31 bits.
THEOREM TypeCorrect == Spec => []TypeOK
<1>1. IInv => TypeOK
  BY DEF IInv
<1> QED
  BY <1>1, Invariance, PTL

\* The block malloc finds is in nobody's hands and no free is about to write its
\* flags, for any CPUs, regions and sizes, and whatever is freed under its walk:
\* also where compaction has computed a size it should not have.
THEOREM FoundBlockIsNobodys == Spec => []FoundIsNobodys
<1>1. IInv => FoundIsNobodys
  BY DEF IInv, OwnerInv, FoundIsNobodys
<1> QED
  BY <1>1, Invariance, PTL

-----------------------------------------------------------------------------
\* The lists

\* Where the block j of r's list begins, or what lies behind the list.
Place(r, j) == IF j <= Len(blocks[r]) THEN blocks[r][j] ELSE freeBase[r]

\* The blocks of a region from its base to the end of what it has given out, each
\* with its bytes before the next: of any two, not only of neighbours.
TileInv ==
  \A r \in 1..Regions :
    /\ blocks[r] = <<>> => freeBase[r] = Base[r]
    /\ blocks[r] # <<>> => blocks[r][1] = Base[r]
    /\ \A i \in 1..Len(blocks[r]) :
         /\ Base[r] <= blocks[r][i]
         /\ blocks[r][i] + Marker + room[blocks[r][i]] <= freeBase[r]
    /\ \A i, j \in 1..Len(blocks[r]) :
         i < j => blocks[r][i] + Marker + room[blocks[r][i]] <= blocks[r][j]

\* A block's size is what it has room for, or comes from a null pointer; and it is
\* what it has room for where malloc may find it, until a block is loose.
RoomInv ==
  /\ \A a \in Memory : size[a] = room[a] \/ size[a] = Span(a, 0)
  /\ ~loose => \A a \in Memory \ used : size[a] = room[a]

\* free writes back the size it has read, for nobody changes a used block's.
FreeInv == \A c \in Cpu : pc[c] = "free" => my[c].saw = size[my[c].block]

\* A run's blocks are free, and until a block is loose its bytes lie before what it
\* has come to.
RunInv ==
  \A c \in Cpu : pc[c] = "run" =>
    LET b == blocks[my[c].reg] IN
    /\ my[c].start <= my[c].idx /\ my[c].idx <= Len(b) + 1
    /\ my[c].start = my[c].idx => my[c].total = 0
    /\ ~loose => b[my[c].start] + my[c].total <= Place(my[c].reg, my[c].idx)
    /\ \A k \in my[c].start..(my[c].idx - 1) : b[k] \notin used

Listed(a) == \E r \in 1..Regions : \E i \in 1..Len(blocks[r]) : blocks[r][i] = a

\* What was granted or found is a listed block, with room for its request until a
\* block is loose.
HandInv ==
  /\ \A g \in granted : Listed(g.at - Marker) /\ (~loose => g.len <= room[g.at - Marker])
  /\ \A c \in Cpu : my[c].block # None => Listed(my[c].block)
  /\ \A c \in Cpu : ~loose /\ pc[c] = "mark" /\ my[c].block # None
                    => my[c].n <= room[my[c].block]

LInv == IInv /\ TileInv /\ RoomInv /\ FreeInv /\ RunInv

-----------------------------------------------------------------------------
\* Addresses of listed blocks

\* A listed block, its sizes and its marker are numbers, and a marker is not empty.
LEMMA ListedNat ==
  ASSUME TypeOK, NEW r \in 1..Regions, NEW i \in 1..Len(blocks[r])
  PROVE  /\ blocks[r][i] \in Memory /\ blocks[r][i] \in Nat
         /\ size[blocks[r][i]] \in Nat /\ room[blocks[r][i]] \in Nat /\ Marker \in Nat /\ Marker > 0
<1>1. blocks[r][i] \in Memory
  <2>1. PICK b \in Seq(Memory) : b = blocks[r]
    BY DEF TypeOK
  <2>2. i \in 1..Len(b)
    BY <2>1
  <2>3. b[i] \in Memory
    BY <2>2
  <2> QED
    BY <2>1, <2>3
<1>2. size[blocks[r][i]] \in Nat /\ room[blocks[r][i]] \in Nat /\ Marker \in Nat /\ Marker > 0
  BY <1>1, HeapAssumption DEF TypeOK
<1> QED
  BY <1>1, <1>2, MemoryNat

\* A block that ends with one region comes before what the next begins with.
LEMMA Chain ==
  ASSUME NEW a \in Nat, NEW m \in Nat, NEW n \in Nat, NEW f \in Nat, NEW e \in Nat,
         NEW l \in Nat, NEW k \in Nat, NEW b \in Nat,
         a + m + n <= f, f <= e + l, e + l <= k, k <= b
  PROVE  a + m + n <= b
OBVIOUS

\* The blocks of one region lie before those of the next.
LEMMA Before ==
  ASSUME TypeOK, RegionInv, TileInv,
         NEW r \in 1..Regions, NEW s \in 1..Regions, r < s,
         NEW i \in 1..Len(blocks[r]), NEW j \in 1..Len(blocks[s])
  PROVE  blocks[r][i] + Marker + room[blocks[r][i]] <= blocks[s][j]
<1>1. PICK a \in Nat, n \in Nat : a = blocks[r][i] /\ n = room[blocks[r][i]]
  BY ListedNat
<1>2. PICK b \in Nat : b = blocks[s][j]
  BY ListedNat
<1>3. PICK f \in Nat : f = freeBase[r]
  BY DEF TypeOK
<1>4. PICK e \in Nat, l \in Nat, k \in Nat : e = Base[r] /\ l = Length[r] /\ k = Base[s]
  BY HeapAssumption
<1>5. Marker \in Nat
  BY MemoryNat
<1>6. a + Marker + n <= f
  BY <1>1, <1>3 DEF TileInv
<1>7. f <= e + l
  BY <1>3, <1>4 DEF RegionInv
<1>8. e + l <= k
  BY <1>4, HeapAssumption
<1>9. k <= b
  BY <1>2, <1>4 DEF TileInv
<1>10. a + Marker + n <= b
  BY <1>5, <1>6, <1>7, <1>8, <1>9, Chain
<1> QED
  BY <1>1, <1>2, <1>10

\* Two listed blocks lie apart, the bytes of each included.
LEMMA Apart ==
  ASSUME TypeOK, RegionInv, TileInv,
         NEW r \in 1..Regions, NEW s \in 1..Regions,
         NEW i \in 1..Len(blocks[r]), NEW j \in 1..Len(blocks[s]),
         r # s \/ i # j
  PROVE  \/ blocks[r][i] + Marker + room[blocks[r][i]] <= blocks[s][j]
         \/ blocks[s][j] + Marker + room[blocks[s][j]] <= blocks[r][i]
<1>1. CASE r = s
  <2>1. i < j \/ j < i
    BY <1>1
  <2> QED
    BY <1>1, <2>1 DEF TileInv
<1>2. CASE r # s
  BY <1>2, Before
<1> QED
  BY <1>1, <1>2

\* So a block has one place in one list.
LEMMA Distinct ==
  ASSUME TypeOK, RegionInv, TileInv,
         NEW r \in 1..Regions, NEW s \in 1..Regions,
         NEW i \in 1..Len(blocks[r]), NEW j \in 1..Len(blocks[s]),
         r # s \/ i # j
  PROVE  blocks[r][i] # blocks[s][j]
<1>1. PICK a \in Nat, m \in Nat : a = blocks[r][i] /\ m = room[blocks[r][i]]
  BY ListedNat
<1>2. PICK b \in Nat, n \in Nat : b = blocks[s][j] /\ n = room[blocks[s][j]]
  BY ListedNat
<1>3. a + Marker + m <= b \/ b + Marker + n <= a
  BY <1>1, <1>2, Apart
<1>4. Marker \in Nat /\ Marker > 0
  BY HeapAssumption
<1>5. a # b
  <2>1. CASE a + Marker + m <= b
    BY <2>1, <1>4
  <2>2. CASE b + Marker + n <= a
    BY <2>2, <1>4
  <2> QED
    BY <1>3, <2>1, <2>2
<1> QED
  BY <1>1, <1>2, <1>5

-----------------------------------------------------------------------------
\* What a step changes

\* Only an extension and a merge change the lists and the sizes: free writes back
\* the size that is there.
LEMMA ListChanges ==
  ASSUME LInv, [Next]_vars
  PROVE  \/ UNCHANGED <<blocks, size, freeBase, room>>
         \/ \E c \in Cpu : Extend(c) \/ Merge(c)
<1>1. ASSUME NEW c \in Cpu, FreeWrite(c) PROVE UNCHANGED <<blocks, size, freeBase, room>>
  <2>1. my[c].saw = size[my[c].block] /\ size' = [size EXCEPT ![my[c].block] = my[c].saw]
    BY <1>1 DEF LInv, FreeInv, FreeWrite, At
  <2>2. size' = size
    BY <2>1 DEF LInv, IInv, TypeOK
  <2> QED
    BY <1>1, <2>2 DEF FreeWrite
<1>2. ASSUME NEW c \in Cpu, Step(c), ~Extend(c), ~Merge(c)
      PROVE  UNCHANGED <<blocks, size, freeBase, room>>
  BY <1>1, <1>2 DEF Step, FindPass, FindHit, NextRegion, NoRoom, SkipUsed, StartRun, Run,
     RunTooShort, Mark, history
<1>3. ASSUME NEW c \in Cpu, \/ \E n \in Request : Malloc(c, n)
                            \/ \E g \in granted : FreeRead(c, g)
      PROVE  UNCHANGED <<blocks, size, freeBase, room>>
  BY <1>3 DEF Malloc, FreeRead, history
<1> QED
  BY <1>2, <1>3 DEF Next, vars

\* Only a free that writes clears USED bits, and only its own block's.
LEMMA UsedChanges ==
  ASSUME LInv, [Next]_vars
  PROVE  (used \subseteq used' /\ loose' = loose) \/ \E c \in Cpu : FreeWrite(c)
BY DEF Next, Step, vars, Malloc, FreeRead, FindPass, FindHit, NextRegion, NoRoom, SkipUsed,
       StartRun, Run, RunTooShort, Mark, Extend, Merge, history

\* No block becomes less loose.
LEMMA LooseStays == ASSUME LInv, [Next]_vars, ~loose' PROVE ~loose
BY UsedChanges DEF FreeWrite

\* The steps of one CPU leave another's place and locals alone.
LEMMA Others ==
  ASSUME IInv, NEW c \in Cpu, NEW d \in Cpu, c # d,
         \/ \E n \in Request : Malloc(c, n)
         \/ \E g \in granted : FreeRead(c, g)
         \/ Step(c)
  PROVE  pc'[d] = pc[d] /\ my'[d] = my[d]
BY DEF IInv, TypeOK, Step, Malloc, FreeRead, FindPass, FindHit, NextRegion, NoRoom, SkipUsed,
       StartRun, Run, RunTooShort, Mark, Extend, Merge, FreeWrite, Found, Return, Goto, Advance,
       CountBlock

\* What is asked for is a size.
LEMMA RequestNat == \A n \in Request : n \in Nat \ {0} /\ n > 0 /\ n < SizeModulus
<1>1. SizeModulus \in Nat /\ \A n \in Request : n \in 1..(SizeModulus - 1)
  BY HeapAssumption
<1> QED
  BY <1>1

\* An extension with what it relies on: the block at a, of n bytes, in region r.
BlockAdded(c, r, a, n) ==
  /\ n = my[c].n /\ n \in Request /\ a = freeBase[r] /\ a \in Memory
  /\ a + Needed(n) < Base[r] + Length[r]
  /\ blocks' = [blocks EXCEPT ![r] = Append(blocks[r], a)]
  /\ size' = [size EXCEPT ![a] = n]
  /\ room' = [room EXCEPT ![a] = n]
  /\ loose' = loose
  /\ used' = used \cup {a}
  /\ freeBase' = [freeBase EXCEPT ![r] = a + Needed(n)]
  /\ Found(c, a)
  /\ \A s \in 1..Regions : \A i \in 1..Len(blocks[s]) : blocks[s][i] # a
  /\ \A b \in used : b # a

\* What an extension does, with the region it chooses.
LEMMA ExtendFacts ==
  ASSUME LInv, NEW c \in Cpu, Extend(c)
  PROVE  \E r \in 1..Regions, a \in Nat, n \in Nat \ {0} :
           BlockAdded(c, r, a, n)
<1>1. PICK r \in 1..Regions :
        /\ HasRoom(r, my[c].n)
        /\ blocks' = [blocks EXCEPT ![r] = Append(@, freeBase[r])]
        /\ size' = [size EXCEPT ![freeBase[r]] = my[c].n]
        /\ room' = [room EXCEPT ![freeBase[r]] = my[c].n]
        /\ loose' = loose
        /\ used' = used \cup {freeBase[r]}
        /\ freeBase' = [freeBase EXCEPT ![r] = @ + Needed(my[c].n)]
        /\ Found(c, freeBase[r])
  BY DEF Extend
<1>2. PICK a \in Nat : a = freeBase[r]
  BY DEF LInv, IInv, TypeOK
<1>3. my[c].n \in Request
  BY DEF LInv, IInv, WalkInv, Extend, At, Inside
<1>4. PICK n \in Nat \ {0} : n = my[c].n
  BY <1>3, RequestNat
<1>5. Needed(n) \in Nat /\ Marker \in Nat
  BY NeededBounds, MemoryNat
<1>6. a + Needed(n) < Base[r] + Length[r]
  BY <1>1, <1>2, <1>4 DEF HasRoom
<1>7. Base[r] \in Nat /\ Length[r] \in Nat /\ Base[r] <= a /\ a < Base[r] + Length[r]
  <2>1. Base[r] \in Nat /\ Length[r] \in Nat /\ Base[r] <= a
    BY <1>2, HeapAssumption DEF LInv, IInv, RegionInv
  <2> QED
    BY <2>1, <1>5, <1>6
<1>8. a \in Memory
  <2>1. a \in Base[r]..(Base[r] + Length[r] - 1)
    BY <1>7
  <2> QED
    BY <2>1 DEF Memory
<1>9. \A b \in Int : Placed(b) => b # a
  BY <1>2, <1>7, EndIsNew DEF LInv
<1>10. \A s \in 1..Regions : \A i \in 1..Len(blocks[s]) : blocks[s][i] # a
  BY <1>9, MemoryNat DEF LInv, IInv, TypeOK, RegionInv
<1>11. \A b \in used : b # a
  BY <1>9, MemoryNat DEF LInv, IInv, TypeOK, RegionInv
<1> QED
  BY <1>1, <1>2, <1>3, <1>4, <1>6, <1>8, <1>10, <1>11 DEF BlockAdded

\* A merge with what it relies on: the blocks i up to j of region r, of which the
\* first takes the others' place.
RunMerged(c, r, i, j, first, end, total, n) ==
  /\ i < j /\ first = blocks[r][i] /\ end = Place(r, j)
  /\ first \in Memory /\ first \notin used
  /\ first + Marker <= end /\ (~loose => first + total <= end)
  /\ total >= Needed(n) /\ n = my[c].n /\ n \in Request /\ n > 0
  /\ \A k \in i..(j - 1) : blocks[r][k] \notin used
  /\ blocks' = [blocks EXCEPT ![r] = SubSeq(blocks[r], 1, i)
                                     \o SubSeq(blocks[r], j, Len(blocks[r]))]
  /\ \E x \in {Span(first, end), Span(first, 0)} : size' = [size EXCEPT ![first] = x]
  /\ room' = [room EXCEPT ![first] = Span(first, end)]
  /\ used' = used \cup {first} /\ freeBase' = freeBase /\ loose' = loose
  /\ Found(c, first)

\* What a merge does, with the run it has counted.
LEMMA MergeFacts ==
  ASSUME LInv, NEW c \in Cpu, Merge(c)
  PROVE  \E r \in 1..Regions : \E i \in 1..Len(blocks[r]), j \in 1..(Len(blocks[r]) + 1) :
           \E first, end, total, n \in Nat : RunMerged(c, r, i, j, first, end, total, n)
<1>1. pc[c] = "run" /\ Enough(c)
  BY DEF Merge, At
<1>2. PICK r \in 1..Regions, i \in Nat, j \in Nat, total \in Nat, n \in Nat :
        r = my[c].reg /\ i = my[c].start /\ j = my[c].idx /\ total = my[c].total /\ n = my[c].n
  BY DEF LInv, IInv, TypeOK, Locals
<1>3. /\ i <= j /\ j <= Len(blocks[r]) + 1 /\ (i = j => total = 0)
      /\ ~loose => blocks[r][i] + total <= Place(r, j)
      /\ \A k \in i..(j - 1) : blocks[r][k] \notin used
  BY <1>1, <1>2 DEF LInv, RunInv
<1>4. i \in 1..Len(blocks[r]) /\ blocks[r][i] \notin used
  BY <1>1, <1>2 DEF LInv, IInv, WalkInv
<1>5. j \in 1..(Len(blocks[r]) + 1)
  BY <1>3, <1>4
<1>6. PICK first \in Nat : first = blocks[r][i]
  BY <1>4, ListedNat DEF LInv, IInv
<1>15. PICK end \in Nat : end = Place(r, j)
  <2>1. freeBase[r] \in Nat
    BY DEF LInv, IInv, TypeOK
  <2>2. j <= Len(blocks[r]) => j \in 1..Len(blocks[r])
    BY <1>5
  <2> QED
    BY <2>1, <2>2, ListedNat DEF LInv, IInv, Place
<1>7. n \in Request
  BY <1>1, <1>2 DEF LInv, IInv, WalkInv, Inside
<1>8. n > 0
  BY <1>7, RequestNat
<1>9. total >= Needed(n) /\ Needed(n) > Marker /\ Marker \in Nat /\ Needed(n) \in Nat
  BY <1>1, <1>2, <1>8, NeededBounds, MemoryNat DEF Enough
<1>10. i < j
  BY <1>3, <1>9
<1>11. InList(c) <=> j <= Len(blocks[r])
  BY <1>2 DEF InList
<1>16. (IF InList(c) THEN Here(c) ELSE freeBase[r]) = end
  BY <1>2, <1>11, <1>15 DEF Here, Place
<1>12. /\ \E x \in {Span(first, end), Span(first, 0)} : size' = [size EXCEPT ![first] = x]
       /\ room' = [room EXCEPT ![first] = Span(first, end)]
       /\ blocks' = [blocks EXCEPT ![r] = SubSeq(blocks[r], 1, i)
                                          \o SubSeq(blocks[r], j, Len(blocks[r]))]
       /\ used' = used \cup {first} /\ freeBase' = freeBase /\ loose' = loose /\ Found(c, first)
  BY <1>2, <1>6, <1>16 DEF Merge
<1>13. first \in Memory
  BY <1>4, <1>6, ListedNat DEF LInv, IInv
<1>14. first + Marker <= end
  <2>1. PICK z \in Nat : z = room[first]
    BY <1>13 DEF LInv, IInv, TypeOK
  <2>2. first + Marker + z <= end
    BY <1>4, <1>5, <1>6, <1>10, <1>15, <2>1 DEF LInv, TileInv, Place
  <2> QED
    BY <1>9, <2>1, <2>2
<1>17. ~loose => first + total <= end
  BY <1>3, <1>6, <1>15
<1>18. first \notin used /\ total >= Needed(n) /\ n = my[c].n
  BY <1>2, <1>4, <1>6, <1>9
<1>19. RunMerged(c, r, i, j, first, end, total, n)
  BY <1>3, <1>6, <1>7, <1>8, <1>10, <1>12, <1>13, <1>14, <1>15, <1>17, <1>18, Zenon DEF RunMerged
<1> QED
  BY <1>4, <1>5, <1>19

-----------------------------------------------------------------------------
\* The parts of the list's invariant

\* Steps that change no list, no size and no region's end.
LEMMA TileUnchanged ==
  ASSUME TileInv, UNCHANGED <<blocks, freeBase, room>>
  PROVE  TileInv'
BY DEF TileInv

\* A new block comes behind all others of its region.
LEMMA TileExtend == ASSUME LInv, NEW c \in Cpu, Extend(c) PROVE TileInv'
<1>1. PICK r \in 1..Regions, a \in Nat, n \in Nat \ {0} :
        /\ a = freeBase[r] /\ a \in Memory
        /\ blocks' = [blocks EXCEPT ![r] = Append(blocks[r], a)]
        /\ room' = [room EXCEPT ![a] = n]
        /\ freeBase' = [freeBase EXCEPT ![r] = a + Needed(n)]
        /\ \A s \in 1..Regions : \A i \in 1..Len(blocks[s]) : blocks[s][i] # a
  BY ExtendFacts DEF BlockAdded
<1>2. Needed(n) \in Nat /\ Needed(n) >= Marker + n /\ Marker \in Nat /\ Marker > 0
  <2>1. Marker \in Nat /\ Marker > 0
    BY HeapAssumption
  <2> QED
    BY <2>1, NeededBounds, NeededCovers
<1>3. TypeOK /\ RegionInv /\ TileInv
  BY DEF LInv, IInv
<1>4. PICK f \in Nat : f = a + Needed(n)
  BY <1>2
<1>5. a + Marker + n <= f /\ a <= f
  BY <1>2, <1>4
<1>6. \A s \in 1..Regions : \A i \in 1..Len(blocks[s]) : room'[blocks[s][i]] = room[blocks[s][i]]
  BY <1>1, <1>3, ListedNat DEF TypeOK
<1>7. ASSUME NEW s \in 1..Regions, s # r
      PROVE  blocks'[s] = blocks[s] /\ freeBase'[s] = freeBase[s]
  BY <1>1, <1>3, <1>7 DEF TypeOK
<1>8. PICK b \in Seq(Memory) : b = blocks[r]
  BY <1>3 DEF TypeOK
<1>9. blocks'[r] = Append(b, a) /\ freeBase'[r] = f
  BY <1>1, <1>3, <1>4, <1>8 DEF TypeOK
<1>10. PICK t : t = Append(b, a)
  OBVIOUS
<1>11. /\ Len(t) = Len(b) + 1 /\ t[Len(b) + 1] = a /\ t # <<>>
       /\ \A i \in 1..Len(b) : t[i] = b[i]
  BY <1>1, <1>10, AppendProperties
<1>12. Len(b) \in Nat
  BY <1>8
<1>13. room'[a] = n
  BY <1>1, <1>3 DEF TypeOK
<1>14. Base[r] \in Nat /\ Base[r] <= a
  BY <1>1, <1>3, HeapAssumption DEF RegionInv
<1>15. t[1] = Base[r]
  <2>1. CASE Len(b) = 0
    <3>1. b = <<>>
      BY <2>1, <1>8
    <3> QED
      BY <2>1, <3>1, <1>1, <1>3, <1>8, <1>11 DEF TileInv
  <2>2. CASE Len(b) # 0
    <3>1. 1 \in 1..Len(b) /\ b # <<>>
      BY <2>2, <1>12
    <3> QED
      BY <3>1, <1>3, <1>8, <1>11 DEF TileInv
  <2> QED
    BY <2>1, <2>2
<1>16. ASSUME NEW i \in 1..Len(b)
       PROVE  /\ t[i] = blocks[r][i] /\ t[i] \in Nat /\ room'[t[i]] = room[t[i]] /\ room[t[i]] \in Nat
              /\ Base[r] <= t[i] /\ t[i] + Marker + room'[t[i]] <= a
  BY <1>1, <1>3, <1>6, <1>8, <1>11, ListedNat DEF TileInv
<1>17. ASSUME NEW i \in 1..Len(t)
       PROVE  Base[r] <= t[i] /\ t[i] + Marker + room'[t[i]] <= f
  <2>1. CASE i = Len(b) + 1
    BY <2>1, <1>5, <1>11, <1>13, <1>14
  <2>2. CASE i # Len(b) + 1
    <3>1. i \in 1..Len(b)
      BY <2>2, <1>11, <1>12
    <3>2. PICK x \in Nat, z \in Nat : x = t[i] /\ z = room'[t[i]]
      BY <3>1, <1>16
    <3>3. x + Marker + z <= a
      BY <3>1, <3>2, <1>16
    <3>4. x + Marker + z <= f
      BY <3>3, <1>2, <1>5
    <3> QED
      BY <3>1, <3>2, <3>4, <1>16
  <2> QED
    BY <2>1, <2>2
<1>18. ASSUME NEW i \in 1..Len(t), NEW j \in 1..Len(t), i < j
       PROVE  t[i] + Marker + room'[t[i]] <= t[j]
  <2>1. i \in 1..Len(b)
    BY <1>11, <1>12, <1>18
  <2>2. CASE j = Len(b) + 1
    BY <2>1, <2>2, <1>11, <1>16
  <2>3. CASE j # Len(b) + 1
    <3>1. j \in 1..Len(b)
      BY <2>3, <1>11, <1>12
    <3>2. b[i] + Marker + room[b[i]] <= b[j]
      BY <2>1, <3>1, <1>3, <1>8, <1>18 DEF TileInv
    <3>3. t[i] = b[i] /\ t[j] = b[j] /\ room'[t[i]] = room[t[i]]
      BY <2>1, <3>1, <1>11, <1>16
    <3> QED
      BY <3>2, <3>3
  <2> QED
    BY <2>2, <2>3
<1> SUFFICES ASSUME NEW s \in 1..Regions PROVE TileInv!(s)'
  BY DEF TileInv
<1>19. CASE s = r
  <2>1. blocks'[s] = t /\ freeBase'[s] = f
    BY <1>9, <1>10, <1>19
  <2> QED
    BY <2>1, <1>11, <1>15, <1>17, <1>18, <1>19
<1>20. CASE s # r
  <2>1. blocks'[s] = blocks[s] /\ freeBase'[s] = freeBase[s]
    BY <1>7, <1>20
  <2>2. \A i \in 1..Len(blocks[s]) : room'[blocks[s][i]] = room[blocks[s][i]]
    BY <1>6
  <2> QED
    BY <2>1, <2>2, <1>3 DEF TileInv
<1> QED
  BY <1>19, <1>20

\* The merged block reaches up to the block behind the run, and no further.
LEMMA TileMerge == ASSUME LInv, NEW c \in Cpu, Merge(c) PROVE TileInv'
<1>1. PICK r \in 1..Regions : \E i \in 1..Len(blocks[r]), j \in 1..(Len(blocks[r]) + 1) :
        \E first, end, total, n \in Nat : RunMerged(c, r, i, j, first, end, total, n)
  BY MergeFacts
<1>run. PICK i \in 1..Len(blocks[r]), j \in 1..(Len(blocks[r]) + 1), first \in Nat, end \in Nat,
            total \in Nat, n \in Nat : RunMerged(c, r, i, j, first, end, total, n)
  BY <1>1
<1>2. /\ i < j /\ first = blocks[r][i] /\ end = Place(r, j) /\ first \in Memory
      /\ first + Marker <= end
      /\ blocks' = [blocks EXCEPT ![r] = SubSeq(blocks[r], 1, i)
                                         \o SubSeq(blocks[r], j, Len(blocks[r]))]
      /\ room' = [room EXCEPT ![first] = Span(first, end)]
      /\ freeBase' = freeBase
  BY <1>run DEF RunMerged
<1>3. TypeOK /\ RegionInv /\ TileInv /\ Marker \in Nat /\ Marker > 0
  BY HeapAssumption DEF LInv, IInv
<1>4. PICK z \in Nat : z = Span(first, end) /\ first + Marker + z <= end
  <2>1. end - first - Marker \in Nat
    BY <1>2, <1>3, SMTT(30)
  <2>2. Span(first, end) \in Nat /\ Span(first, end) <= end - first - Marker
    BY <2>1, CutToBits DEF Span
  <2> QED
    BY <2>1, <2>2, <1>3
<1>5. room'[first] = z
  BY <1>2, <1>3, <1>4 DEF TypeOK
<1>6. ASSUME NEW s \in 1..Regions, NEW k \in 1..Len(blocks[s]), s # r \/ k # i
      PROVE  room'[blocks[s][k]] = room[blocks[s][k]]
  <2>1. blocks[s][k] # blocks[r][i]
    BY <1>3, <1>6, Distinct
  <2>2. blocks[s][k] \in Memory
    BY <1>3, ListedNat
  <2> QED
    BY <2>1, <2>2, <1>2, <1>3 DEF TypeOK
<1>7. PICK b \in Seq(Memory) : b = blocks[r]
  BY <1>3 DEF TypeOK
<1>8. PICK t : t = SubSeq(b, 1, i) \o SubSeq(b, j, Len(b))
  OBVIOUS
<1>9. blocks'[r] = t
  BY <1>2, <1>3, <1>7, <1>8 DEF TypeOK
<1>10. Len(b) \in Nat /\ i \in 1..Len(b) /\ j \in 1..(Len(b) + 1) /\ j \in Nat /\ j <= Len(b) + 1
  BY <1>2, <1>7
<1>11. /\ Len(t) = i + (Len(b) - j) + 1
       /\ \A k \in 1..i : t[k] = b[k]
       /\ \A k \in (i + 1)..Len(t) : t[k] = b[k - i + (j - 1)]
  <2>1. i < j
    BY <1>2
  <2>2. t = Cut(b, i, j)
    BY <1>8 DEF Cut
  <2> QED
    BY <2>1, <2>2, <1>10, CutIndex
<1> DEFINE Old(k) == IF k <= i THEN k ELSE k - i + (j - 1)
<1>12. ASSUME NEW k \in 1..Len(t)
       PROVE  /\ Old(k) \in 1..Len(b) /\ t[k] = b[Old(k)]
              /\ k # i => Old(k) # i
              /\ k > i => Old(k) >= j
  <2>1. CASE k <= i
    BY <2>1, <1>10, <1>11
  <2>2. CASE k > i
    <3>1. PICK l \in Nat, x \in Nat, y \in Nat, v \in Nat : l = Len(b) /\ x = i /\ y = j /\ v = k
      <4>1. Len(b) \in Nat /\ i \in Nat /\ j \in Nat /\ k \in Nat
        BY <1>10
      <4> QED
        BY <4>1
    <3>2. Len(t) = x + (l - y) + 1 /\ x <= l /\ y <= l + 1 /\ 1 <= x /\ x < y /\ x < v /\ v <= Len(t)
      BY <2>2, <3>1, <1>2, <1>10, <1>11
    <3>3. v - x + (y - 1) \in 1..l /\ v - x + (y - 1) >= y /\ v \in (x + 1)..Len(t)
      BY <3>2
    <3>4. k \in (i + 1)..Len(t) /\ k - i + (j - 1) \in 1..Len(b) /\ k - i + (j - 1) >= j
      BY <3>1, <3>3
    <3> QED
      <4>1. Old(k) = k - i + (j - 1)
        BY <3>1, <3>2
      <4>2. k # i /\ (Old(k) >= j => Old(k) # i)
        BY <3>1, <3>2, <3>3, <4>1
      <4> HIDE DEF Old
      <4> QED
        BY <3>4, <4>1, <4>2, <1>11
  <2> QED
    BY <2>1, <2>2, <1>10
<1>13. ASSUME NEW k \in 1..Len(t), NEW m \in 1..Len(t), k < m
       PROVE  Old(k) < Old(m)
  BY <1>2, <1>10, <1>11, <1>13, SMTT(30)
<1> HIDE DEF Old
<1>14. Base[r] \in Nat /\ freeBase[r] \in Nat
  BY <1>3, HeapAssumption DEF TypeOK
<1>15. ASSUME NEW k \in 1..Len(b)
       PROVE  /\ b[k] \in Nat /\ room[b[k]] \in Nat
              /\ Base[r] <= b[k] /\ b[k] + Marker + room[b[k]] <= freeBase[r]
              /\ \A m \in 1..Len(b) : k < m => b[k] + Marker + room[b[k]] <= b[m]
  BY <1>3, <1>7, ListedNat DEF TileInv
<1>16. ASSUME NEW k \in 1..Len(t)
       PROVE  Base[r] <= t[k] /\ t[k] + Marker + room'[t[k]] <= freeBase[r]
  <2>1. t[k] = b[Old(k)] /\ Old(k) \in 1..Len(b)
    BY <1>12
  <2>2. CASE k = i
    <3>1. t[k] = first
      BY <2>2, <1>2, <1>7, <1>10, <1>11
    <3>2. end <= freeBase[r]
      <4>1. CASE j <= Len(b)
        <5>1. j \in 1..Len(b) /\ end = b[j]
          BY <4>1, <1>2, <1>7, <1>10 DEF Place
        <5>2. end + Marker + room[end] <= freeBase[r] /\ room[end] \in Nat
          BY <5>1, <1>15
        <5> QED
          BY <5>2, <1>3, <1>14
      <4>2. CASE ~(j <= Len(b))
        BY <4>2, <1>2, <1>7, <1>14 DEF Place
      <4> QED
        BY <4>1, <4>2
    <3>3. first + Marker + z <= freeBase[r]
      BY <3>2, <1>3, <1>4, <1>14, SMTT(30)
    <3> QED
      BY <2>1, <3>1, <3>3, <1>5, <1>15
  <2>3. CASE k # i
    <3>1. Old(k) # i
      BY <2>3, <1>12
    <3>2. room'[t[k]] = room[t[k]]
      BY <2>1, <3>1, <1>6, <1>7
    <3> QED
      BY <2>1, <3>2, <1>15
  <2> QED
    BY <2>2, <2>3
<1>17. ASSUME NEW k \in 1..Len(t), NEW m \in 1..Len(t), k < m
       PROVE  t[k] + Marker + room'[t[k]] <= t[m]
  <2>1. /\ t[k] = b[Old(k)] /\ Old(k) \in 1..Len(b)
        /\ t[m] = b[Old(m)] /\ Old(m) \in 1..Len(b) /\ Old(k) < Old(m)
    BY <1>12, <1>13, <1>17
  <2>2. CASE k = i
    <3>1. t[k] = first
      BY <2>2, <1>2, <1>7, <1>10, <1>11
    <3>2. Old(m) >= j
      BY <2>2, <1>12, <1>17
    <3>5. j \in 1..Len(b) /\ end = b[j]
      BY <2>1, <3>2, <1>2, <1>7, <1>10 DEF Place
    <3>3. end <= b[Old(m)]
      <4>1. CASE Old(m) = j
        BY <2>1, <3>5, <4>1, <1>15
      <4>2. CASE Old(m) # j
        <5>1. j < Old(m)
          BY <2>1, <3>2, <4>2, <1>10
        <5>2. end + Marker + room[end] <= b[Old(m)] /\ room[end] \in Nat /\ b[Old(m)] \in Nat
          BY <2>1, <3>5, <5>1, <1>15
        <5> QED
          BY <5>2, <1>3
      <4> QED
        BY <4>1, <4>2
    <3>4. first + Marker + z <= b[Old(m)] /\ b[Old(m)] \in Nat
      BY <2>1, <3>3, <1>3, <1>4, <1>15, SMTT(30)
    <3> QED
      BY <2>1, <3>1, <3>4, <1>5
  <2>3. CASE k # i
    <3>1. Old(k) # i
      BY <2>3, <1>12
    <3>2. room'[t[k]] = room[t[k]]
      BY <2>1, <3>1, <1>6, <1>7
    <3> QED
      BY <2>1, <3>2, <1>15
  <2> QED
    BY <2>2, <2>3
<1>18. t # <<>> /\ t[1] = Base[r]
  <2>1. Len(t) >= 1 /\ 1 \in 1..i
    BY <1>10, <1>11
  <2>2. t[1] = b[1] /\ b # <<>>
    BY <2>1, <1>10, <1>11
  <2> QED
    BY <2>1, <2>2, <1>3, <1>7 DEF TileInv
<1> SUFFICES ASSUME NEW s \in 1..Regions PROVE TileInv!(s)'
  BY DEF TileInv
<1>19. CASE s = r
  BY <1>2, <1>9, <1>16, <1>17, <1>18, <1>19
<1>20. CASE s # r
  <2>1. blocks'[s] = blocks[s] /\ freeBase'[s] = freeBase[s]
    BY <1>2, <1>3, <1>20 DEF TypeOK
  <2>2. \A k \in 1..Len(blocks[s]) : room'[blocks[s][k]] = room[blocks[s][k]]
    BY <1>6, <1>20
  <2>3. TileInv!(s)
    BY <1>3 DEF TileInv
  <2> QED
    BY <2>1, <2>2, <2>3
<1> QED
  BY <1>19, <1>20

LEMMA TileStep == ASSUME LInv, [Next]_vars PROVE TileInv'
BY ListChanges, TileUnchanged, TileExtend, TileMerge DEF LInv

\* Sizes and room change together, but for a merge at the end of a list, and free
\* lets no block loose unnoticed.
LEMMA RoomStep == ASSUME LInv, [Next]_vars PROVE RoomInv'
<1>1. ASSUME NEW c \in Cpu, Extend(c) PROVE RoomInv'
  <2>1. PICK r \in 1..Regions, a \in Nat, n \in Nat \ {0} : BlockAdded(c, r, a, n)
    BY <1>1, ExtendFacts
  <2>2. /\ a \in Memory /\ size' = [size EXCEPT ![a] = n] /\ room' = [room EXCEPT ![a] = n]
        /\ used' = used \cup {a} /\ loose' = loose
    BY <2>1 DEF BlockAdded
  <2> QED
    BY <2>2 DEF LInv, IInv, TypeOK, RoomInv
<1>2. ASSUME NEW c \in Cpu, Merge(c) PROVE RoomInv'
  <2>1. \E first \in Memory : \E z, x :
          /\ size' = [size EXCEPT ![first] = x] /\ room' = [room EXCEPT ![first] = z]
          /\ x = z \/ x = Span(first, 0)
          /\ used' = used \cup {first} /\ loose' = loose
    <3>1. PICK r \in 1..Regions : \E i \in 1..Len(blocks[r]), j \in 1..(Len(blocks[r]) + 1) :
            \E first, end, total, n \in Nat : RunMerged(c, r, i, j, first, end, total, n)
      BY <1>2, MergeFacts
    <3>2. PICK i \in 1..Len(blocks[r]), j \in 1..(Len(blocks[r]) + 1), first \in Nat, end \in Nat,
               total \in Nat, n \in Nat : RunMerged(c, r, i, j, first, end, total, n)
      BY <3>1
    <3>3. PICK x \in {Span(first, end), Span(first, 0)} : size' = [size EXCEPT ![first] = x]
      BY <3>2 DEF RunMerged
    <3> QED
      BY <3>2, <3>3 DEF RunMerged
  <2> QED
    BY <2>1 DEF LInv, IInv, TypeOK, RoomInv
<1>3. CASE UNCHANGED <<blocks, size, freeBase, room>>
  <2>1. CASE used \subseteq used' /\ loose' = loose
    BY <1>3, <2>1 DEF LInv, RoomInv, Span
  <2>2. ASSUME NEW c \in Cpu, FreeWrite(c) PROVE RoomInv'
    <3>1. /\ loose' = (loose \/ my[c].saw # room[my[c].block])
          /\ used' = used \ {my[c].block} /\ my[c].saw = size[my[c].block]
      BY <2>2 DEF LInv, FreeInv, FreeWrite, At
    <3> QED
      BY <1>3, <3>1 DEF LInv, RoomInv, Span
  <2> QED
    BY <2>1, <2>2, UsedChanges
<1> QED
  BY <1>1, <1>2, <1>3, ListChanges

LEMMA LocalsOf ==
  ASSUME IInv, NEW c \in Cpu
  PROVE  /\ my[c] \in Locals /\ my[c].idx \in Nat /\ my[c].reg \in 1..Regions
         /\ my[c].start \in Nat /\ my[c].total \in Nat /\ my[c].fit \in BOOLEAN
         /\ pc[c] \in {"find", "skip", "run"} => my[c].idx >= 1
         /\ pc[c] \in Inside => my[c].n \in Request
BY DEF IInv, TypeOK, Locals, WalkInv

\* Every call keeps the size of the block that a free is about to write.
LEMMA FreeStep == ASSUME IInv, FreeInv, [Next]_vars PROVE FreeInv'
<1> SUFFICES ASSUME NEW d \in Cpu, pc'[d] = "free"
             PROVE  my'[d].saw = size'[my'[d].block]
  BY DEF FreeInv
<1>1. CASE UNCHANGED vars
  BY <1>1 DEF vars, FreeInv
<1>2. ASSUME NEW g \in granted, FreeRead(d, g)  PROVE my'[d].saw = size'[my'[d].block]
  <2> DEFINE a == g.at - Marker
  <2>1. a \in used /\ size' = size /\ my' = [my EXCEPT ![d].block = a, ![d].saw = size[a]]
    BY <1>2 DEF FreeRead, IInv, OwnerInv
  <2> HIDE DEF a
  <2>2. my'[d].block = a /\ my'[d].saw = size[a]
    BY <2>1 DEF IInv, TypeOK, Locals
  <2> QED
    BY <2>1, <2>2
<1>3. ASSUME NEW c \in Cpu, \/ \E n \in Request : Malloc(c, n)
                            \/ \E g \in granted : FreeRead(c, g)
                            \/ Step(c),
             \A g \in granted : ~FreeRead(d, g)
      PROVE  my'[d].saw = size'[my'[d].block]
  <2>1. c # d
    <3>1. \A n \in Request : ~Malloc(d, n)
      BY DEF IInv, TypeOK, Malloc, Goto
    <3>2. ~Step(d)
      BY DEF IInv, TypeOK, Step, FindPass, FindHit, NextRegion, NoRoom, SkipUsed, StartRun,
             Run, RunTooShort, Mark, Extend, Merge, FreeWrite, Found, Return, Goto, At
    <3> QED
      BY <1>3, <3>1, <3>2
  <2>2. pc[d] = "free" /\ my'[d] = my[d]
    BY <1>3, <2>1, Others
  <2>3. my[d].saw = size[my[d].block] /\ my[d].block \in used /\ my[d].block \in Memory
    BY <2>2 DEF FreeInv, IInv, WalkInv, TypeOK
  <2>4. CASE Extend(c)
    <3>1. PICK r \in 1..Regions : HasRoom(r, my[c].n) /\ size' = [size EXCEPT ![freeBase[r]] = my[c].n]
      BY <2>4 DEF Extend
    <3>2. my[c].n \in Request /\ my[c].n \in Nat \ {0}
      BY <2>4, LocalsOf, RequestNat DEF Extend, At, Inside
    <3>3. freeBase[r] < Base[r] + Length[r]
      <4>1. Needed(my[c].n) \in Nat /\ Needed(my[c].n) > Marker /\ Marker \in Nat
            /\ freeBase[r] \in Nat /\ Base[r] \in Nat /\ Length[r] \in Nat
        BY <3>2, NeededBounds, HeapAssumption DEF IInv, TypeOK
      <4> QED
        BY <3>1, <4>1 DEF HasRoom
    <3>4. my[d].block # freeBase[r]
      <4>1. Placed(my[d].block) /\ my[d].block \in Int
        <5>1. my[d].block \in Nat
          BY <2>3, MemoryNat
        <5> QED
          BY <2>3, <5>1 DEF IInv, RegionInv
      <4> QED
        BY <3>3, <4>1, EndIsNew
    <3> QED
      BY <2>2, <2>3, <3>1, <3>4 DEF IInv, TypeOK
  <2>5. CASE Merge(c)
    <3>1. blocks[my[c].reg][my[c].start] \notin used
      BY <2>5 DEF IInv, WalkInv, Merge, At
    <3> DEFINE first == blocks[my[c].reg][my[c].start]
               e == IF InList(c) THEN Here(c) ELSE 0
    <3>2. size' = [size EXCEPT ![first] = Span(first, e)]
      BY <2>5 DEF Merge
    <3> HIDE DEF e, first
    <3> QED
      BY <2>2, <2>3, <3>1, <3>2 DEF IInv, TypeOK, first
  <2>6. CASE FreeWrite(c)
    <3>1. my[c].saw = size[my[c].block] /\ size' = [size EXCEPT ![my[c].block] = my[c].saw]
      BY <2>6 DEF FreeInv, FreeWrite, At
    <3>2. size' = size
      BY <3>1 DEF IInv, TypeOK
    <3> QED
      BY <2>2, <2>3, <3>2
  <2>7. CASE ~Extend(c) /\ ~Merge(c) /\ ~FreeWrite(c)
    <3>1. size' = size
      BY <1>3, <2>7 DEF Step, Malloc, FreeRead, FindPass, FindHit, NextRegion, NoRoom,
         SkipUsed, StartRun, Run, RunTooShort, Mark
    <3> QED
      BY <2>2, <2>3, <3>1
  <2> QED
    BY <2>4, <2>5, <2>6, <2>7
<1> QED
  BY <1>1, <1>2, <1>3 DEF Next

\* Who is at a run after a step has begun or continued it, or stayed there while
\* blocks were freed.
LEMMA RunOrigin ==
  ASSUME LInv, [Next]_vars, NEW d \in Cpu, pc'[d] = "run"
  PROVE  \/ StartRun(d) \/ Run(d)
         \/ pc[d] = "run" /\ my'[d] = my[d] /\ UNCHANGED <<blocks, freeBase>> /\ used' \subseteq used
<1>1. CASE UNCHANGED vars
  BY <1>1 DEF vars
<1>2. ASSUME NEW c \in Cpu, \/ \E n \in Request : Malloc(c, n)
                            \/ \E g \in granted : FreeRead(c, g)
                            \/ Step(c)
      PROVE  \/ StartRun(d) \/ Run(d)
             \/ pc[d] = "run" /\ my'[d] = my[d] /\ UNCHANGED <<blocks, freeBase>> /\ used' \subseteq used
  <2>1. CASE c # d
    <3>1. pc[d] = "run" /\ my'[d] = my[d]
      BY <1>2, <2>1, Others DEF LInv
    <3>2. lock = d /\ pc[c] \in {"idle", "free"}
      BY <2>1, <3>1, Alone DEF LInv, Inside
    <3>3. \A n \in Request : ~Malloc(c, n)
      BY <3>2, HeapAssumption DEF Malloc
    <3>4. Step(c) => FreeWrite(c)
      BY <3>2 DEF Step, FindPass, FindHit, NextRegion, NoRoom, SkipUsed, StartRun, Run, RunTooShort,
                  Mark, Extend, Merge, At
    <3>5. UNCHANGED <<blocks, freeBase>> /\ used' \subseteq used
      BY <1>2, <3>3, <3>4 DEF FreeRead, FreeWrite
    <3> QED
      BY <3>1, <3>5
  <2>2. CASE c = d
    <3>1. \A n \in Request : ~Malloc(d, n)
      BY DEF LInv, IInv, TypeOK, Malloc, Goto
    <3>2. \A g \in granted : ~FreeRead(d, g)
      BY DEF LInv, IInv, TypeOK, FreeRead, Goto, At
    <3>3. Step(d) => StartRun(d) \/ Run(d)
      BY DEF LInv, IInv, TypeOK, Step, FindPass, FindHit, NextRegion, NoRoom, SkipUsed,
             RunTooShort, Mark, Extend, Merge, FreeWrite, Found, Return, Goto, At
    <3> QED
      BY <1>2, <2>2, <3>1, <3>2, <3>3
  <2> QED
    BY <2>1, <2>2
<1> QED
  BY <1>1, <1>2 DEF Next

\* A run goes on at free blocks only, whose sizes are right until a block is loose.
LEMMA RunStep == ASSUME LInv, [Next]_vars PROVE RunInv'
<1> SUFFICES ASSUME NEW d \in Cpu, pc'[d] = "run" PROVE RunInv!(d)!2'
  BY DEF RunInv
<1>1. TypeOK /\ TileInv /\ my[d] \in Locals /\ my[d].reg \in 1..Regions
  BY DEF LInv, IInv, TypeOK, Locals
<1>2. PICK b \in Seq(Memory), x \in Nat, y \in Nat, m \in Nat :
        /\ b = blocks[my[d].reg] /\ x = my[d].start /\ y = my[d].idx /\ m = my[d].total
  BY <1>1 DEF TypeOK, Locals
<1>3. \A k \in 1..Len(b) : b[k] \in Nat /\ size[b[k]] \in Nat /\ room[b[k]] \in Nat
  BY <1>1, <1>2, ListedNat
<1>4. Len(b) \in Nat /\ Marker \in Nat
  BY <1>2, MemoryNat
<1>5. ASSUME StartRun(d) PROVE RunInv!(d)!2'
  <2>1. /\ my' = [my EXCEPT ![d].start = my[d].idx, ![d].total = 0] /\ y <= Len(b)
        /\ UNCHANGED <<blocks, freeBase, used, loose>> /\ pc[d] = "skip"
    BY <1>2, <1>5 DEF StartRun, InList, At, history
  <2>2. y >= 1
    BY <1>2, <2>1 DEF LInv, IInv, WalkInv
  <2>3. /\ my'[d].reg = my[d].reg /\ my'[d].start = y /\ my'[d].idx = y /\ my'[d].total = 0
    BY <1>1, <1>2, <2>1 DEF TypeOK, Locals
  <2>4. b[y] \in Nat /\ y \in 1..Len(b)
    BY <1>3, <1>4, <2>1, <2>2
  <2>5. b[y] + 0 <= b[y] /\ y <= y /\ y <= Len(b) + 1 /\ \A k \in y..(y - 1) : FALSE
    BY <1>4, <2>4
  <2>6. Place(my[d].reg, y)' = b[y]
    BY <1>2, <2>1, <2>3, <2>4 DEF Place
  <2> QED
    BY <1>2, <2>1, <2>3, <2>5, <2>6
<1>6. ASSUME Run(d) PROVE RunInv!(d)!2'
  <2>1. /\ my' = [my EXCEPT ![d].total = @ + size[Here(d)] + Marker, ![d].idx = @ + 1]
        /\ UNCHANGED <<blocks, freeBase, used, loose>> /\ pc[d] = "run"
        /\ y <= Len(b) /\ b[y] \notin used /\ Here(d) = b[y]
    BY <1>2, <1>6 DEF Run, CountBlock, InList, Here, At, history
  <2>2. /\ x <= y /\ x \in 1..Len(b)
        /\ ~loose => b[x] + m <= b[y]
        /\ \A k \in x..(y - 1) : b[k] \notin used
    BY <1>2, <2>1 DEF LInv, RunInv, IInv, WalkInv, Place
  <2>3. y \in 1..Len(b) /\ b # <<>>
    BY <1>4, <2>1, <2>2
  <2>5. y + 1 \in 1..(Len(b) + 1) /\ y + 1 <= Len(b) + 1 /\ x <= y + 1 /\ x # y + 1 /\ y < y + 1
    BY <1>4, <2>1, <2>2, <2>3
  <2>4. PICK v \in Nat : v = Place(my[d].reg, y + 1)
    <3>1. y + 1 <= Len(b) => b[y + 1] \in Nat
      BY <1>3, <2>5
    <3>2. freeBase[my[d].reg] \in Nat
      BY <1>1 DEF TypeOK
    <3> QED
      BY <3>1, <3>2, <1>2 DEF Place
  <2>6. b[y] + Marker + room[b[y]] <= v
    <3>1. CASE y + 1 <= Len(b)
      <4>1. y + 1 \in 1..Len(b) /\ v = b[y + 1]
        BY <3>1, <2>4, <2>5, <1>2 DEF Place
      <4> QED
        BY <4>1, <1>1, <1>2, <2>3, <2>5, SMTT(30) DEF TileInv
    <3>2. CASE ~(y + 1 <= Len(b))
      BY <3>2, <1>1, <1>2, <2>3, <2>4 DEF TileInv, Place
    <3> QED
      BY <3>1, <3>2
  <2>7. PICK p \in Nat, q \in Nat, z \in Nat : p = b[x] /\ q = b[y] /\ z = size[b[y]]
    BY <1>3, <2>2, <2>3
  <2>14. ~loose => z = room[b[y]]
    BY <2>1, <2>3, <2>7, <1>2 DEF LInv, RoomInv
  <2>9. (~loose => p + (m + z + Marker) <= v) /\ m + z + Marker \in Nat
    <3>1. m + z + Marker \in Nat
      BY <1>4
    <3>2. ASSUME ~loose PROVE p + (m + z + Marker) <= v
      <4>1. p + m <= q /\ q + Marker + z <= v
        BY <2>2, <2>6, <2>7, <2>14, <3>2
      <4> QED
        BY <4>1, <1>4
    <3> QED
      BY <3>1, <3>2
  <2>10. /\ my'[d].reg = my[d].reg /\ my'[d].start = x /\ my'[d].idx = y + 1
         /\ my'[d].total = m + z + Marker
    <3>1. my' = [my EXCEPT ![d] = [my[d] EXCEPT !.total = m + z + Marker, !.idx = y + 1]]
      BY <1>1, <1>2, <2>1, <2>7 DEF TypeOK
    <3>2. my'[d] = [my[d] EXCEPT !.total = m + z + Marker, !.idx = y + 1]
      BY <3>1 DEF LInv, IInv, TypeOK
    <3>3. ASSUME NEW t \in Nat, NEW i \in Nat
          PROVE  LET K == [my[d] EXCEPT !.total = t, !.idx = i]
                 IN  K.reg = my[d].reg /\ K.start = my[d].start /\ K.idx = i /\ K.total = t
      BY <1>1 DEF Locals
    <3> QED
      BY <1>2, <2>5, <2>9, <3>2, <3>3
  <2>11. \A k \in x..((y + 1) - 1) : b[k] \notin used
    <3> SUFFICES ASSUME NEW k \in x..((y + 1) - 1) PROVE b[k] \notin used
      OBVIOUS
    <3>1. k \in x..(y - 1) \/ k = y
      BY <2>2
    <3> QED
      BY <3>1, <2>1, <2>2
  <2>12. PICK y1 \in Nat, m1 \in Nat : y1 = y + 1 /\ m1 = m + z + Marker
    <3>1. y + 1 \in Nat
      OBVIOUS
    <3> QED
      BY <3>1, <2>9
  <2>13. /\ x <= y1 /\ y1 <= Len(b) + 1 /\ x # y1 /\ (~loose => b[x] + m1 <= v)
         /\ \A k \in x..(y1 - 1) : b[k] \notin used
    BY <2>5, <2>7, <2>9, <2>11, <2>12
  <2>15. /\ my'[d].start = x /\ my'[d].idx = y1 /\ my'[d].total = m1
         /\ my'[d].reg = my[d].reg /\ blocks'[my'[d].reg] = b /\ used' = used
         /\ loose' = loose /\ Place(my[d].reg, y1)' = v
    <3>1. Place(my[d].reg, y1) = v
      BY <2>4, <2>12
    <3>2. /\ my'[d].start = x /\ my'[d].idx = y1 /\ my'[d].total = m1 /\ my'[d].reg = my[d].reg
          /\ UNCHANGED <<blocks, freeBase, used, loose>>
      BY <2>1, <2>10, <2>12
    <3>3. Place(my[d].reg, y1)' = Place(my[d].reg, y1)
      BY <3>2 DEF Place
    <3> QED
      BY <1>2, <3>1, <3>2, <3>3
  <2> QED
    BY <2>13, <2>15
<1>7. CASE pc[d] = "run" /\ my'[d] = my[d] /\ UNCHANGED <<blocks, freeBase>> /\ used' \subseteq used
  BY <1>7, LooseStays DEF LInv, RunInv, Place
<1> QED
  BY <1>5, <1>6, <1>7, RunOrigin

-----------------------------------------------------------------------------
\* The lists' invariant
LEMMA InitLInv == Init => LInv
<1> SUFFICES ASSUME Init PROVE LInv
  OBVIOUS
<1>1. IInv
  BY InitIInv
<1>2. \A r \in 1..Regions : blocks[r] = <<>> /\ freeBase[r] = Base[r] /\ Len(blocks[r]) = 0
  BY DEF Init
<1>3. TileInv /\ RoomInv
  BY <1>2 DEF TileInv, RoomInv, Init
<1>4. FreeInv /\ RunInv
  BY DEF Init, FreeInv, RunInv
<1> QED
  BY <1>1, <1>3, <1>4 DEF LInv

LEMMA ListInvariance == Spec => []LInv
<1>1. LInv /\ [Next]_vars => LInv'
  BY NextIInv, TileStep, RoomStep, FreeStep, RunStep DEF LInv
<1> QED
  BY <1>1, InitLInv, PTL DEF Spec

\* The blocks of a region lie one behind the other and within what it has given
\* out, each with what it has room for, whatever is merged while blocks are freed
\* under the walk, for any CPUs, regions, requests and sizes.  The only sizes that
\* say otherwise are those a merge has computed from a null pointer (line 281).
THEOREM ListsTile == Spec => []BlocksTile
<1>1. LInv => BlocksTile
  <2> SUFFICES ASSUME LInv, NEW r \in 1..Regions PROVE BlocksTile!(r)
    BY DEF BlocksTile
  <2>1. freeBase[r] <= Base[r] + Length[r] /\ TypeOK
    BY DEF LInv, IInv, RegionInv
  <2>2. ASSUME NEW i \in 1..Len(blocks[r])
        PROVE  /\ blocks[r][i] + Marker + room[blocks[r][i]] <= EndOf(r, i)
               /\ size[blocks[r][i]] \in {room[blocks[r][i]], Span(blocks[r][i], 0)}
    <3>3. size[blocks[r][i]] \in {room[blocks[r][i]], Span(blocks[r][i], 0)}
      BY <2>1, ListedNat DEF LInv, RoomInv
    <3>1. CASE i < Len(blocks[r])
      <4>1. i + 1 \in 1..Len(blocks[r]) /\ i < i + 1
        BY <2>1, <3>1 DEF TypeOK
      <4> QED
        BY <3>1, <3>3, <4>1 DEF LInv, TileInv, EndOf
    <3>2. CASE ~(i < Len(blocks[r]))
      BY <3>2, <3>3 DEF LInv, TileInv, EndOf
    <3> QED
      BY <3>1, <3>2, <3>3
  <2> QED
    BY <2>1, <2>2 DEF LInv, TileInv
<1> QED
  BY <1>1, ListInvariance, PTL

-----------------------------------------------------------------------------
\* What is granted

\* A size of 31 bits holds any difference within one region: boot adds no region
\* of more than KERNEL_HEAP_SIZE_BYTES, 32 MB (mmu.h:4).
RegionsFit == \A r \in 1..Regions : Length[r] <= SizeModulus

HInv == LInv /\ HandInv

\* A block whose USED bit is set stays in its list with its size.
LEMMA ListedStays ==
  ASSUME LInv, [Next]_vars, NEW a \in used, Listed(a)
  PROVE  Listed(a)' /\ room'[a] = room[a]
<1>1. PICK s \in 1..Regions : \E k \in 1..Len(blocks[s]) : blocks[s][k] = a
  BY DEF Listed
<1>2. PICK k \in 1..Len(blocks[s]) : blocks[s][k] = a
  BY <1>1
<1>3. CASE UNCHANGED <<blocks, size, freeBase, room>>
  BY <1>3 DEF Listed
<1>4. ASSUME NEW c \in Cpu, Extend(c) PROVE Listed(a)' /\ room'[a] = room[a]
  <2>1. PICK r \in 1..Regions, e \in Nat, n \in Nat \ {0} : BlockAdded(c, r, e, n)
    BY <1>4, ExtendFacts
  <2>2. /\ e \in Memory /\ e # a /\ room' = [room EXCEPT ![e] = n]
        /\ blocks' = [blocks EXCEPT ![r] = Append(blocks[r], e)]
    BY <2>1 DEF BlockAdded
  <2>3. room'[a] = room[a]
    BY <2>2 DEF LInv, IInv, TypeOK
  <2>4. PICK b \in Seq(Memory) : b = blocks[s]
    BY DEF LInv, IInv, TypeOK
  <2>5. blocks'[s] = IF s = r THEN Append(b, e) ELSE b
    BY <2>2, <2>4 DEF LInv, IInv, TypeOK
  <2>6. k \in 1..Len(blocks'[s]) /\ blocks'[s][k] = a
    <3>1. k \in 1..Len(b) /\ b[k] = a
      BY <1>2, <2>4
    <3>2. PICK t : t = Append(b, e)
      OBVIOUS
    <3>3. k \in 1..Len(t) /\ t[k] = a
      BY <2>2, <3>1, <3>2, AppendProperties
    <3> QED
      BY <2>5, <3>1, <3>2, <3>3
  <2> QED
    BY <2>3, <2>6 DEF Listed
<1>5. ASSUME NEW c \in Cpu, Merge(c) PROVE Listed(a)' /\ room'[a] = room[a]
  <2>1. PICK r \in 1..Regions : \E i \in 1..Len(blocks[r]), j \in 1..(Len(blocks[r]) + 1) :
          \E first, end, total, n \in Nat : RunMerged(c, r, i, j, first, end, total, n)
    BY <1>5, MergeFacts
  <2>2. PICK i \in 1..Len(blocks[r]), j \in 1..(Len(blocks[r]) + 1), first \in Nat, end \in Nat,
             total \in Nat, n \in Nat : RunMerged(c, r, i, j, first, end, total, n)
    BY <2>1
  <2>3. /\ i < j /\ first \in Memory /\ first \notin used
        /\ \A m \in i..(j - 1) : blocks[r][m] \notin used
        /\ room' = [room EXCEPT ![first] = Span(first, end)]
        /\ blocks' = [blocks EXCEPT ![r] = SubSeq(blocks[r], 1, i)
                                           \o SubSeq(blocks[r], j, Len(blocks[r]))]
    BY <2>2 DEF RunMerged
  <2>4. room'[a] = room[a]
    BY <2>3 DEF LInv, IInv, TypeOK
  <2>5. CASE s # r
    BY <1>2, <2>3, <2>4, <2>5 DEF Listed, LInv, IInv, TypeOK
  <2>6. CASE s = r
    <3>1. PICK b \in Seq(Memory) : b = blocks[r]
      BY DEF LInv, IInv, TypeOK
    <3>2. PICK t : t = SubSeq(b, 1, i) \o SubSeq(b, j, Len(b))
      OBVIOUS
    <3>3. blocks'[r] = t
      BY <2>3, <3>1, <3>2 DEF LInv, IInv, TypeOK
    <3>4. Len(b) \in Nat /\ i \in 1..Len(b) /\ j \in Nat /\ j <= Len(b) + 1 /\ k \in 1..Len(b) /\ b[k] = a
      BY <1>2, <2>6, <3>1
    <3>5. /\ Len(t) = i + (Len(b) - j) + 1
          /\ \A m \in 1..i : t[m] = b[m]
          /\ \A m \in (i + 1)..Len(t) : t[m] = b[m - i + (j - 1)]
      <4>1. i < j
        BY <2>3
      <4>2. t = Cut(b, i, j)
        BY <3>2 DEF Cut
      <4> QED
        BY <4>1, <4>2, <3>4, CutIndex
    <3>6. k \notin i..(j - 1)
      BY <2>3, <3>1, <3>4
    <3>7. \E m \in 1..Len(t) : t[m] = a
      <4>1. CASE k < i
        <5>1. k \in 1..i /\ k \in 1..Len(t)
          BY <4>1, <3>4, <3>5
        <5> QED
          BY <5>1, <3>4, <3>5
      <4>2. CASE k >= j
        <5>1. PICK x \in Nat, y \in Nat, l \in Nat, v \in Nat : x = i /\ y = j /\ l = Len(b) /\ v = k
          <6>1. Len(b) \in Nat /\ i \in Nat /\ j \in Nat /\ k \in Nat
            BY <3>4
          <6> QED
            BY <6>1
        <5>2. x < y /\ y <= v /\ v <= l /\ 1 <= x /\ Len(t) = x + (l - y) + 1
          BY <5>1, <2>3, <3>4, <3>5, <4>2
        <5>3. PICK m \in Nat : m = v - y + (x + 1)
          BY <5>2
        <5>4. m \in (x + 1)..Len(t) /\ m \in 1..Len(t) /\ m - x + (y - 1) = v
          BY <5>2, <5>3
        <5>5. t[m] = b[k]
          BY <5>1, <5>4, <3>5
        <5> QED
          BY <5>4, <5>5, <3>4
      <4> QED
        BY <3>4, <3>6, <4>1, <4>2
    <3> QED
      BY <2>4, <3>3, <3>7 DEF Listed
  <2> QED
    BY <2>5, <2>6
<1> QED
  BY <1>3, <1>4, <1>5, ListChanges

\* Who has a block after a step has just taken it, or had it before, and then nobody
\* else changes it.
LEMMA BlockOrigin ==
  ASSUME LInv, [Next]_vars, NEW d \in Cpu, my'[d].block # None
  PROVE  \/ FindHit(d) \/ Extend(d) \/ Merge(d)
         \/ \E g \in granted : FreeRead(d, g)
         \/ /\ my'[d] = my[d] /\ pc'[d] = pc[d]
            /\ my[d].block \in used \/ UNCHANGED <<blocks, size, freeBase, room>>
<1>1. CASE UNCHANGED vars
  BY <1>1 DEF vars
<1>2. ASSUME NEW c \in Cpu, \/ \E n \in Request : Malloc(c, n)
                            \/ \E g \in granted : FreeRead(c, g)
                            \/ Step(c)
      PROVE  \/ FindHit(d) \/ Extend(d) \/ Merge(d)
             \/ \E g \in granted : FreeRead(d, g)
             \/ /\ my'[d] = my[d] /\ pc'[d] = pc[d]
                /\ my[d].block \in used \/ UNCHANGED <<blocks, size, freeBase, room>>
  <2>1. CASE c # d
    <3>1. my'[d] = my[d] /\ pc'[d] = pc[d]
      BY <1>2, <2>1, Others DEF LInv
    <3>2. pc[d] \in {"mark", "free"}
      BY <3>1 DEF LInv, IInv, WalkInv
    <3>3. CASE pc[d] = "free"
      BY <3>1, <3>3 DEF LInv, IInv, WalkInv
    <3>4. CASE pc[d] = "mark"
      <4>1. pc[c] \in {"idle", "free"}
        BY <2>1, <3>4, Alone DEF LInv, Inside
      <4>2. ~Extend(c) /\ ~Merge(c)
        BY <4>1 DEF Extend, Merge, At
      <4>3. \A e \in Cpu \ {c} : ~Extend(e) /\ ~Merge(e)
        <5> SUFFICES ASSUME NEW e \in Cpu \ {c}, Extend(e) \/ Merge(e) PROVE FALSE
          OBVIOUS
        <5>1. pc'[e] = pc[e]
          BY <1>2, Others DEF LInv
        <5>2. pc[e] \in {"extend", "run"} /\ pc'[e] = "mark"
          BY DEF Extend, Merge, At, Found, Goto, LInv, IInv, TypeOK
        <5> QED
          BY <5>1, <5>2
      <4> QED
        BY <3>1, <4>2, <4>3, ListChanges
    <3> QED
      BY <3>2, <3>3, <3>4
  <2>2. CASE c = d
    <3>1. ASSUME NEW n \in Request, Malloc(d, n) PROVE FALSE
      <4>1. my'[d].block = NoLocals.block
        <5>1. my'[d] = [NoLocals EXCEPT !.n = n, !.idx = 1, !.fit = Fits(n)]
          BY <3>1 DEF Malloc, LInv, IInv, TypeOK
        <5> QED
          BY <5>1 DEF NoLocals
      <4> QED
        BY <4>1 DEF NoLocals
    <3>2. ~Mark(d) /\ ~FreeWrite(d)
      BY DEF Mark, FreeWrite, Return, NoLocals, LInv, IInv, TypeOK
    <3>3. ASSUME \/ FindPass(d) \/ NextRegion(d) \/ NoRoom(d) \/ SkipUsed(d) \/ StartRun(d)
                 \/ Run(d) \/ RunTooShort(d)
          PROVE  FALSE
      <4>1. my[d].block = None /\ my[d] \in Locals /\ d \in DOMAIN my
        BY <3>3 DEF FindPass, NextRegion, NoRoom, SkipUsed, StartRun, Run, RunTooShort, At,
                    LInv, IInv, WalkInv, TypeOK
      <4>2. my'[d].block = my[d].block
        BY <3>3, <4>1, SMTT(30) DEF FindPass, NextRegion, NoRoom, SkipUsed, StartRun, Run, RunTooShort,
                          Advance, CountBlock, Locals, LInv, IInv, TypeOK
      <4> QED
        BY <4>1, <4>2
    <3> QED
      BY <1>2, <2>2, <3>1, <3>2, <3>3 DEF Step
  <2> QED
    BY <2>1, <2>2
<1> QED
  BY <1>1, <1>2 DEF Next

\* What malloc finds is a listed block, large enough.  So it is of a free block ...
LEMMA FindHitHand ==
  ASSUME LInv, NEW c \in Cpu, FindHit(c)
  PROVE  Listed(my[c].block)' /\ pc'[c] = "mark" /\ (~loose => my'[c].n <= room'[my'[c].block])
<1>1. /\ my' = [my EXCEPT ![c].block = Here(c)] /\ pc' = [pc EXCEPT ![c] = "mark"]
      /\ size[Here(c)] >= my[c].n /\ Here(c) \notin used /\ UNCHANGED <<blocks, room>>
      /\ InList(c) /\ pc[c] = "find"
  BY DEF FindHit, Found, Goto, At, history
<1>2. my[c] \in Locals /\ my[c].reg \in 1..Regions /\ my[c].idx \in 1..Len(blocks[my[c].reg])
  BY <1>1 DEF LInv, IInv, TypeOK, WalkInv, Locals, InList
<1>3. my'[c].block = Here(c) /\ my'[c].n = my[c].n
  BY <1>1, <1>2 DEF LInv, IInv, TypeOK, Locals
<1>4. Listed(my[c].block)'
  BY <1>1, <1>2, <1>3 DEF Listed, Here
<1>5. /\ my[c].n \in Nat /\ room[Here(c)] \in Nat
      /\ ~loose => size[Here(c)] = room[Here(c)]
  BY <1>1, <1>2, ListedNat DEF Locals, Here, LInv, IInv, RoomInv
<1> QED
  BY <1>1, <1>3, <1>4, <1>5 DEF LInv, IInv, TypeOK

\* ... of a new one ...
LEMMA ExtendHand ==
  ASSUME LInv, NEW c \in Cpu, Extend(c)
  PROVE  Listed(my[c].block)' /\ pc'[c] = "mark" /\ (~loose => my'[c].n <= room'[my'[c].block])
<1>1. PICK r \in 1..Regions, a \in Nat, n \in Nat \ {0} : BlockAdded(c, r, a, n)
  BY ExtendFacts
<1>2. /\ n = my[c].n /\ a \in Memory /\ room' = [room EXCEPT ![a] = n]
      /\ blocks' = [blocks EXCEPT ![r] = Append(blocks[r], a)]
      /\ my' = [my EXCEPT ![c].block = a] /\ pc' = [pc EXCEPT ![c] = "mark"]
  BY <1>1 DEF BlockAdded, Found, Goto
<1>3. my'[c].block = a /\ my'[c].n = n /\ pc'[c] = "mark" /\ room'[a] = n
  BY <1>2 DEF LInv, IInv, TypeOK, Locals
<1>4. PICK b \in Seq(Memory) : b = blocks[r]
  BY DEF LInv, IInv, TypeOK
<1>5. PICK t : t = Append(b, a)
  OBVIOUS
<1>6. Len(t) \in 1..Len(t) /\ t[Len(t)] = a
  <2>1. Len(t) = Len(b) + 1 /\ t[Len(b) + 1] = a /\ Len(b) \in Nat
    BY <1>2, <1>4, <1>5, AppendProperties
  <2> QED
    BY <2>1
<1>7. blocks'[r] = t
  BY <1>2, <1>4, <1>5 DEF LInv, IInv, TypeOK
<1>8. Listed(my[c].block)'
  BY <1>3, <1>6, <1>7 DEF Listed
<1> QED
  BY <1>3, <1>8

\* ... and of a run's first, whose size the difference of two addresses gives.
LEMMA MergeHand ==
  ASSUME RegionsFit, LInv, NEW c \in Cpu, Merge(c)
  PROVE  Listed(my[c].block)' /\ pc'[c] = "mark" /\ (~loose => my'[c].n <= room'[my'[c].block])
<1>1. PICK r \in 1..Regions : \E i \in 1..Len(blocks[r]), j \in 1..(Len(blocks[r]) + 1) :
        \E first, end, total, n \in Nat : RunMerged(c, r, i, j, first, end, total, n)
  BY MergeFacts
<1>2. PICK i \in 1..Len(blocks[r]), j \in 1..(Len(blocks[r]) + 1), first \in Nat, end \in Nat,
           total \in Nat, n \in Nat : RunMerged(c, r, i, j, first, end, total, n)
  BY <1>1
<1>3. /\ i < j /\ first = blocks[r][i] /\ end = Place(r, j) /\ first \in Memory
      /\ (~loose => first + total <= end) /\ total >= Needed(n) /\ n = my[c].n /\ n \in Request
      /\ blocks' = [blocks EXCEPT ![r] = SubSeq(blocks[r], 1, i)
                                         \o SubSeq(blocks[r], j, Len(blocks[r]))]
      /\ room' = [room EXCEPT ![first] = Span(first, end)]
      /\ my' = [my EXCEPT ![c].block = first] /\ pc' = [pc EXCEPT ![c] = "mark"]
  BY <1>2 DEF RunMerged, Found, Goto
<1>4. my'[c].block = first /\ my'[c].n = n /\ pc'[c] = "mark" /\ room'[first] = Span(first, end)
  BY <1>3 DEF LInv, IInv, TypeOK, Locals
<1>5. Needed(n) \in Nat /\ Needed(n) >= Marker + n /\ Marker \in Nat /\ Marker > 0
  <2>1. n \in Nat \ {0}
    BY <1>3, RequestNat
  <2>2. Marker \in Nat /\ Marker > 0
    BY HeapAssumption
  <2> QED
    BY <2>1, <2>2, NeededBounds, NeededCovers
<1>6. ASSUME ~loose PROVE Span(first, end) >= n
  <2>1. PICK k \in Nat, l \in Nat, f \in Nat : k = Base[r] /\ l = Length[r] /\ f = freeBase[r]
    BY HeapAssumption DEF LInv, IInv, TypeOK
  <2>2. k <= first /\ f <= k + l /\ l <= SizeModulus /\ SizeModulus \in Nat
    BY <1>3, <2>1, HeapAssumption DEF LInv, IInv, TileInv, RegionInv, RegionsFit
  <2>3. end <= f
    <3>1. CASE j <= Len(blocks[r])
      <4>1. j \in 1..Len(blocks[r]) /\ end = blocks[r][j]
        BY <3>1, <1>3 DEF Place
      <4>2. end + Marker + room[end] <= f /\ room[end] \in Nat
        BY <4>1, <2>1, ListedNat DEF LInv, IInv, TileInv
      <4> QED
        BY <4>2, <1>5, <2>1
    <3>2. CASE ~(j <= Len(blocks[r]))
      BY <3>2, <1>3, <2>1 DEF Place
    <3> QED
      BY <3>1, <3>2
  <2>6. PICK w \in Nat : w = Needed(n)
    BY <1>5
  <2>7. w >= Marker + n /\ total >= w /\ first + total <= end
    BY <1>3, <1>5, <1>6, <2>6
  <2>8. first + Marker + n <= end
    BY <1>5, <2>7
  <2>9. end <= first + SizeModulus
    BY <2>1, <2>2, <2>3
  <2>4. /\ end - first - Marker \in Nat /\ end - first - Marker < SizeModulus
        /\ end - first - Marker >= n
    BY <1>5, <2>2, <2>8, <2>9
  <2>5. Span(first, end) = end - first - Marker
    BY <2>4, CutToBits DEF Span
  <2> QED
    BY <2>4, <2>5
<1>7. PICK b \in Seq(Memory) : b = blocks[r]
  BY DEF LInv, IInv, TypeOK
<1>8. PICK t : t = SubSeq(b, 1, i) \o SubSeq(b, j, Len(b))
  OBVIOUS
<1>9. blocks'[r] = t
  BY <1>3, <1>7, <1>8 DEF LInv, IInv, TypeOK
<1>10. Len(b) \in Nat /\ i \in 1..Len(b) /\ j \in Nat /\ j <= Len(b) + 1 /\ b[i] = first
  BY <1>3, <1>7
<1>11. Len(t) = i + (Len(b) - j) + 1 /\ \A m \in 1..i : t[m] = b[m]
  <2>1. i < j
    BY <1>3
  <2>2. t = Cut(b, i, j)
    BY <1>8 DEF Cut
  <2> QED
    BY <2>1, <2>2, <1>10, CutIndex
<1>12. i \in 1..Len(t) /\ t[i] = first
  BY <1>10, <1>11
<1>13. Listed(my[c].block)'
  BY <1>4, <1>9, <1>12 DEF Listed
<1> QED
  BY <1>4, <1>6, <1>13, RequestNat, <1>3, SizeBits DEF Span

\* A step keeps what is granted and what is found listed and large enough.
LEMMA HandStep == ASSUME RegionsFit, HInv, [Next]_vars PROVE HandInv'
<1>1. ASSUME NEW g \in granted'
      PROVE  Listed(g.at - Marker)' /\ (~loose' => g.len <= room'[g.at - Marker])
  <2>1. PICK a : a = g.at - Marker
    OBVIOUS
  <2>2. CASE g \in granted
    <3>1. a \in used /\ Listed(a) /\ (~loose => g.len <= room[a])
      BY <2>1, <2>2 DEF HInv, HandInv, LInv, IInv, OwnerInv
    <3>2. Listed(a)' /\ room'[a] = room[a]
      BY <3>1, ListedStays DEF HInv
    <3> QED
      BY <2>1, <3>1, <3>2, LooseStays DEF Listed, HInv
  <2>3. CASE g \notin granted
    <3>1. PICK c \in Cpu : Mark(c)
      BY <2>3 DEF Next, Step, vars, Malloc, FreeRead, FindPass, FindHit, NextRegion, NoRoom,
                  SkipUsed, StartRun, Run, RunTooShort, Extend, Merge, FreeWrite
    <3>2. g \in Granted(c) /\ pc[c] = "mark" /\ UNCHANGED <<blocks, room, loose>>
      BY <2>3, <3>1 DEF Mark, At, history
    <3>3. PICK b : b = my[c].block
      OBVIOUS
    <3>4. b # None /\ g = [at |-> b + Marker, len |-> my[c].n]
      BY <3>2, <3>3 DEF Granted
    <3>5. b \in Nat /\ Marker \in Nat
      BY <3>3, <3>4, MemoryNat DEF HInv, LInv, IInv, TypeOK, Locals
    <3>6. g.at - Marker = b /\ g.len = my[c].n
      BY <3>4, <3>5
    <3> QED
      BY <3>2, <3>3, <3>4, <3>6 DEF HInv, HandInv, Listed
  <2> QED
    BY <2>2, <2>3
<1>2. ASSUME NEW d \in Cpu, my'[d].block # None
      PROVE  /\ Listed(my[d].block)'
             /\ ~loose' /\ pc'[d] = "mark" => my'[d].n <= room'[my'[d].block]
  <2>1. ASSUME FindHit(d) \/ Extend(d) \/ Merge(d)
        PROVE  /\ Listed(my[d].block)'
               /\ ~loose' /\ pc'[d] = "mark" => my'[d].n <= room'[my'[d].block]
    BY <2>1, FindHitHand, ExtendHand, MergeHand, LooseStays DEF HInv
  <2>2. ASSUME NEW g \in granted, FreeRead(d, g)
        PROVE  /\ Listed(my[d].block)'
               /\ ~loose' /\ pc'[d] = "mark" => my'[d].n <= room'[my'[d].block]
    <3>1. PICK a : a = g.at - Marker
      OBVIOUS
    <3>2. a \in used /\ Listed(a)
      BY <3>1 DEF HInv, HandInv, LInv, IInv, OwnerInv
    <3>3. /\ my' = [my EXCEPT ![d].block = a, ![d].saw = size[a]]
          /\ pc' = [pc EXCEPT ![d] = "free"] /\ blocks' = blocks
      BY <2>2, <3>1, <3>2 DEF FreeRead, Goto
    <3>4. my'[d].block = a /\ pc'[d] = "free"
      BY <3>3 DEF HInv, LInv, IInv, TypeOK, Locals
    <3> QED
      BY <3>2, <3>3, <3>4 DEF Listed
  <2>3. CASE /\ my'[d] = my[d] /\ pc'[d] = pc[d]
             /\ my[d].block \in used \/ UNCHANGED <<blocks, size, freeBase, room>>
    <3>1. PICK b : b = my[d].block
      OBVIOUS
    <3>2. Listed(b) /\ (~loose /\ pc[d] = "mark" => my[d].n <= room[b])
      BY <1>2, <2>3, <3>1 DEF HInv, HandInv
    <3>3. Listed(b)' /\ room'[b] = room[b]
      <4>1. CASE b \in used
        BY <3>2, <4>1, ListedStays DEF HInv
      <4>2. CASE UNCHANGED <<blocks, size, freeBase, room>>
        BY <3>2, <4>2 DEF Listed
      <4> QED
        BY <2>3, <3>1, <4>1, <4>2
    <3> QED
      BY <2>3, <3>1, <3>2, <3>3, LooseStays DEF Listed, HInv
  <2> QED
    BY <1>2, <2>1, <2>2, <2>3, BlockOrigin DEF HInv
<1> QED
  BY <1>1, <1>2 DEF HandInv

LEMMA HandInvariance == ASSUME RegionsFit PROVE Spec => []HInv
<1>1. Init => HInv
  BY InitLInv DEF HInv, HandInv, Init, NoLocals
<1>2. HInv /\ [Next]_vars => HInv'
  BY NextIInv, TileStep, RoomStep, FreeStep, RunStep, HandStep DEF LInv, HInv
<1> QED
  BY <1>1, <1>2, PTL DEF Spec

\* The bytes of a listed block lie in the heap's memory.
LEMMA BytesInMemory ==
  ASSUME LInv, NEW b \in Int, Listed(b), NEW n \in Nat, n <= room[b]
  PROVE  (b + Marker)..(b + Marker + n - 1) \subseteq Memory
<1>1. PICK r \in 1..Regions : \E i \in 1..Len(blocks[r]) : blocks[r][i] = b
  BY DEF Listed
<1>2. PICK k \in Nat, l \in Nat, f \in Nat : k = Base[r] /\ l = Length[r] /\ f = freeBase[r]
  BY HeapAssumption DEF LInv, IInv, TypeOK
<1>3. /\ k <= b /\ b + Marker + room[b] <= f /\ f <= k + l /\ Marker \in Nat /\ room[b] \in Nat
  BY <1>1, <1>2, ListedNat DEF LInv, IInv, TileInv, RegionInv
<1>4. ASSUME NEW x \in (b + Marker)..(b + Marker + n - 1) PROVE x \in Memory
  <2>1. x \in k..(k + l - 1)
    BY <1>3, <1>2
  <2> QED
    BY <1>2, <2>1 DEF Memory
<1> QED
  BY <1>4

\* malloc gives n bytes of the heap's memory that no other owner has, and free
\* takes them back: the heap implements the allocator of memlib.h, for any CPUs,
\* regions no larger than a size can say, requests and alignments, until a block
\* that was merged up to the end of its list has been freed.
THEOREM AllocatorImplemented ==
  ASSUME RegionsFit
  PROVE  Spec => AllocatorUntilLoose
<1>1. Init => Blocks!Init
  BY DEF Init, Blocks!Init
<1>2. HInv /\ [Next]_vars => [~loose => Blocks!Next]_granted
  <2> SUFFICES ASSUME HInv, ~loose, [Next]_vars PROVE [Blocks!Next]_granted
    OBVIOUS
  <2>1. ASSUME NEW c \in Cpu, Mark(c) PROVE [Blocks!Next]_granted
    <3>1. PICK b : b = my[c].block
      OBVIOUS
    <3>2. PICK n : n = my[c].n
      OBVIOUS
    <3>3. CASE b = None
      BY <2>1, <3>1, <3>3 DEF Mark, Granted
    <3>4. CASE b # None
      <4>1. pc[c] = "mark" /\ granted' = granted \cup {[at |-> b + Marker, len |-> n]}
        BY <2>1, <3>1, <3>2, <3>4 DEF Mark, Granted, At
      <4>2. n \in Request /\ n \in Nat /\ n > 0 /\ Listed(b) /\ n <= room[b] /\ Placed(b)
            /\ b \in Memory /\ b \in Nat
        BY <3>1, <3>2, <3>4, <4>1, RequestNat, MemoryNat
           DEF HInv, HandInv, LInv, IInv, WalkInv, TypeOK, Locals, Inside
      <4>3. PICK g : g = [at |-> b + Marker, len |-> n]
        OBVIOUS
      <4>4. g \in Blocks!Block
        BY <4>2, <4>3, PlacedMemory DEF Blocks!Block, HInv, LInv, IInv
      <4>5. Blocks!Bytes(g) \subseteq Memory
        BY <4>2, <4>3, BytesInMemory DEF Blocks!Bytes, HInv
      <4>6. ASSUME NEW h \in granted PROVE Blocks!Bytes(g) \cap Blocks!Bytes(h) = {}
        <5>1. PICK a \in Nat, m \in Nat : a = h.at - Marker /\ m = h.len
          <6>1. h.at - Marker \in Memory /\ h.len \in Request
            BY DEF HInv, LInv, IInv, OwnerInv, TypeOK
          <6> QED
            BY <6>1, MemoryNat, RequestNat
        <5>2. Listed(a) /\ m <= room[a] /\ a # b /\ h.at = a + Marker
          <6>1. h.at \in Nat /\ Marker \in Nat
            BY MemoryNat DEF HInv, LInv, IInv, TypeOK
          <6>2. h.at # b + Marker
            BY <3>1, <3>4 DEF HInv, LInv, IInv, OwnerInv
          <6> QED
            BY <5>1, <6>1, <6>2 DEF HInv, HandInv
        <5>3. PICK r \in 1..Regions : \E i \in 1..Len(blocks[r]) : blocks[r][i] = b
          BY <4>2 DEF Listed
        <5>4. PICK i \in 1..Len(blocks[r]) : blocks[r][i] = b
          BY <5>3
        <5>5. PICK s \in 1..Regions : \E j \in 1..Len(blocks[s]) : blocks[s][j] = a
          BY <5>2 DEF Listed
        <5>6. PICK j \in 1..Len(blocks[s]) : blocks[s][j] = a
          BY <5>5
        <5>7. PICK v \in Nat, w \in Nat : v = room[b] /\ w = room[a]
          BY <5>4, <5>6, ListedNat DEF HInv, LInv, IInv
        <5>8. b + Marker + v <= a \/ a + Marker + w <= b
          BY <5>2, <5>4, <5>6, <5>7, Apart DEF HInv, LInv, IInv
        <5>9. n <= v /\ m <= w /\ Marker \in Nat
          BY <4>2, <5>2, <5>7, MemoryNat
        <5>10. \A x \in (b + Marker)..(b + Marker + n - 1) :
                 x \notin (a + Marker)..(a + Marker + m - 1)
          BY <4>2, <5>8, <5>9
        <5>11. Blocks!Bytes(g) = (b + Marker)..(b + Marker + n - 1)
               /\ Blocks!Bytes(h) = (a + Marker)..(a + Marker + m - 1)
          BY <4>3, <5>1, <5>2 DEF Blocks!Bytes
        <5> QED
          BY <5>10, <5>11
      <4>7. Blocks!Grant(g)
        BY <4>1, <4>3, <4>5, <4>6 DEF Blocks!Grant
      <4> QED
        BY <4>4, <4>7 DEF Blocks!Next
    <3> QED
      BY <3>3, <3>4
  <2>2. ASSUME NEW c \in Cpu, NEW g \in granted, FreeRead(c, g) PROVE [Blocks!Next]_granted
    BY <2>2 DEF FreeRead, Blocks!Next, Blocks!Release
  <2>3. ASSUME NEW c \in Cpu, NEW n \in Request, Malloc(c, n) PROVE [Blocks!Next]_granted
    BY <2>3 DEF Malloc
  <2>4. ASSUME NEW c \in Cpu, Step(c) PROVE [Blocks!Next]_granted
    BY <2>1, <2>4 DEF Step, FindPass, FindHit, NextRegion, NoRoom, SkipUsed, StartRun, Run,
                      RunTooShort, Extend, Merge, FreeWrite
  <2> QED
    BY <2>2, <2>3, <2>4 DEF Next, vars
<1> QED
  BY <1>1, <1>2, HandInvariance, PTL DEF Spec, AllocatorUntilLoose

-----------------------------------------------------------------------------
\* malloc and what would have done

\* A set of naturals has a least element.
LEMMA Least ==
  ASSUME NEW S \in SUBSET Nat, S # {}
  PROVE  \E x \in S : \A y \in S : x <= y
<1> DEFINE T == {0 .. x : x \in S}
<1>1. T \subseteq FiniteSubsetsOf(Nat)
  <2> SUFFICES ASSUME NEW x \in S PROVE 0 .. x \in FiniteSubsetsOf(Nat)
    OBVIOUS
  <2>1. 0 \in Int /\ x \in Int /\ 0 .. x \subseteq Nat
    OBVIOUS
  <2> QED
    BY <2>1, FS_Interval DEF FiniteSubsetsOf
<1>2. PICK X \in T : \A Y \in T : ~(<<Y, X>> \in StrictSubsetOrdering(Nat))
  <2>1. T # {}
    OBVIOUS
  <2> HIDE DEF T
  <2> QED
    BY <1>1, <2>1, FS_StrictSubsetOrderingWellFounded, WFMin
<1>3. PICK x \in S : X = 0 .. x
  OBVIOUS
<1>4. ASSUME NEW y \in S PROVE x <= y
  <2>1. 0 .. y \in T /\ x \in Nat /\ y \in Nat
    OBVIOUS
  <2>2. ~(0 .. y \subseteq 0 .. x /\ 0 .. y # 0 .. x)
    <3>1. 0 .. y \in SUBSET Nat /\ 0 .. x \in SUBSET Nat
      BY <2>1
    <3>2. ~(<<0 .. y, 0 .. x>> \in StrictSubsetOrdering(Nat))
      BY <1>2, <1>3, <2>1
    <3> HIDE DEF T
    <3> QED
      BY <3>1, <3>2 DEF StrictSubsetOrdering
  <2>3. y < x => 0 .. y \subseteq 0 .. x /\ x \in 0 .. x /\ x \notin 0 .. y
    BY <2>1
  <2> QED
    BY <2>1, <2>2, <2>3
<1> QED
  BY <1>4

\* f has the bytes of the blocks i..k, for every k up to j.
Totals(f, list, sizes, i, j) ==
  f = [k \in (i - 1)..j |-> IF k < i THEN 0 ELSE f[k - 1] + sizes[list[k]] + Marker]

\* What such a function is, value by value.
LEMMA TotalsAt ==
  ASSUME NEW i \in Nat, NEW j \in Nat, i >= 1, NEW list, NEW sizes, NEW f,
         Totals(f, list, sizes, i, j)
  PROVE  /\ \A k \in i..j : f[k] = f[k - 1] + sizes[list[k]] + Marker
         /\ i <= j + 1 => f[i - 1] = 0
<1>1. DOMAIN f = (i - 1)..j /\ \A k \in (i - 1)..j :
        f[k] = IF k < i THEN 0 ELSE f[k - 1] + sizes[list[k]] + Marker
  BY DEF Totals
<1>2. \A k \in i..j : k \in (i - 1)..j /\ ~(k < i)
  OBVIOUS
<1>3. i <= j + 1 => i - 1 \in (i - 1)..j /\ i - 1 < i
  OBVIOUS
<1> QED
  BY <1>1, <1>2, <1>3

\* Two of them agree.
LEMMA TotalsAgree ==
  ASSUME NEW i \in Nat, NEW j \in Nat, NEW m \in Nat, i >= 1, i <= m + 1, m <= j,
         NEW list, NEW sizes, Marker \in Nat, \A k \in i..j : sizes[list[k]] \in Nat,
         NEW f, Totals(f, list, sizes, i, j), NEW g, Totals(g, list, sizes, i, m)
  PROVE  f[m] = g[m] /\ f[m] \in Nat
<1> DEFINE Bad == {k \in Nat : k \in (i - 1)..m /\ ~(f[k] = g[k] /\ f[k] \in Nat)}
<1>1. ASSUME NEW x \in Bad, \A y \in Bad : x <= y  PROVE FALSE
  <2>1. x \in Nat /\ x \in (i - 1)..m /\ ~(f[x] = g[x] /\ f[x] \in Nat)
    OBVIOUS
  <2>2. f[i - 1] = 0 /\ g[i - 1] = 0
    <3>1. i <= j + 1
      OBVIOUS
    <3> QED
      BY <3>1, TotalsAt
  <2>3. x # i - 1
    BY <2>1, <2>2
  <2>4. x \in i..m /\ x \in i..j /\ x - 1 \in Nat /\ x - 1 \in (i - 1)..m /\ ~(x <= x - 1)
    BY <2>1, <2>3
  <2>5. f[x - 1] = g[x - 1] /\ f[x - 1] \in Nat
    BY <1>1, <2>4
  <2>6. f[x] = f[x - 1] + sizes[list[x]] + Marker /\ g[x] = g[x - 1] + sizes[list[x]] + Marker
    BY <2>4, TotalsAt
  <2>7. sizes[list[x]] \in Nat
    BY <2>4
  <2> QED
    BY <2>1, <2>5, <2>6, <2>7
<1>2. Bad = {}
  <2>1. Bad \in SUBSET Nat
    OBVIOUS
  <2> HIDE DEF Bad
  <2> QED
    BY <1>1, <2>1, Least
<1>3. m \in (i - 1)..m
  OBVIOUS
<1> QED
  BY <1>2, <1>3

LEMMA TotalsExist ==
  ASSUME NEW i \in Nat, NEW j \in Nat, i >= 1, i <= j + 1, NEW list, NEW sizes
  PROVE  \E f : Totals(f, list, sizes, i, j)
<1> DEFINE Bad == {m \in Nat : i <= m + 1 /\ ~\E f : Totals(f, list, sizes, i, m)}
<1>1. ASSUME NEW x \in Bad, \A y \in Bad : x <= y  PROVE FALSE
  <2>1. x \in Nat /\ i <= x + 1 /\ ~\E f : Totals(f, list, sizes, i, x)
    OBVIOUS
  <2>2. CASE x = i - 1
    <3> DEFINE f == [k \in (i - 1)..x |-> 0]
    <3>1. \A k \in (i - 1)..x : k < i
      BY <2>2
    <3>2. Totals(f, list, sizes, i, x)
      BY <3>1 DEF Totals
    <3> QED
      BY <2>1, <3>2
  <2>3. CASE x # i - 1
    <3>1. x - 1 \in Nat /\ i <= (x - 1) + 1 /\ ~(x <= x - 1) /\ i <= x
      BY <2>1, <2>3
    <3>2. PICK g : Totals(g, list, sizes, i, x - 1)
      BY <1>1, <3>1
    <3> DEFINE f == [k \in (i - 1)..x |-> IF k < x THEN g[k] ELSE g[x - 1] + sizes[list[x]] + Marker]
    <3>3. ASSUME NEW k \in (i - 1)..x
          PROVE  f[k] = IF k < i THEN 0 ELSE f[k - 1] + sizes[list[k]] + Marker
      <4>1. CASE k = x
        <5>1. ~(k < i) /\ k - 1 \in (i - 1)..x /\ k - 1 < x
          BY <3>1, <4>1
        <5> QED
          BY <4>1, <5>1
      <4>2. CASE k # x
        <5>1. k < x /\ k \in (i - 1)..(x - 1)
          BY <3>1, <4>2
        <5>2. g[k] = IF k < i THEN 0 ELSE g[k - 1] + sizes[list[k]] + Marker
          BY <3>2, <5>1 DEF Totals
        <5>3. ~(k < i) => k - 1 \in (i - 1)..x /\ k - 1 < x
          BY <3>1, <5>1
        <5> QED
          BY <5>1, <5>2, <5>3
      <4> QED
        BY <4>1, <4>2
    <3>4. f = [k \in (i - 1)..x |-> f[k]]
      OBVIOUS
    <3> HIDE DEF f
    <3>5. Totals(f, list, sizes, i, x)
      BY <3>3, <3>4 DEF Totals
    <3> QED
      BY <2>1, <3>5
  <2> QED
    BY <2>2, <2>3
<1>2. Bad = {}
  <2>1. Bad \in SUBSET Nat
    OBVIOUS
  <2> HIDE DEF Bad
  <2> QED
    BY <1>1, <2>1, Least
<1> QED
  BY <1>2

LEMMA TotalIs ==
  ASSUME NEW i \in Nat, NEW j \in Nat, i >= 1, i <= j + 1, NEW list, NEW sizes
  PROVE  \E f : Totals(f, list, sizes, i, j) /\ Total(list, sizes, i, j) = f[j]
<1>1. \E f : Totals(f, list, sizes, i, j)
  BY TotalsExist
<1>2. Totals(CHOOSE f : Totals(f, list, sizes, i, j), list, sizes, i, j)
  BY <1>1
<1>3. Total(list, sizes, i, j) = (CHOOSE f : Totals(f, list, sizes, i, j))[j]
  BY DEF Total, Totals
<1> QED
  BY <1>2, <1>3

\* No blocks are no bytes, and one more block its size and its marker.
LEMMA TotalNat ==
  ASSUME NEW i \in Nat, NEW j \in Nat, i >= 1, i <= j + 1, NEW list, NEW sizes, Marker \in Nat,
         \A k \in i..j : sizes[list[k]] \in Nat
  PROVE  Total(list, sizes, i, j) \in Nat /\ (j + 1 = i => Total(list, sizes, i, j) = 0)
<1>1. PICK f : Totals(f, list, sizes, i, j) /\ Total(list, sizes, i, j) = f[j]
  BY TotalIs
<1>2. f[j] \in Nat
  <2>1. j <= j
    OBVIOUS
  <2> QED
    BY <1>1, <2>1, TotalsAgree
<1>3. j + 1 = i => f[j] = 0
  <2>1. j + 1 = i => j = i - 1
    OBVIOUS
  <2> QED
    BY <1>1, <2>1, TotalsAt
<1> QED
  BY <1>1, <1>2, <1>3

LEMMA TotalsLast ==
  ASSUME NEW i \in Nat, NEW j \in Nat, i >= 1, j \in i..j, NEW list, NEW sizes, NEW f,
         Totals(f, list, sizes, i, j)
  PROVE  f[j] = f[j - 1] + sizes[list[j]] + Marker
<1>1. j \in (i - 1)..j /\ ~(j < i)
  OBVIOUS
<1> QED
  BY <1>1 DEF Totals

LEMMA TotalMore ==
  ASSUME NEW i \in Nat, NEW m \in Nat, NEW j \in Nat, i >= 1, i <= m + 1, j = m + 1,
         NEW list, NEW sizes, Marker \in Nat, \A k \in i..j : sizes[list[k]] \in Nat
  PROVE  Total(list, sizes, i, j) = Total(list, sizes, i, m) + sizes[list[j]] + Marker
<1>1. i <= j + 1 /\ m <= j /\ j \in i..j /\ j - 1 = m
  OBVIOUS
<1>2. PICK f : Totals(f, list, sizes, i, j) /\ Total(list, sizes, i, j) = f[j]
  BY <1>1, TotalIs
<1>3. PICK g : Totals(g, list, sizes, i, m) /\ Total(list, sizes, i, m) = g[m]
  BY TotalIs
<1>4. f[m] = g[m]
  BY <1>1, <1>2, <1>3, TotalsAgree
<1>5. f[j] = f[j - 1] + sizes[list[j]] + Marker
  BY <1>1, <1>2, TotalsLast
<1>6. f[j] = f[m] + sizes[list[j]] + Marker
  BY <1>1, <1>5
<1> QED
  BY <1>2, <1>3, <1>4, <1>6

\* A block and a run that would do for n bytes.
BlockFits(n, r, i) == Free(r, i) /\ size[blocks[r][i]] >= n

RunFits(n, r, i, j) ==
  i <= j /\ (\A k \in i..j : Free(r, k)) /\ Counted(r, i, j) >= Needed(n)

\* A walk with the locals L has not come to the block i of r; it is in a run that
\* starts there, or earlier, and has counted its blocks.
Ahead(L, r, i) == L.reg < r \/ (L.reg = r /\ L.idx <= i)

Counting(L, r, i, j) ==
  L.reg = r /\ i < L.idx /\ L.idx <= j + 1 /\ Counted(r, i, L.idx - 1) <= L.total

Room(L) == \E r \in 1..Regions : HasRoom(r, L.n)

BlockAhead(L) ==
  \E r \in 1..Regions : \E i \in 1..Len(blocks[r]) : BlockFits(L.n, r, i) /\ Ahead(L, r, i)

SomeRun(L) == \E r \in 1..Regions : \E i, j \in 1..Len(blocks[r]) : RunFits(L.n, r, i, j)

RunAhead(L) ==
  \E r \in 1..Regions : \E i, j \in 1..Len(blocks[r]) : RunFits(L.n, r, i, j) /\ Ahead(L, r, i)

RunCounted(L) ==
  \E r \in 1..Regions : \E i, j \in 1..Len(blocks[r]) :
    RunFits(L.n, r, i, j) /\ Counting(L, r, i, j)

\* What is left to be found at each place in malloc, if there was anything.
Due(l, L) ==
  /\ l = "find" => BlockAhead(L) \/ Room(L) \/ SomeRun(L)
  /\ l = "extend" => Room(L) \/ SomeRun(L)
  /\ l = "skip" => RunAhead(L)
  /\ l = "run" => RunAhead(L) \/ RunCounted(L)
  /\ l = "mark" => L.block # None

FitInv == \A c \in Cpu : my[c].fit => Due(pc[c], my[c])

NInv == IInv /\ FreeInv /\ FitInv

\* Other CPUs only free blocks while one is in malloc.
LEMMA OthersFree ==
  ASSUME IInv, FreeInv, NEW c \in Cpu, NEW d \in Cpu, c # d, pc[d] \in Inside,
         \/ \E n \in Request : Malloc(c, n)
         \/ \E g \in granted : FreeRead(c, g)
         \/ Step(c)
  PROVE  /\ pc'[d] = pc[d] /\ my'[d] = my[d]
         /\ UNCHANGED <<blocks, size, freeBase>> /\ used' \subseteq used
<1>1. lock = d /\ pc[c] \in {"idle", "free"}
  BY Alone DEF Inside
<1>2. \A n \in Request : ~Malloc(c, n)
  BY <1>1, HeapAssumption DEF Malloc
<1>3. Step(c) => FreeWrite(c)
  BY <1>1 DEF Step, FindPass, FindHit, NextRegion, NoRoom, SkipUsed, StartRun, Run, RunTooShort,
              Mark, Extend, Merge, At
<1>4. CASE \E g \in granted : FreeRead(c, g)
  BY <1>4 DEF FreeRead, Goto, IInv, TypeOK
<1>5. CASE FreeWrite(c)
  <2>1. my[c].saw = size[my[c].block] /\ size' = [size EXCEPT ![my[c].block] = my[c].saw]
    BY <1>5 DEF FreeInv, FreeWrite, At
  <2>2. size' = size
    BY <2>1 DEF IInv, TypeOK
  <2> QED
    BY <1>5, <2>2 DEF FreeWrite, Return, Goto, IInv, TypeOK
<1> QED
  BY <1>2, <1>3, <1>4, <1>5

\* Frees take nothing away from what is due.
LEMMA DueStays ==
  ASSUME NEW l, NEW L, Due(l, L), UNCHANGED <<blocks, size, freeBase>>, used' \subseteq used
  PROVE  Due(l, L)'
<1>1. \A r, i : Free(r, i) => Free(r, i)'
  BY DEF Free
<1>2. \A n, r, i : BlockFits(n, r, i) => BlockFits(n, r, i)'
  BY <1>1 DEF BlockFits
<1>3. \A n, r, i, j : RunFits(n, r, i, j) => RunFits(n, r, i, j)'
  BY <1>1 DEF RunFits, Counted
<1>4. \A r, i, j : Counting(L, r, i, j) => Counting(L, r, i, j)'
  BY DEF Counting, Counted
<1>5. /\ Room(L) => Room(L)'
      /\ SomeRun(L) => SomeRun(L)'
  BY <1>3 DEF Room, HasRoom, SomeRun
<1>6. /\ BlockAhead(L) => BlockAhead(L)'
      /\ RunAhead(L) => RunAhead(L)'
  BY <1>2, <1>3 DEF BlockAhead, RunAhead
<1>7. RunCounted(L) => RunCounted(L)'
  BY <1>3, <1>4 DEF RunCounted
<1> QED
  BY <1>5, <1>6, <1>7 DEF Due

\* The next place of a walk and its locals, with what is due there now.
Goes(c) == \E l \in Label, L \in Locals : pc'[c] = l /\ my'[c] = L /\ (L.fit => Due(l, L))

LEMMA FindPassDue == ASSUME IInv, FitInv, NEW c \in Cpu, FindPass(c) PROVE Goes(c)
<1> DEFINE L == [my[c] EXCEPT !.idx = @ + 1]
<1>1. /\ my[c] \in Locals /\ my[c].idx \in Nat /\ my[c].reg \in 1..Regions
      /\ c \in DOMAIN my /\ pc[c] = "find" /\ my' = [my EXCEPT ![c] = L] /\ pc'[c] = "find"
  BY LocalsOf DEF IInv, TypeOK, FindPass, At, Advance
<1>2. /\ L \in Locals /\ L.n = my[c].n /\ L.reg = my[c].reg /\ L.idx = my[c].idx + 1
      /\ L.fit = my[c].fit /\ my'[c] = L
  BY <1>1 DEF Locals
<1> HIDE DEF L
<1>3. ASSUME BlockAhead(my[c]) PROVE BlockAhead(L)
  <2>1. PICK r \in 1..Regions : \E i \in 1..Len(blocks[r]) :
               BlockFits(my[c].n, r, i) /\ Ahead(my[c], r, i)
    BY <1>3 DEF BlockAhead
  <2>2. PICK i \in 1..Len(blocks[r]) : BlockFits(my[c].n, r, i) /\ Ahead(my[c], r, i)
    BY <2>1
  <2>3. ~(my[c].reg = r /\ my[c].idx = i)
    <3>1. size[blocks[r][i]] \in Nat /\ my[c].n \in Nat
      <4>1. blocks[r] \in Seq(Memory) /\ blocks[r][i] \in Memory
        BY DEF IInv, TypeOK
      <4>2. SizeModulus \in Int /\ my[c].n \in Nat
        BY <1>1, HeapAssumption DEF Locals
      <4> QED
        BY <4>1, <4>2 DEF IInv, TypeOK
    <3>2. blocks[r][i] \notin used /\ size[blocks[r][i]] >= my[c].n
      BY <2>2 DEF BlockFits, Free
    <3>3. Here(c) \in used \/ size[Here(c)] < my[c].n
      BY DEF FindPass
    <3> QED
      BY <3>1, <3>2, <3>3 DEF Here
  <2>4. Ahead(L, r, i)
    BY <1>1, <1>2, <2>2, <2>3 DEF Ahead
  <2> QED
    BY <1>2, <2>2, <2>4 DEF BlockAhead
<1>4. L.fit => Due("find", L)
  BY <1>1, <1>2, <1>3 DEF FitInv, Due, Room, SomeRun
<1> QED
  BY <1>1, <1>2, <1>4 DEF Goes, Label

LEMMA FindHitDue == ASSUME IInv, FitInv, NEW c \in Cpu, FindHit(c) PROVE Goes(c)
<1>1. /\ c \in DOMAIN my /\ my[c] \in Locals /\ my[c].idx \in Nat /\ my[c].idx >= 1
      /\ my[c].reg \in 1..Regions /\ pc'[c] = "mark"
      /\ my' = [my EXCEPT ![c].block = Here(c)]
  BY LocalsOf DEF IInv, TypeOK, FindHit, At, Found, Goto
<1>2. Here(c) \in Memory
  <2>1. blocks[my[c].reg] \in Seq(Memory)
    BY <1>1 DEF IInv, TypeOK
  <2>2. my[c].idx \in 1..Len(blocks[my[c].reg])
    BY <1>1, <2>1 DEF FindHit, InList
  <2> QED
    BY <2>1, <2>2 DEF Here
<1>3. my'[c] \in Locals /\ my'[c].block # None
  BY <1>1, <1>2, MemoryNat DEF Locals
<1> QED
  BY <1>1, <1>3 DEF Goes, Label, Due

LEMMA NextRegionDue == ASSUME IInv, FitInv, NEW c \in Cpu, NextRegion(c) PROVE Goes(c)
<1>1. /\ my[c] \in Locals /\ my[c].idx \in Nat /\ my[c].reg \in 1..Regions
      /\ c \in DOMAIN my /\ pc[c] \in {"find", "skip"} /\ ~(my[c].idx <= Len(blocks[my[c].reg]))
      /\ Regions \in Nat
  BY LocalsOf, HeapAssumption DEF IInv, TypeOK, NextRegion, InList
<1>2. ASSUME NEW r \in 1..Regions, NEW i \in 1..Len(blocks[r]), Ahead(my[c], r, i)
      PROVE  my[c].reg < r
  <2>1. Len(blocks[r]) \in Nat
    BY DEF IInv, TypeOK
  <2> QED
    BY <1>1, <1>2, <2>1 DEF Ahead
<1>3. CASE my[c].reg < Regions
  <2> DEFINE L == [my[c] EXCEPT !.reg = @ + 1, !.idx = 1]
  <2>1. my' = [my EXCEPT ![c] = L] /\ pc'[c] = pc[c]
    BY <1>1, <1>3 DEF NextRegion
  <2>2. /\ L \in Locals /\ L.n = my[c].n /\ L.reg = my[c].reg + 1 /\ L.idx = 1
        /\ L.fit = my[c].fit /\ my'[c] = L
    <3>1. my[c].reg + 1 \in 1..Regions
      BY <1>1, <1>3
    <3> QED
      BY <1>1, <2>1, <3>1 DEF Locals
  <2> HIDE DEF L
  <2>3. \A r \in 1..Regions : \A i \in 1..Len(blocks[r]) : Ahead(my[c], r, i) => Ahead(L, r, i)
    <3> SUFFICES ASSUME NEW r \in 1..Regions, NEW i \in 1..Len(blocks[r]), Ahead(my[c], r, i)
                 PROVE  Ahead(L, r, i)
      OBVIOUS
    <3>1. my[c].reg < r /\ Len(blocks[r]) \in Nat
      BY <1>2 DEF IInv, TypeOK
    <3> QED
      BY <1>1, <2>2, <3>1 DEF Ahead
  <2>4. (BlockAhead(my[c]) => BlockAhead(L)) /\ (RunAhead(my[c]) => RunAhead(L))
    BY <2>2, <2>3 DEF BlockAhead, RunAhead
  <2>5. L.fit => Due(pc[c], L)
    BY <1>1, <2>2, <2>4 DEF FitInv, Due, Room, SomeRun
  <2>6. pc[c] \in Label
    BY DEF IInv, TypeOK
  <2> QED
    BY <2>1, <2>2, <2>5, <2>6 DEF Goes
<1>4. CASE ~(my[c].reg < Regions)
  <2>1. \A r \in 1..Regions : \A i \in 1..Len(blocks[r]) : ~Ahead(my[c], r, i)
    BY <1>1, <1>2, <1>4
  <2>2. ~BlockAhead(my[c]) /\ ~RunAhead(my[c])
    BY <2>1 DEF BlockAhead, RunAhead
  <2>3. my' = my /\ pc'[c] = IF pc[c] = "find" THEN "extend" ELSE "mark"
    BY <1>1, <1>4 DEF NextRegion, Goto, At, IInv, TypeOK
  <2>4. my[c].fit => Due(pc'[c], my[c])
    BY <1>1, <2>2, <2>3 DEF FitInv, Due
  <2> QED
    BY <1>1, <2>3, <2>4 DEF Goes, Label
<1> QED
  BY <1>3, <1>4

LEMMA NoRoomDue == ASSUME IInv, FitInv, NEW c \in Cpu, NoRoom(c) PROVE Goes(c)
<1> DEFINE L == [my[c] EXCEPT !.reg = 1, !.idx = 1]
<1>1. /\ my[c] \in Locals /\ c \in DOMAIN my /\ pc[c] = "extend" /\ pc'[c] = "skip"
      /\ my' = [my EXCEPT ![c] = L]
  BY LocalsOf DEF IInv, TypeOK, NoRoom, At, Goto
<1>2. /\ L \in Locals /\ L.n = my[c].n /\ L.reg = 1 /\ L.idx = 1
      /\ L.fit = my[c].fit /\ my'[c] = L
  <2>1. 1 \in 1..Regions
    BY HeapAssumption
  <2> QED
    BY <1>1, <2>1 DEF Locals
<1> HIDE DEF L
<1>3. ~Room(my[c])
  BY DEF Room, NoRoom
<1>4. \A r \in 1..Regions : \A i \in 1..Len(blocks[r]) : Ahead(L, r, i)
  <2> SUFFICES ASSUME NEW r \in 1..Regions, NEW i \in 1..Len(blocks[r]) PROVE Ahead(L, r, i)
    OBVIOUS
  <2>1. r \in Int /\ i \in Int /\ 1 <= r /\ 1 <= i
    OBVIOUS
  <2> QED
    BY <1>2, <2>1 DEF Ahead
<1>5. SomeRun(my[c]) => RunAhead(L)
  BY <1>2, <1>4 DEF SomeRun, RunAhead
<1>6. L.fit => Due("skip", L)
  BY <1>1, <1>2, <1>3, <1>5 DEF FitInv, Due
<1> QED
  BY <1>1, <1>2, <1>6 DEF Goes, Label

LEMMA SkipUsedDue == ASSUME IInv, FitInv, NEW c \in Cpu, SkipUsed(c) PROVE Goes(c)
<1> DEFINE L == [my[c] EXCEPT !.idx = @ + 1]
<1>1. /\ my[c] \in Locals /\ my[c].idx \in Nat /\ my[c].reg \in 1..Regions
      /\ c \in DOMAIN my /\ pc[c] = "skip" /\ my' = [my EXCEPT ![c] = L] /\ pc'[c] = "skip"
  BY LocalsOf DEF IInv, TypeOK, SkipUsed, At, Advance
<1>2. /\ L \in Locals /\ L.n = my[c].n /\ L.reg = my[c].reg /\ L.idx = my[c].idx + 1
      /\ L.fit = my[c].fit /\ my'[c] = L
  BY <1>1 DEF Locals
<1> HIDE DEF L
<1>3. ASSUME RunAhead(my[c]) PROVE RunAhead(L)
  <2>1. PICK r \in 1..Regions : \E i, j \in 1..Len(blocks[r]) :
               RunFits(my[c].n, r, i, j) /\ Ahead(my[c], r, i)
    BY <1>3 DEF RunAhead
  <2>2. PICK i \in 1..Len(blocks[r]), j \in 1..Len(blocks[r]) :
               RunFits(my[c].n, r, i, j) /\ Ahead(my[c], r, i)
    BY <2>1
  <2>3. ~(my[c].reg = r /\ my[c].idx = i)
    <3>1. i \in i..j
      BY <2>2 DEF RunFits
    <3>2. blocks[r][i] \notin used
      BY <2>2, <3>1 DEF RunFits, Free
    <3> QED
      BY <3>2 DEF SkipUsed, Here
  <2>4. Ahead(L, r, i)
    BY <1>1, <1>2, <2>2, <2>3 DEF Ahead
  <2> QED
    BY <1>2, <2>2, <2>4 DEF RunAhead
<1>4. L.fit => Due("skip", L)
  BY <1>1, <1>2, <1>3 DEF FitInv, Due
<1> QED
  BY <1>1, <1>2, <1>4 DEF Goes, Label

LEMMA StartRunDue == ASSUME IInv, FitInv, NEW c \in Cpu, StartRun(c) PROVE Goes(c)
<1> DEFINE L == [my[c] EXCEPT !.start = my[c].idx, !.total = 0]
<1>1. /\ my[c] \in Locals /\ my[c].idx \in Nat /\ c \in DOMAIN my
      /\ pc[c] = "skip" /\ my' = [my EXCEPT ![c] = L] /\ pc'[c] = "run"
  BY LocalsOf DEF IInv, TypeOK, StartRun, At, Goto
<1>2. /\ L \in Locals /\ L.n = my[c].n /\ L.reg = my[c].reg /\ L.idx = my[c].idx
      /\ L.fit = my[c].fit /\ my'[c] = L
  BY <1>1 DEF Locals
<1> HIDE DEF L
<1>3. RunAhead(my[c]) => RunAhead(L)
  BY <1>2 DEF RunAhead, Ahead
<1>4. L.fit => Due("run", L)
  BY <1>1, <1>2, <1>3 DEF FitInv, Due
<1> QED
  BY <1>1, <1>2, <1>4 DEF Goes, Label

\* A run that is being counted is not over where its blocks are.
LEMMA CountGoesOn ==
  ASSUME IInv, NEW c \in Cpu, pc[c] = "run", ~Enough(c),
         NEW r \in 1..Regions, NEW i \in 1..Len(blocks[r]), NEW j \in 1..Len(blocks[r]),
         RunFits(my[c].n, r, i, j), Counting(my[c], r, i, j)
  PROVE  /\ my[c].reg = r /\ my[c].idx \in i..j /\ Free(r, my[c].idx) /\ InList(c)
         /\ Counted(r, i, my[c].idx) <= my[c].total + size[Here(c)] + Marker
<1>1. /\ my[c].idx \in Nat /\ my[c].total \in Nat /\ my[c].n \in Request /\ Marker \in Nat
      /\ i \in Nat /\ j \in Nat /\ i >= 1 /\ j <= Len(blocks[r]) /\ Len(blocks[r]) \in Nat
  <2>1. Len(blocks[r]) \in Nat
    BY DEF IInv, TypeOK
  <2> QED
    BY <2>1, LocalsOf, MemoryNat DEF Inside
<1>2. \A k \in i..j : size[blocks[r][k]] \in Nat
  <2>1. \A k \in i..j : k \in 1..Len(blocks[r])
    BY <1>1
  <2>3. \A k \in i..j : blocks[r][k] \in Memory
    BY <2>1 DEF IInv, TypeOK
  <2>2. SizeModulus \in Int
    BY HeapAssumption
  <2> QED
    BY <2>2, <2>3 DEF IInv, TypeOK
<1>3. PICK x \in Nat : x = my[c].idx
  BY <1>1
<1>4. my[c].reg = r /\ i < x /\ x <= j + 1 /\ Counted(r, i, x - 1) <= my[c].total
  BY <1>3 DEF Counting
<1>5. PICK need \in Nat : need = Needed(my[c].n)
  BY <1>1, NeededBounds, RequestNat
<1>6. my[c].total < need /\ Counted(r, i, j) >= need
  BY <1>1, <1>5 DEF Enough, RunFits
<1>7. x # j + 1
  <2>1. x = j + 1 => x - 1 = j
    BY <1>1
  <2>2. Counted(r, i, j) \in Nat
    <3>1. i <= j + 1
      BY <1>1, <1>4
    <3> QED
      BY <1>1, <1>2, <3>1, TotalNat DEF Counted
  <2> QED
    BY <1>1, <1>4, <1>6, <2>1, <2>2
<1>8. x \in i..j /\ i <= x /\ i <= x + 1 /\ \A k \in i..x : k \in i..j
  BY <1>1, <1>4, <1>7
<1>9. PICK m \in Nat : m = x - 1 /\ x = m + 1 /\ i <= m + 1
  BY <1>1, <1>8
<1>10. PICK t \in Nat : t = Total(blocks[r], size, i, m)
  <2>1. \A k \in i..m : size[blocks[r][k]] \in Nat
    BY <1>2, <1>8, <1>9
  <2> QED
    BY <1>1, <1>9, <2>1, TotalNat
<1>11. PICK w \in Nat : w = size[blocks[r][x]]
  BY <1>2, <1>8
<1>12. Total(blocks[r], size, i, x) = t + w + Marker
  <2>1. \A k \in i..x : size[blocks[r][k]] \in Nat
    BY <1>2, <1>8
  <2>2. Total(blocks[r], size, i, x) = Total(blocks[r], size, i, m) + size[blocks[r][x]] + Marker
    BY <1>1, <1>9, <2>1, TotalMore, SMTT(30)
  <2> QED
    BY <1>10, <1>11, <2>2
<1>13. Counted(r, i, x) <= my[c].total + size[Here(c)] + Marker
  <2>1. t <= my[c].total
    BY <1>4, <1>9, <1>10 DEF Counted
  <2>2. Here(c) = blocks[r][x]
    BY <1>3, <1>4 DEF Here
  <2>3. t + w + Marker <= my[c].total + w + Marker
    BY <1>1, <2>1
  <2> QED
    BY <1>11, <1>12, <2>2, <2>3 DEF Counted
<1> QED
  BY <1>1, <1>3, <1>4, <1>8, <1>13 DEF RunFits, InList

LEMMA RunDue == ASSUME IInv, FitInv, NEW c \in Cpu, Run(c) PROVE Goes(c)
<1> DEFINE L == [my[c] EXCEPT !.total = @ + size[Here(c)] + Marker, !.idx = @ + 1]
<1>1. /\ my[c] \in Locals /\ my[c].idx \in Nat /\ my[c].idx >= 1 /\ my[c].reg \in 1..Regions
      /\ c \in DOMAIN my /\ pc[c] = "run" /\ my' = [my EXCEPT ![c] = L] /\ pc'[c] = "run"
      /\ my[c].total \in Nat /\ Marker \in Nat
  <2>1. /\ c \in DOMAIN my /\ pc[c] = "run" /\ my' = [my EXCEPT ![c] = L] /\ pc'[c] = "run"
    BY DEF IInv, TypeOK, Run, At, CountBlock
  <2> QED
    BY <2>1, LocalsOf, MemoryNat
<1>2. size[Here(c)] \in Nat
  <2>1. blocks[my[c].reg] \in Seq(Memory) /\ my[c].idx \in 1..Len(blocks[my[c].reg])
    BY <1>1 DEF IInv, TypeOK, Run, InList
  <2>2. Here(c) \in Memory /\ SizeModulus \in Int
    BY <2>1, HeapAssumption, SMTT(30) DEF Here
  <2> QED
    BY <2>2 DEF IInv, TypeOK
<1>3. /\ L \in Locals /\ L.n = my[c].n /\ L.reg = my[c].reg /\ L.idx = my[c].idx + 1
      /\ L.total = my[c].total + size[Here(c)] + Marker /\ L.fit = my[c].fit /\ my'[c] = L
  <2>1. my[c].total + size[Here(c)] + Marker \in Nat /\ my[c].idx + 1 \in Nat
    BY <1>1, <1>2
  <2> QED
    BY <1>1, <2>1 DEF Locals
<1> HIDE DEF L
<1>4. ASSUME NEW r \in 1..Regions, NEW i \in 1..Len(blocks[r]), NEW j \in 1..Len(blocks[r]),
             RunFits(my[c].n, r, i, j), Ahead(my[c], r, i)
      PROVE  Ahead(L, r, i) \/ Counting(L, r, i, j)
  <2>1. i \in Nat /\ j \in Nat /\ i >= 1 /\ i <= j /\ Len(blocks[r]) \in Nat
    BY <1>4 DEF RunFits, IInv, TypeOK
  <2>2. CASE ~(my[c].reg = r /\ my[c].idx = i)
    BY <1>1, <1>3, <1>4, <2>1, <2>2 DEF Ahead
  <2>3. CASE my[c].reg = r /\ my[c].idx = i
    <3>1. size[blocks[r][i]] = size[Here(c)] /\ L.idx - 1 = i
      BY <1>1, <1>3, <2>1, <2>3 DEF Here
    <3>2. \A k \in i..i : size[blocks[r][k]] \in Nat
      BY <1>2, <3>1
    <3>3. PICK m \in Nat : m = i - 1 /\ i <= m + 1 /\ m + 1 = i
      BY <2>1
    <3>4. Total(blocks[r], size, i, m) = 0
      <4>1. \A k \in i..m : size[blocks[r][k]] \in Nat
        BY <3>3
      <4> QED
        BY <1>1, <2>1, <3>3, <4>1, TotalNat
    <3>5. Total(blocks[r], size, i, i) = Total(blocks[r], size, i, m) + size[blocks[r][i]] + Marker
      <4>1. i = m + 1
        BY <3>3
      <4> QED
        BY <1>1, <2>1, <3>2, <3>3, <4>1, TotalMore, SMTT(30)
    <3>6. Counted(r, i, i) = size[Here(c)] + Marker
      <4>1. PICK w \in Nat : w = size[Here(c)]
        BY <1>2
      <4>2. Total(blocks[r], size, i, i) = w + Marker
        BY <1>1, <3>1, <3>4, <3>5, <4>1
      <4> QED
        BY <4>1, <4>2 DEF Counted
    <3> QED
      BY <1>1, <1>2, <1>3, <2>1, <2>3, <3>1, <3>6, SMTT(30) DEF Counting
  <2> QED
    BY <2>2, <2>3
<1>5. ASSUME NEW r \in 1..Regions, NEW i \in 1..Len(blocks[r]), NEW j \in 1..Len(blocks[r]),
             RunFits(my[c].n, r, i, j), Counting(my[c], r, i, j)
      PROVE  Counting(L, r, i, j)
  <2>1. /\ my[c].reg = r /\ my[c].idx \in i..j
        /\ Counted(r, i, my[c].idx) <= my[c].total + size[Here(c)] + Marker
    BY <1>1, <1>5, CountGoesOn DEF Run
  <2>2. L.idx - 1 = my[c].idx /\ i < L.idx /\ L.idx <= j + 1
    BY <1>1, <1>3, <2>1
  <2> QED
    BY <1>3, <2>1, <2>2 DEF Counting
<1>6. RunAhead(my[c]) => RunAhead(L) \/ RunCounted(L)
  BY <1>3, <1>4 DEF RunAhead, RunCounted
<1>7. RunCounted(my[c]) => RunCounted(L)
  BY <1>3, <1>5 DEF RunCounted
<1>8. L.fit => Due("run", L)
  BY <1>1, <1>3, <1>6, <1>7 DEF FitInv, Due
<1> QED
  BY <1>1, <1>3, <1>8 DEF Goes, Label

LEMMA RunTooShortDue == ASSUME IInv, FitInv, NEW c \in Cpu, RunTooShort(c) PROVE Goes(c)
<1>1. my[c] \in Locals /\ pc[c] = "run" /\ pc'[c] = "skip" /\ my' = my
  BY LocalsOf DEF IInv, TypeOK, RunTooShort, At, Goto
<1>2. ~RunCounted(my[c])
  <2> SUFFICES ASSUME NEW r \in 1..Regions, NEW i \in 1..Len(blocks[r]),
                      NEW j \in 1..Len(blocks[r]),
                      RunFits(my[c].n, r, i, j), Counting(my[c], r, i, j)
               PROVE  FALSE
    BY DEF RunCounted
  <2>1. my[c].reg = r /\ Free(r, my[c].idx) /\ InList(c)
    BY <1>1, CountGoesOn DEF RunTooShort
  <2> QED
    BY <2>1 DEF RunTooShort, Free, Here
<1>3. my[c].fit => Due("skip", my[c])
  BY <1>1, <1>2 DEF FitInv, Due
<1> QED
  BY <1>1, <1>3 DEF Goes, Label

LEMMA ExtendDue == ASSUME IInv, NEW c \in Cpu, Extend(c) PROVE Goes(c)
<1>1. PICK r \in 1..Regions : Found(c, freeBase[r]) /\ HasRoom(r, my[c].n)
  BY DEF Extend
<1>2. freeBase[r] \in Memory
  <2>1. my[c].n \in Request /\ my[c].n \in Nat \ {0}
    BY LocalsOf, RequestNat DEF Extend, At, Inside
  <2>2. Needed(my[c].n) \in Nat /\ freeBase[r] \in Nat /\ Base[r] \in Nat /\ Length[r] \in Nat
        /\ Base[r] <= freeBase[r]
    BY <2>1, NeededBounds, HeapAssumption DEF IInv, TypeOK, RegionInv
  <2>3. freeBase[r] \in Base[r] .. (Base[r] + Length[r] - 1)
    BY <1>1, <2>2 DEF HasRoom
  <2> QED
    BY <2>3 DEF Memory
<1>3. my'[c] \in Locals /\ my'[c].block # None /\ pc'[c] = "mark"
  BY <1>1, <1>2, MemoryNat DEF IInv, TypeOK, Locals, Found, Goto
<1> QED
  BY <1>3 DEF Goes, Label, Due

LEMMA MergeDue == ASSUME IInv, NEW c \in Cpu, Merge(c) PROVE Goes(c)
<1>1. my[c].start \in 1..Len(blocks[my[c].reg]) /\ my[c].reg \in 1..Regions
  BY LocalsOf DEF IInv, WalkInv, Merge, At
<1>2. blocks[my[c].reg][my[c].start] \in Memory
  BY <1>1 DEF IInv, TypeOK
<1>3. Found(c, blocks[my[c].reg][my[c].start])
  BY DEF Merge
<1>4. my'[c] \in Locals /\ my'[c].block # None /\ pc'[c] = "mark"
  BY <1>2, <1>3, MemoryNat DEF IInv, TypeOK, Locals, Found, Goto
<1> QED
  BY <1>4 DEF Goes, Label, Due

\* What would do when malloc begins is all ahead of it.
LEMMA MallocDue == ASSUME IInv, NEW c \in Cpu, NEW n \in Request, Malloc(c, n) PROVE Goes(c)
<1> DEFINE L == [NoLocals EXCEPT !.n = n, !.idx = 1, !.fit = Fits(n)]
<1>1. Fits(n) \in BOOLEAN /\ n \in Nat /\ 1 \in 1..Regions
  BY RequestNat, HeapAssumption DEF Fits
<1>2. /\ L.n = n /\ L.reg = 1 /\ L.idx = 1 /\ L.fit = Fits(n) /\ my'[c] = L /\ pc'[c] = "find"
  BY <1>1 DEF NoLocals, Malloc, Goto, IInv, TypeOK
<1>3. L \in Locals
  BY <1>1 DEF NoLocals, Locals
<1> HIDE DEF L
<1>4. \A r \in 1..Regions : \A i \in 1..Len(blocks[r]) : Ahead(L, r, i)
  <2> SUFFICES ASSUME NEW r \in 1..Regions, NEW i \in 1..Len(blocks[r]) PROVE Ahead(L, r, i)
    OBVIOUS
  <2>1. r \in Int /\ i \in Int /\ 1 <= r /\ 1 <= i
    OBVIOUS
  <2> QED
    BY <1>2, <2>1 DEF Ahead
<1>5. ASSUME Fits(n) PROVE BlockAhead(L) \/ Room(L) \/ SomeRun(L)
  <2>1. PICK r \in 1..Regions :
          \/ HasRoom(r, n)
          \/ \E i, j \in 1..Len(blocks[r]) :
               /\ i <= j /\ \A k \in i..j : Free(r, k)
               /\ Counted(r, i, j) >= Needed(n) \/ size[blocks[r][i]] >= n
    BY <1>5 DEF Fits
  <2>2. CASE HasRoom(r, n)
    BY <1>2, <2>2 DEF Room
  <2>3. ASSUME NEW i \in 1..Len(blocks[r]), NEW j \in 1..Len(blocks[r]),
               i <= j, \A k \in i..j : Free(r, k),
               Counted(r, i, j) >= Needed(n) \/ size[blocks[r][i]] >= n
        PROVE  BlockAhead(L) \/ SomeRun(L)
    <3>1. CASE Counted(r, i, j) >= Needed(n)
      BY <1>2, <2>3, <3>1 DEF SomeRun, RunFits
    <3>2. CASE size[blocks[r][i]] >= n
      <4>1. i \in i..j
        BY <2>3
      <4> QED
        BY <1>2, <1>4, <2>3, <3>2, <4>1 DEF BlockAhead, BlockFits
    <3> QED
      BY <2>3, <3>1, <3>2
  <2> QED
    BY <2>1, <2>2, <2>3
<1>6. L.fit => Due("find", L)
  BY <1>2, <1>5 DEF Due
<1> QED
  BY <1>2, <1>3, <1>6 DEF Goes, Label

\* Behind malloc nothing is due.
LEMMA ReturnsDue ==
  ASSUME IInv, NEW c \in Cpu, \/ Mark(c) \/ FreeWrite(c) \/ \E g \in granted : FreeRead(c, g)
  PROVE  Goes(c)
<1>1. pc'[c] \in {"idle", "free"}
  BY DEF Mark, FreeWrite, FreeRead, Return, Goto, At, IInv, TypeOK
<1>2. my'[c] \in Locals
  BY NextIInv DEF IInv, TypeOK, Next, Step
<1> QED
  BY <1>1, <1>2 DEF Goes, Label, Due

LEMMA OwnStepDue ==
  ASSUME IInv, FitInv, NEW c \in Cpu,
         \/ \E n \in Request : Malloc(c, n)
         \/ \E g \in granted : FreeRead(c, g)
         \/ Step(c)
  PROVE  Goes(c)
BY FindPassDue, FindHitDue, NextRegionDue, ExtendDue, NoRoomDue, SkipUsedDue, StartRunDue, RunDue,
   RunTooShortDue, MergeDue, MallocDue, ReturnsDue DEF Step

LEMMA NextNInv == ASSUME NInv, [Next]_vars PROVE NInv'
<1>1. IInv' /\ FreeInv'
  BY NextIInv, FreeStep DEF NInv
<1>2. ASSUME NEW d \in Cpu, my'[d].fit  PROVE Due(pc[d], my[d])'
  <2>1. CASE UNCHANGED vars
    <3>1. Due(pc[d], my[d])
      BY <1>2, <2>1 DEF NInv, FitInv, vars
    <3> QED
      BY <2>1, <3>1 DEF vars, Due, BlockAhead, Room, SomeRun, RunAhead, RunCounted, BlockFits,
         RunFits, Ahead, Counting, Counted, HasRoom, Free
  <2>2. ASSUME NEW c \in Cpu, \/ \E n \in Request : Malloc(c, n)
                              \/ \E g \in granted : FreeRead(c, g)
                              \/ Step(c)
        PROVE  Due(pc[d], my[d])'
    <3>1. PICK l \in Label : l = pc'[d]
      BY <1>1 DEF IInv, TypeOK
    <3>2. PICK L \in Locals : L = my'[d]
      BY <1>1 DEF IInv, TypeOK
    <3>3. Due(l, L)
      <4>1. CASE c = d
        BY <1>2, <2>2, <3>1, <3>2, <4>1, OwnStepDue DEF NInv, Goes
      <4>2. CASE c # d /\ pc[d] \in Inside
        BY <1>2, <2>2, <3>1, <3>2, <4>2, OthersFree DEF NInv, FitInv
      <4>3. CASE c # d /\ pc[d] \notin Inside
        <5>1. l \notin Inside
          BY <2>2, <3>1, <4>3, Others DEF NInv
        <5> QED
          BY <5>1 DEF Due, Inside
      <4> QED
        BY <4>1, <4>2, <4>3
    <3>4. CASE l \in {"find", "extend", "skip", "run"}
      <4>1. UNCHANGED <<blocks, size, freeBase>> /\ used' \subseteq used
        <5>1. CASE c = d
          BY <2>2, <3>1, <3>4, <5>1 DEF NInv, IInv, TypeOK, Step, Malloc, FreeRead, FindPass,
             FindHit, NextRegion, NoRoom, SkipUsed, StartRun, Run, RunTooShort, Mark, Extend,
             Merge, FreeWrite, Found, Return, Goto, At
        <5>2. CASE c # d
          <6>1. pc[d] \in Inside
            BY <2>2, <3>1, <3>4, <5>2, Others DEF NInv, Inside
          <6> QED
            BY <2>2, <5>2, <6>1, OthersFree DEF NInv
        <5> QED
          BY <5>1, <5>2
      <4>2. Due(l, L)'
        BY <3>3, <4>1, DueStays
      <4> QED
        BY <3>1, <3>2, <4>2 DEF Due, BlockAhead, Room, SomeRun, RunAhead, RunCounted, BlockFits,
           RunFits, Ahead, Counting, Counted, HasRoom, Free
    <3>5. CASE l \notin {"find", "extend", "skip", "run"}
      BY <3>1, <3>2, <3>3, <3>5 DEF Due
    <3> QED
      BY <3>4, <3>5
  <2> QED
    BY <2>1, <2>2 DEF Next
<1> QED
  BY <1>1, <1>2 DEF NInv, FitInv

LEMMA InitNInv == Init => NInv
<1> SUFFICES ASSUME Init PROVE NInv
  OBVIOUS
<1>1. \A c \in Cpu : pc[c] = "idle" /\ my[c] = NoLocals
  BY DEF Init
<1> QED
  BY <1>1, InitIInv DEF NInv, FreeInv, FitInv, NoLocals

\* malloc returns NULL only if it had nothing to give when it began, for any CPUs,
\* regions and requests: a block, room or a run that would have done then is
\* still ahead of its walk wherever it is, whatever is freed meanwhile, also
\* where compaction has computed a size it should not have.
THEOREM NullMeansFull == Spec => NullOnlyWhenFull
<1>1. NInv /\ [Next]_vars
        => [\A c \in Cpu : At(c, "mark") /\ my[c].block = None /\ Mark(c) => ~my[c].fit]_vars
  <2> SUFFICES ASSUME NInv, NEW c \in Cpu, At(c, "mark"), my[c].block = None, my[c].fit
               PROVE  FALSE
    OBVIOUS
  <2> QED
    BY DEF NInv, FitInv, Due, At
<1>2. NInv /\ [Next]_vars => NInv'
  <2>1. CASE NInv /\ [Next]_vars
    BY <2>1, NextNInv
  <2> QED
    BY <2>1
<1> QED
  BY <1>1, <1>2, InitNInv, PTL DEF Spec, NullOnlyWhenFull

=============================================================================
