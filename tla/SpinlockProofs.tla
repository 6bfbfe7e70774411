--------------------------- MODULE SpinlockProofs ---------------------------
(* Any number of CPUs: the spinlock excludes, nobody sleeps before a free    *)
(* lock, and the loop implements Mutex.                                      *)
EXTENDS Spinlock, TLAPS

\* A reservation that still stands vouches for the value read: no store came
\* between.  One that is gone has left an event.  So stxr succeeds only on a free
\* lock, and whoever goes to wait has an event pending or a release to come.
Reservations ==
  /\ \A c \in Cpu : pc[c] \in {"cbnz", "stxr"} /\ c \in reserved => seen[c] = word
  /\ \A c \in Cpu : pc[c] = "cbnz" => c \in reserved \cup event
  /\ \A c \in Cpu : pc[c] = "stxr" => seen[c] = 0
  /\ \A c \in Cpu : pc[c] = "wfe" => c \in event \/ (c \in reserved /\ word = 1)

IInv == TypeOK /\ MutualExclusion /\ Reservations

LEMMA InitIInv == Init => IInv
BY DEF Init, IInv, TypeOK, MutualExclusion, Reservations

LEMMA NextIInv == IInv /\ [Next]_vars => IInv'
<1> SUFFICES ASSUME IInv, [Next]_vars
             PROVE  IInv'
  OBVIOUS
<1> USE DEF IInv, TypeOK, MutualExclusion, Reservations, Goto
<1>1. CASE UNCHANGED vars
  BY <1>1 DEF vars
<1>2. ASSUME NEW c \in Cpu, Sevl(c)
      PROVE  IInv'
  BY <1>2 DEF Sevl
<1>3. ASSUME NEW c \in Cpu, Wfe(c)
      PROVE  IInv'
  BY <1>3 DEF Wfe
<1>4. ASSUME NEW c \in Cpu, Ldaxr(c)
      PROVE  IInv'
  BY <1>4 DEF Ldaxr
<1>5. ASSUME NEW c \in Cpu, Cbnz(c)
      PROVE  IInv'
  BY <1>5 DEF Cbnz
<1>6. ASSUME NEW c \in Cpu, Stxr(c)
      PROVE  IInv'
  <2>1. word = 0
    BY <1>6 DEF Stxr
  <2>2. \A d \in Cpu : pc[d] # "in"
    BY <2>1
  <2> QED
    BY <1>6, <2>1, <2>2 DEF Stxr, Store
<1>7. ASSUME NEW c \in Cpu, StxrFails(c)
      PROVE  IInv'
  BY <1>7 DEF StxrFails
<1>8. ASSUME NEW c \in Cpu, Stlr(c)
      PROVE  IInv'
  BY <1>8 DEF Stlr, Store
<1>9. ASSUME NEW c \in Cpu, LoseReservation(c)
      PROVE  IInv'
  BY <1>9 DEF LoseReservation
<1> QED
  BY <1>1, <1>2, <1>3, <1>4, <1>5, <1>6, <1>7, <1>8, <1>9 DEF Next, Step

LEMMA Invariance == Spec => []IInv
BY InitIInv, NextIInv, PTL DEF Spec

\* The values of the word, the registers and the program counters.
THEOREM TypeCorrect == Spec => []TypeOK
BY Invariance, PTL DEF IInv

\* At most one CPU is between acquire and release, and the word says whether one is.
THEOREM Exclusion == Spec => []MutualExclusion
BY Invariance, PTL DEF IInv

\* No wfe waits while the lock is free: no release is missed.
THEOREM NoMissedRelease == Spec => []NoSleepAtFreeLock
<1>1. IInv => NoSleepAtFreeLock
  BY DEF IInv, TypeOK, Reservations, NoSleepAtFreeLock
<1> QED
  BY <1>1, Invariance, PTL

-----------------------------------------------------------------------------

LEMMA HolderIsIn ==
  MutualExclusion => \A c \in Cpu : pc[c] = "in" => Holder = c
BY DEF MutualExclusion, Holder

\* Each instruction of the loop is a step of Mutex or leaves its holder alone.
THEOREM Implementation == Spec => ImplementsMutex
<1>1. Init => Lock!Init
  BY DEF Init, Lock!Init, Holder
<1>2. ASSUME IInv, IInv', [Next]_vars
      PROVE  [Lock!Next]_Holder
  <2> USE <1>2 DEF IInv, TypeOK, Goto
  <2>1. \A c \in Cpu : pc[c] = "in" => Holder = c
    BY HolderIsIn
  <2>2. \A c \in Cpu : pc'[c] = "in" => Holder' = c
    BY DEF MutualExclusion, Holder
  <2>3. (\A c \in Cpu : pc[c] # "in") => Holder = None
    BY DEF Holder
  <2>4. (\A c \in Cpu : pc'[c] # "in") => Holder' = None
    BY DEF Holder
  <2>5. ASSUME NEW c \in Cpu, Stxr(c)
        PROVE  Lock!Acquire(c)
    <3>1. \A d \in Cpu : pc[d] # "in"
      BY <2>5 DEF Stxr, Reservations, MutualExclusion
    <3>2. pc'[c] = "in"
      BY <2>5 DEF Stxr
    <3> QED
      BY <2>2, <2>3, <3>1, <3>2 DEF Lock!Acquire
  <2>6. ASSUME NEW c \in Cpu, Stlr(c)
        PROVE  Lock!Release(c)
    <3>1. pc[c] = "in" /\ \A d \in Cpu : pc'[d] # "in"
      BY <2>6 DEF Stlr, MutualExclusion
    <3> QED
      BY <2>1, <2>4, <3>1 DEF Lock!Release
  <2>7. ASSUME \A d \in Cpu : pc'[d] = "in" <=> pc[d] = "in"
        PROVE  UNCHANGED Holder
    BY <2>1, <2>2, <2>3, <2>4, <2>7
  <2>8. ASSUME NEW c \in Cpu,
               Sevl(c) \/ Wfe(c) \/ Ldaxr(c) \/ Cbnz(c) \/ StxrFails(c)
                 \/ LoseReservation(c)
        PROVE  UNCHANGED Holder
    BY <2>7, <2>8 DEF Sevl, Wfe, Ldaxr, Cbnz, StxrFails, LoseReservation
  <2>9. CASE UNCHANGED vars
    BY <2>7, <2>9 DEF vars
  <2> QED
    BY <2>5, <2>6, <2>8, <2>9 DEF Next, Step, Lock!Next
<1> QED
  BY <1>1, <1>2, Invariance, PTL DEF Spec, ImplementsMutex, Lock!Spec
=============================================================================
