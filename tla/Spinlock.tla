------------------------------ MODULE Spinlock ------------------------------
(***************************************************************************)
(* The spinlock of arch/aarch64/src/os/atomic.S, one instruction a step,   *)
(* on the parts of an ARMv8 CPU it relies on: the exclusive monitor, which *)
(* reserves the lock's word from ldaxr on, and the event register, which   *)
(* wfe waits for.  A store by another CPU clears a reservation, and the    *)
(* loss of one sets the event register; hardware may also clear one for    *)
(* reasons of its own.                                                     *)
(*                                                                         *)
(* Interrupts are masked from acquire to release, so no exception return   *)
(* comes between ldaxr and stxr.                                           *)
(***************************************************************************)
EXTENDS Naturals

CONSTANTS Cpu, None

ASSUME SpinlockAssumption == None \notin Cpu

VARIABLES word,       \* *p
          pc,         \* the instruction c is at; "out" and "in" are the caller's
          seen,       \* seen[c]: w1, the value ldaxr read
          reserved,   \* the CPUs whose monitor is in the exclusive state
          event       \* the CPUs whose event register is set

vars == <<word, pc, seen, reserved, event>>

TypeOK ==
  /\ word \in {0, 1}
  /\ pc \in [Cpu -> {"out", "wfe", "ldaxr", "cbnz", "stxr", "in"}]
  /\ seen \in [Cpu -> {0, 1}]
  /\ reserved \subseteq Cpu
  /\ event \subseteq Cpu

Init ==
  /\ word = 0
  /\ pc = [c \in Cpu |-> "out"]
  /\ seen = [c \in Cpu |-> 0]
  /\ reserved = {}
  /\ event \in SUBSET Cpu

Goto(c, from, to) == pc[c] = from /\ pc' = [pc EXCEPT ![c] = to]

\* c writes the word: all reservations are gone, and the others notice.
Store(c, value) ==
  /\ word' = value
  /\ reserved' = {}
  /\ event' = event \cup (reserved \ {c})

-----------------------------------------------------------------------------

\* Slip: the loop is entered without sevl.
SevlNot(c) ==
  /\ Goto(c, "out", "wfe")
  /\ UNCHANGED <<word, seen, reserved, event>>

\* sevl: the first wfe must not wait.
Sevl(c) ==
  /\ Goto(c, "out", "wfe")
  /\ event' = event \cup {c}
  /\ UNCHANGED <<word, seen, reserved>>

Wfe(c) ==
  /\ c \in event
  /\ Goto(c, "wfe", "ldaxr")
  /\ event' = event \ {c}
  /\ UNCHANGED <<word, seen, reserved>>

\* Slip: an ordinary load.
LdarOnly(c) ==
  /\ Goto(c, "ldaxr", "cbnz")
  /\ seen' = [seen EXCEPT ![c] = word]
  /\ UNCHANGED <<word, reserved, event>>

Ldaxr(c) ==
  /\ Goto(c, "ldaxr", "cbnz")
  /\ seen' = [seen EXCEPT ![c] = word]
  /\ reserved' = reserved \cup {c}
  /\ UNCHANGED <<word, event>>

\* Slip: the value read is ignored.
CbnzNot(c) ==
  /\ Goto(c, "cbnz", "stxr")
  /\ UNCHANGED <<word, seen, reserved, event>>

Cbnz(c) ==
  /\ Goto(c, "cbnz", IF seen[c] # 0 THEN "wfe" ELSE "stxr")
  /\ UNCHANGED <<word, seen, reserved, event>>

\* Slip: an ordinary store.
StrOnly(c) ==
  /\ Goto(c, "stxr", "in")
  /\ Store(c, 1)
  /\ UNCHANGED seen

Stxr(c) ==
  /\ c \in reserved
  /\ Goto(c, "stxr", "in")
  /\ Store(c, 1)
  /\ UNCHANGED seen

\* The store failed: try again, without waiting.
StxrFails(c) ==
  /\ c \notin reserved
  /\ Goto(c, "stxr", "ldaxr")
  /\ UNCHANGED <<word, seen, reserved, event>>

\* atomic32_spinlock_release.
Stlr(c) ==
  /\ Goto(c, "in", "out")
  /\ Store(c, 0)
  /\ UNCHANGED seen

\* The hardware gives a reservation up.
LoseReservation(c) ==
  /\ c \in reserved
  /\ reserved' = reserved \ {c}
  /\ event' = event \cup {c}
  /\ UNCHANGED <<word, pc, seen>>

-----------------------------------------------------------------------------

\* What c does once it has called acquire, and until it has released.
Step(c) == Wfe(c) \/ Ldaxr(c) \/ Cbnz(c) \/ Stxr(c) \/ StxrFails(c) \/ Stlr(c)

Next == \E c \in Cpu : Sevl(c) \/ Step(c) \/ LoseReservation(c)

Spec == Init /\ [][Next]_vars

\* Each CPU goes on executing, and hardware does not for ever take reservations
\* away from a loop as short as this one, which the architecture promises.
FairSpec == /\ Spec
            /\ \A c \in Cpu : WF_vars(Step(c))
            /\ <>[][\A c \in Cpu : ~LoseReservation(c)]_vars

-----------------------------------------------------------------------------
\* Properties

\* The word tells whether the lock is held, and one CPU holds it.
MutualExclusion ==
  /\ word = 1 <=> \E c \in Cpu : pc[c] = "in"
  /\ \A c, d \in Cpu : pc[c] = "in" /\ pc[d] = "in" => c = d

\* No CPU sleeps in wfe before a free lock: the release that freed it, or the
\* sevl, has set its event register.
NoSleepAtFreeLock == \A c \in Cpu : word = 0 /\ pc[c] = "wfe" => c \in event

\* Whenever the lock is free and wanted, somebody gets it.
FreeLockTaken == (word = 0 /\ \E c \in Cpu : pc[c] # "out") ~> word = 1

Holder == IF \E c \in Cpu : pc[c] = "in" THEN CHOOSE c \in Cpu : pc[c] = "in" ELSE None

Lock == INSTANCE Mutex WITH holder <- Holder

\* To the code that takes it, the loop is one step that takes a free lock.
ImplementsMutex == Lock!Spec
=============================================================================
