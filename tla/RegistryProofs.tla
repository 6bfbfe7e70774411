--------------------------- MODULE RegistryProofs ---------------------------
(* Pipes that are created while others are used, for any threads and names:   *)
(* ids and names are as Directory promises, and every pipe is as IpcManager    *)
(* has it, with what is proved of it.                                          *)
EXTENDS PipeRegistry, IpcManagerProofs

\* An id is given to one pipe, listed or about to be appended.
IdInv ==
  /\ \A i, j \in 1..Len(PIPE_LIST) : PIPE_LIST[i].id = PIPE_LIST[j].id => i = j
  /\ \A i \in 1..Len(PIPE_LIST) : PIPE_LIST[i].id < PIPE_ID
  /\ \A t \in Thread : creating[t] # None =>
       /\ creating[t].id < PIPE_ID
       /\ \A i \in 1..Len(PIPE_LIST) : PIPE_LIST[i].id # creating[t].id
  /\ \A t, u \in Thread :
       creating[t] # None /\ creating[u] # None /\ creating[t].id = creating[u].id => t = u

RInv == RegistryTypeOK /\ IdInv

-----------------------------------------------------------------------------
\* The invariant

LEMMA RegistryInitInv == RegistryInit => RInv
<1> SUFFICES ASSUME RegistryInit PROVE RInv
  OBVIOUS
<1>1. RegistryTypeOK
  BY DEF RegistryInit, RegistryTypeOK
<1>2. IdInv
  BY DEF RegistryInit, IdInv
<1> QED
  BY <1>1, <1>2 DEF RInv

LEMMA ListedAre ==
  ASSUME RInv, NEW i \in 1..Len(PIPE_LIST)
  PROVE  /\ PIPE_LIST[i] \in Named /\ PIPE_LIST[i].id \in Pipe /\ PIPE_LIST[i].id \in Nat
<1>1. PIPE_LIST[i] \in Named
  BY DEF RInv, RegistryTypeOK
<1> QED
  BY <1>1, RegistryAssumption DEF Named

LEMMA TakeIdInv ==
  ASSUME RInv, NEW t \in Thread, NEW n \in Name, TakeId(t, n)
  PROVE  RInv'
<1> DEFINE new == [id |-> PIPE_ID, name |-> n]
<1>1. /\ PIPE_LIST' = PIPE_LIST /\ PIPE_ID' = PIPE_ID + 1 /\ found' = found
      /\ creating' = [creating EXCEPT ![t] = new] /\ new \in Named
      /\ creating \in [Thread -> Named \cup {None}] /\ PIPE_ID \in Nat
      /\ PIPE_LIST \in Seq(Named)
  BY DEF TakeId, RInv, RegistryTypeOK, Named
<1>2. RegistryTypeOK'
  BY <1>1 DEF RInv, RegistryTypeOK
<1>3. \A i \in 1..Len(PIPE_LIST) : PIPE_LIST[i].id \in Nat /\ PIPE_LIST[i].id < PIPE_ID
  BY ListedAre DEF RInv, IdInv
<1>4. \A u \in Thread : creating[u] # None => creating[u].id \in Nat /\ creating[u].id < PIPE_ID
  BY <1>1, RegistryAssumption DEF RInv, IdInv, Named
<1>5. creating'[t].id = PIPE_ID /\ \A u \in Thread \ {t} : creating'[u] = creating[u]
  BY <1>1
<1>6. IdInv'
  BY <1>1, <1>3, <1>4, <1>5 DEF RInv, IdInv
<1> QED
  BY <1>2, <1>6 DEF RInv

LEMMA ListAppendInv ==
  ASSUME RInv, NEW t \in Thread, ListAppend(t)
  PROVE  RInv'
<1>1. /\ PIPE_LIST' = Append(PIPE_LIST, creating[t]) /\ PIPE_ID' = PIPE_ID /\ found' = found
      /\ creating' = [creating EXCEPT ![t] = None] /\ creating[t] \in Named
      /\ creating \in [Thread -> Named \cup {None}] /\ creating[t] # None
      /\ PIPE_LIST \in Seq(Named)
  BY DEF ListAppend, RInv, RegistryTypeOK
<1>2. /\ Len(PIPE_LIST') = Len(PIPE_LIST) + 1 /\ PIPE_LIST' \in Seq(Named)
      /\ \A i \in 1..Len(PIPE_LIST) : PIPE_LIST'[i] = PIPE_LIST[i]
      /\ PIPE_LIST'[Len(PIPE_LIST) + 1] = creating[t]
  BY <1>1
<1>3. RegistryTypeOK'
  BY <1>1, <1>2 DEF RInv, RegistryTypeOK
<1>4. /\ creating'[t] = None
      /\ \A u \in Thread \ {t} : creating'[u] = creating[u]
  BY <1>1
<1>5. \A i \in 1..Len(PIPE_LIST') : i \in 1..Len(PIPE_LIST) \/ i = Len(PIPE_LIST) + 1
  BY <1>1, <1>2
<1>6. IdInv'
  BY <1>1, <1>2, <1>4, <1>5 DEF RInv, IdInv
<1> QED
  BY <1>3, <1>6 DEF RInv

LEMMA PipeIdGetInv ==
  ASSUME RInv, NEW t \in Thread, NEW n \in Name, PipeIdGet(t, n)
  PROVE  RInv'
<1>1. PIPE_LIST' = PIPE_LIST /\ PIPE_ID' = PIPE_ID /\ creating' = creating
  BY DEF PipeIdGet, Answer
<1>2. PICK id \in Pipe \cup UnknownId : found' = [found EXCEPT ![t] = id]
  BY ListedAre DEF PipeIdGet, Answer
<1> QED
  BY <1>1, <1>2 DEF RInv, RegistryTypeOK, IdInv

LEMMA RegistryNextInv == RInv /\ [RegistryNext]_allVars => RInv'
<1> SUFFICES ASSUME RInv, [RegistryNext]_allVars PROVE RInv'
  OBVIOUS
<1>1. ASSUME UNCHANGED regVars PROVE RInv'
  BY <1>1 DEF regVars, RInv, RegistryTypeOK, IdInv
<1>2. ASSUME NEW t \in Thread, NEW n \in Name, TakeId(t, n) PROVE RInv'
  BY <1>2, TakeIdInv
<1>3. ASSUME NEW t \in Thread, NEW n \in Name, PipeIdGet(t, n) PROVE RInv'
  BY <1>3, PipeIdGetInv
<1>4. ASSUME NEW t \in Thread, ListAppend(t) PROVE RInv'
  BY <1>4, ListAppendInv
<1>5. ASSUME NEW t \in Thread, UseFound(t) \/ PipeStep(t) PROVE RInv'
  BY <1>5, <1>1 DEF UseFound, PipeStep
<1> QED
  BY <1>1, <1>2, <1>3, <1>4, <1>5 DEF RegistryNext, allVars

LEMMA RegistryAlways == RegistrySpec => []RInv
BY RegistryInitInv, RegistryNextInv, PTL DEF RegistrySpec

-----------------------------------------------------------------------------
\* The pipes

LEMMA StepIsPipes == RInv /\ [RegistryNext]_allVars => [Next]_vars
<1> SUFFICES ASSUME RInv, [RegistryNext]_allVars PROVE [Next]_vars
  OBVIOUS
<1>1. ASSUME UNCHANGED allVars PROVE UNCHANGED vars
  BY <1>1 DEF allVars
<1>2. ASSUME NEW t \in Thread, NEW n \in Name, TakeId(t, n) \/ PipeIdGet(t, n)
      PROVE  UNCHANGED vars
  BY <1>2 DEF TakeId, PipeIdGet, Answer
<1>3. ASSUME NEW t \in Thread, ListAppend(t) PROVE UNCHANGED vars
  BY <1>3 DEF ListAppend
<1>4. ASSUME NEW t \in Thread, UseFound(t) PROVE Next
  <2>1. Listed \subseteq Pipe
    BY ListedAre DEF Listed
  <2>2. PICK id \in Pipe \cup UnknownId :
          (\E m \in Message : PipeWriteCall(t, id, m)) \/ PipeReadCall(t, id)
    BY <1>4, <2>1 DEF UseFound
  <2>3. Call(t)
    BY <1>4, <2>2 DEF UseFound, Runs, Call
  <2> QED
    BY <2>3 DEF Next
<1>5. ASSUME NEW t \in Thread, PipeStep(t) PROVE Next
  BY <1>5 DEF PipeStep, Next
<1> QED
  BY <1>1, <1>2, <1>3, <1>4, <1>5 DEF RegistryNext

\* Creating and finding pipes disturbs no pipe: each does what IpcManager says.
THEOREM PipesAsBefore == RegistrySpec => Spec
<1>1. RegistryInit => Init
  BY DEF RegistryInit
<1> QED
  BY <1>1, StepIsPipes, RegistryAlways, PTL DEF RegistrySpec, Spec

\* So the locks exclude, no wakeup is missed, blocked_by agrees with the lists and every
\* pipe is the queue that PipeChannel describes, whatever is created meanwhile.
THEOREM PipesSafe ==
  RegistrySpec => /\ []LockHeld /\ []NoLostWakeup /\ []BlockedIffWaiting
                  /\ ImplementsChannel
BY PipesAsBefore, LocksExclude, NoWakeupLost, BlockedMeansListed, PipesAreChannels, PTL

-----------------------------------------------------------------------------
\* The directory

LEMMA DirectoryInit == RegistryInit => Names!Init
<1> SUFFICES ASSUME RegistryInit PROVE Names!Init
  OBVIOUS
<1>1. 1..Len(PIPE_LIST) = {} /\ found \in [Thread -> UnknownId]
  BY DEF RegistryInit
<1> QED
  BY <1>1 DEF Names!Init

LEMMA AppendCreates ==
  ASSUME RInv, NEW t \in Thread, ListAppend(t)
  PROVE  Names!Next
<1> DEFINE L == PIPE_LIST
<1>0. PICK K \in Nat : K = Len(L) + 1
  BY DEF RInv, RegistryTypeOK
<1>1. PICK id \in Pipe, n \in Name : creating[t] = [id |-> id, name |-> n]
  BY DEF ListAppend, RInv, RegistryTypeOK, Named
<1> DEFINE new == [id |-> id, name |-> n]
<1>2. /\ L' = Append(L, new) /\ found' = found /\ new \in Named /\ L \in Seq(Named)
      /\ \A i \in 1..Len(L) : L[i].id # id
  BY <1>1 DEF ListAppend, RInv, RegistryTypeOK, IdInv, Named
<1> HIDE DEF new
<1>3. /\ Len(L') = K /\ L'[K] = new
      /\ \A i \in 1..Len(L) : L'[i] = L[i]
      /\ 1..K = 1..Len(L) \cup {K} /\ K \notin 1..Len(L) /\ 1..(K - 1) = 1..Len(L)
  BY <1>0, <1>2
<1>4. new.id = id /\ new.name = n
  BY DEF new
<1>5. {L'[i] : i \in 1..Len(L')} = {L[i] : i \in 1..Len(L)} \cup {new}
  <2>1. ASSUME NEW i \in 1..Len(L')
        PROVE  (i \in 1..Len(L) /\ L'[i] = L[i]) \/ (i = K /\ L'[i] = new)
    <3>1. i \in 1..Len(L) \/ i = K
      BY <1>3
    <3> QED
      BY <1>3, <3>1
  <2>2. ASSUME NEW i \in 1..Len(L) PROVE i \in 1..Len(L') /\ L'[i] = L[i]
    BY <1>3
  <2>3. K \in 1..Len(L') /\ L'[K] = new
    BY <1>3
  <2> QED
    BY <2>1, <2>2, <2>3
<1>6. \A i \in 1..Len(L) : IsFirst(i)' <=> IsFirst(i)
  <2> SUFFICES ASSUME NEW i \in 1..Len(L) PROVE IsFirst(i)' <=> IsFirst(i)
    OBVIOUS
  <2>1. \A j \in 1..(i - 1) : j \in 1..Len(L)
    BY <1>2
  <2> QED
    BY <1>3, <2>1 DEF IsFirst
<1>7. IsFirst(K)' <=> \A i \in 1..Len(L) : L[i].name # n
  BY <1>3, <1>4 DEF IsFirst
<1>8. CASE \E i \in 1..Len(L) : L[i].name = n
  <2>1. {L'[i] : i \in {j \in 1..Len(L') : IsFirst(j)'}}
          = {L[i] : i \in {j \in 1..Len(L) : IsFirst(j)}}
    BY <1>3, <1>6, <1>7, <1>8
  <2>2. Names!Create(id, n)
    BY <1>2, <1>5, <1>8, <2>1 DEF Names!Create, new
  <2> QED
    BY <2>2 DEF Names!Next
<1>9. CASE \A i \in 1..Len(L) : L[i].name # n
  <2>1. {L'[i] : i \in {j \in 1..Len(L') : IsFirst(j)'}}
          = {L[i] : i \in {j \in 1..Len(L) : IsFirst(j)}} \cup {new}
    BY <1>3, <1>6, <1>7, <1>9
  <2>2. Names!Create(id, n)
    BY <1>2, <1>5, <1>9, <2>1 DEF Names!Create, new
  <2> QED
    BY <2>2 DEF Names!Next
<1> QED
  BY <1>8, <1>9

LEMMA QueryAsks ==
  ASSUME RInv, NEW t \in Thread, NEW n \in Name, PipeIdGet(t, n)
  PROVE  Names!Next
<1>1. ASSUME NEW id, Answer(t, id) PROVE Names!Tell(t, id)
  BY <1>1 DEF Answer, Names!Tell, IsFirst
<1>2. ASSUME NEW i \in 1..Len(PIPE_LIST), PIPE_LIST[i].name = n, IsFirst(i),
             Answer(t, PIPE_LIST[i].id)
      PROVE  Names!Ask(t, n)
  BY <1>1, <1>2 DEF Names!Ask
<1>3. ASSUME \A i \in 1..Len(PIPE_LIST) : PIPE_LIST[i].name # n,
             NEW id \in UnknownId, Answer(t, id)
      PROVE  Names!Ask(t, n)
  BY <1>1, <1>3 DEF Names!Ask
<1> QED
  BY <1>2, <1>3 DEF PipeIdGet, Names!Next

LEMMA DirectoryStep == RInv /\ [RegistryNext]_allVars => [Names!Next]_(Names!vars)
<1> SUFFICES ASSUME RInv, [RegistryNext]_allVars
             PROVE  Names!Next \/ UNCHANGED Names!vars
  OBVIOUS
<1>1. ASSUME PIPE_LIST' = PIPE_LIST, found' = found PROVE UNCHANGED Names!vars
  BY <1>1 DEF Names!vars, IsFirst
<1>2. ASSUME NEW t \in Thread, NEW n \in Name, TakeId(t, n) PROVE UNCHANGED Names!vars
  BY <1>1, <1>2 DEF TakeId
<1>3. ASSUME NEW t \in Thread, UseFound(t) \/ PipeStep(t) PROVE UNCHANGED Names!vars
  BY <1>1, <1>3 DEF UseFound, PipeStep, regVars
<1>4. ASSUME UNCHANGED allVars PROVE UNCHANGED Names!vars
  BY <1>1, <1>4 DEF allVars, regVars
<1> QED
  BY <1>2, <1>3, <1>4, AppendCreates, QueryAsks DEF RegistryNext

\* Ids are given once, and a name means one pipe for good, for any threads and names.
THEOREM DirectoryImplemented == RegistrySpec => ImplementsDirectory
BY DirectoryInit, DirectoryStep, RegistryAlways, PTL
   DEF RegistrySpec, ImplementsDirectory, Names!Spec
=============================================================================
