---------------------------- MODULE ConsoleProofs ----------------------------
(* Any applications, sessions and pipe depths: what an application prints is   *)
(* not lost, nor shown again to who attaches once, and what is typed reaches,  *)
(* in order and without the ETX, only applications attached to before.         *)
EXTENDS Console, FiniteSetTheorems, SequenceTheorems, WellFoundedInduction, TLAPS

-----------------------------------------------------------------------------
\* The inductive invariant, in three parts that share little state.

Item == Output \cup {Other}

AuxPc == {"test", "eval", "read", "wait", "write", "again"}

OutTypes ==
  /\ stdout \in Seq(Item)
  /\ shown \in [App -> Seq(Nat)] /\ out \in [App -> Seq(Nat)]
  /\ printed \in [App -> 0 .. MaxPrints]
  /\ aux \in [pc : AuxPc, from : App \cup {None}, held : Item]
  /\ aux.pc \in {"read", "wait", "write"} => aux.from \in App
  /\ Len(stdout) <= Depth /\ \A a \in App : Len(out[a]) <= Depth

ReaderPc == {"poll", "full", "refused"}
MainPc == {"loop", "walk", "found", "echo", "forward"}

KeyTypes ==
  /\ typed \in Session
  /\ reader \in [pc : ReaderPc, taken : 0 .. Len(typed), line : Seq(Nat)]
  /\ stdin \in Seq(Seq(Nat))
  /\ main \in [pc : MainPc, rest : Seq(Nat), junk : BOOLEAN, key : Key, send : Seq(Nat)]
  /\ CLI_MODE \in BOOLEAN /\ MUX \in App \cup {None}
  /\ in \in [App -> Seq(Seq(Nat))] /\ got \in [App -> Seq(Nat)]
  /\ Len(reader.line) <= Buffer /\ Len(stdin) <= Depth
  /\ \A a \in App : Len(in[a]) <= Depth

\* The keys that an application may still be given, and those a was given.
Ahead == ToSet(main.send) \cup Keys(stdin) \cup ToSet(reader.line)

Given(a) == ToSet(got[a]) \cup Keys(in[a])

\* A command to attach to a was typed, before all of them.
Attached(a) == \E k \in 1 .. reader.taken : typed[k] = a /\ Before({k}, Ahead)

\* Every key on its way was typed before those behind it.
FlowInv ==
  /\ Increasing(reader.line) /\ InOrder(stdin) /\ Before(Keys(stdin), ToSet(reader.line))
  /\ Increasing(main.send)
  /\ Before(ToSet(main.send) \cup ToSet(main.rest), Keys(stdin) \cup ToSet(reader.line))
  /\ Ahead \cup ToSet(main.rest) \subseteq 1 .. reader.taken
  /\ \A k \in ToSet(main.send) : typed[k] # "etx"
  /\ \A a \in App : Before(Given(a), Ahead) /\ Given(a) \subseteq 1 .. reader.taken

\* From the walk on, the main thread holds a name that a command attaches to.
AttachInv ==
  /\ main.pc = "walk" => main.key \in App /\ Attached(main.key)
  /\ main.pc \in {"found", "forward"} \/ (main.pc = "loop" /\ ~CLI_MODE) =>
       MUX \in App /\ Attached(MUX)
  /\ main.pc # "forward" => main.send = <<>>

\* A command that attaches was typed and is behind the main thread.
Spent ==
  \E k \in 1 .. reader.taken : typed[k] \in App /\ k \notin ToSet(main.rest) \cup Ahead

\* MUX is cleared under the aux thread only by a second such command.
OnceInv ==
  /\ Increasing(main.rest)
  /\ main.pc = "walk" => MUX = None
  /\ main.pc \in {"walk", "found"} \/ ~CLI_MODE \/ aux.pc # "test" => Spent
  /\ AttachesOnce /\ (~CLI_MODE \/ aux.pc # "test") => MUX # None
  /\ aux.pc = "again" => ~AttachesOnce

\* What is typed, and the main thread.
KeyInv == KeyTypes /\ FlowInv /\ AttachInv /\ KeysInOrder

ListenPc == {"open", "read", "link", "fill", "reply"}

RegTypes ==
  /\ listen \in [pc : ListenPc, from : App \cup {None}, exact : BOOLEAN, zeros : SUBSET Nat]
  /\ request \in Seq(App) /\ MUX_LIST \in Seq(App) /\ filled \subseteq ToSet(MUX_LIST)
  /\ app \in [App -> {"start", "poll", "await", "run"}]
  /\ listen.pc \in {"link", "fill", "reply"} => listen.from \in App

\* An application asks once, and so has one record in the list.
RegInv ==
  /\ RegTypes
  /\ IsInjective(request) /\ IsInjective(MUX_LIST)
  /\ ToSet(request) \cap ToSet(MUX_LIST) = {}
  /\ listen.pc = "link" => listen.from \notin ToSet(request) \cup ToSet(MUX_LIST)
  /\ listen.pc = "fill" => listen.from \in ToSet(MUX_LIST)
  /\ \A a \in App :
       a \in ToSet(request) \cup ToSet(MUX_LIST) \/ (listen.pc = "link" /\ a = listen.from)
         => app[a] \notin {"start", "poll"}

-----------------------------------------------------------------------------
\* Sequences and the keys in them.

LEMMA AppendIs ==
  ASSUME NEW S, NEW s \in Seq(S), NEW e \in S
  PROVE  /\ Append(s, e) \in Seq(S) /\ Len(Append(s, e)) = Len(s) + 1
         /\ DOMAIN s = 1 .. Len(s) /\ DOMAIN Append(s, e) = 1 .. Len(s) + 1 /\ Len(s) \in Nat
         /\ \A i \in 1 .. Len(s) : Append(s, e)[i] = s[i]
         /\ Append(s, e)[Len(s) + 1] = e
         /\ ToSet(Append(s, e)) = ToSet(s) \cup {e}
<1>1. /\ Append(s, e) \in Seq(S) /\ Len(Append(s, e)) = Len(s) + 1
      /\ DOMAIN s = 1 .. Len(s) /\ DOMAIN Append(s, e) = 1 .. Len(s) + 1 /\ Len(s) \in Nat
      /\ \A i \in 1 .. Len(s) : Append(s, e)[i] = s[i]
      /\ Append(s, e)[Len(s) + 1] = e
  BY AppendProperties, LenProperties
<1>2. ToSet(Append(s, e)) = ToSet(s) \cup {e}
  BY <1>1 DEF ToSet
<1> QED
  BY <1>1, <1>2

LEMMA TailIs ==
  ASSUME NEW S, NEW s \in Seq(S), s # <<>>
  PROVE  /\ Head(s) \in S /\ Tail(s) \in Seq(S)
         /\ Len(s) \in Nat \ {0} /\ Len(Tail(s)) = Len(s) - 1
         /\ DOMAIN s = 1 .. Len(s) /\ DOMAIN Tail(s) = 1 .. Len(s) - 1
         /\ Head(s) = s[1] /\ \A i \in 1 .. Len(s) - 1 : Tail(s)[i] = s[i + 1]
         /\ ToSet(s) = {Head(s)} \cup ToSet(Tail(s))
<1>1. /\ Head(s) \in S /\ Tail(s) \in Seq(S)
      /\ Len(s) \in Nat \ {0} /\ Len(Tail(s)) = Len(s) - 1
      /\ DOMAIN s = 1 .. Len(s) /\ DOMAIN Tail(s) = 1 .. Len(s) - 1
      /\ \A i \in 1 .. Len(s) - 1 : Tail(s)[i] = s[i + 1]
  BY HeadTailProperties, LenProperties, EmptySeq
<1>2. Head(s) = s[1]
  OBVIOUS
<1>3. \A i \in 1 .. Len(s) : i = 1 \/ (i - 1 \in 1 .. Len(s) - 1 /\ s[i] = Tail(s)[i - 1])
  BY <1>1
<1>4. ToSet(s) = {Head(s)} \cup ToSet(Tail(s))
  <2>1. ToSet(s) \subseteq {Head(s)} \cup ToSet(Tail(s))
    <3>1. ASSUME NEW i \in 1 .. Len(s) PROVE s[i] \in {Head(s)} \cup ToSet(Tail(s))
      <4>1. CASE i = 1
        BY <4>1, <1>2
      <4>2. CASE i - 1 \in 1 .. Len(s) - 1 /\ s[i] = Tail(s)[i - 1]
        BY <4>2, <1>1 DEF ToSet
      <4> QED
        BY <4>1, <4>2, <1>3
    <3> QED
      BY <1>1, <3>1 DEF ToSet
  <2>2. \A i \in 1 .. Len(s) - 1 : i + 1 \in 1 .. Len(s)
    BY <1>1
  <2>3. 1 \in 1 .. Len(s)
    BY <1>1
  <2>4. {Head(s)} \cup ToSet(Tail(s)) \subseteq ToSet(s)
    BY <1>1, <1>2, <2>2, <2>3 DEF ToSet
  <2> QED
    BY <2>1, <2>4
<1> QED
  BY <1>1, <1>2, <1>4

LEMMA ConcatIs ==
  ASSUME NEW S, NEW s \in Seq(S), NEW t \in Seq(S)
  PROVE  s \o t \in Seq(S) /\ ToSet(s \o t) = ToSet(s) \cup ToSet(t)
<1>1. /\ s \o t \in Seq(S) /\ Len(s) \in Nat /\ Len(t) \in Nat
      /\ DOMAIN s = 1 .. Len(s) /\ DOMAIN t = 1 .. Len(t)
      /\ DOMAIN (s \o t) = 1 .. Len(s) + Len(t)
      /\ \A i \in 1 .. Len(s) + Len(t) :
           (s \o t)[i] = IF i <= Len(s) THEN s[i] ELSE t[i - Len(s)]
  BY ConcatProperties, LenProperties
<1>2. \A i \in 1 .. Len(s) : i \in 1 .. Len(s) + Len(t) /\ (s \o t)[i] = s[i]
  BY <1>1
<1>3. \A i \in 1 .. Len(t) :
        Len(s) + i \in 1 .. Len(s) + Len(t) /\ (s \o t)[Len(s) + i] = t[i]
  BY <1>1
<1>4. \A i \in 1 .. Len(s) + Len(t) :
        i \in 1 .. Len(s) \/ (i - Len(s) \in 1 .. Len(t) /\ (s \o t)[i] = t[i - Len(s)])
  BY <1>1
<1>5. ASSUME NEW x \in ToSet(s) PROVE x \in ToSet(s \o t)
  <2>1. PICK i \in 1 .. Len(s) : x = s[i]
    BY <1>1 DEF ToSet
  <2> QED
    BY <1>1, <1>2, <2>1 DEF ToSet
<1>6. ASSUME NEW x \in ToSet(t) PROVE x \in ToSet(s \o t)
  <2>1. PICK i \in 1 .. Len(t) : x = t[i]
    BY <1>1 DEF ToSet
  <2> QED
    BY <1>1, <1>3, <2>1 DEF ToSet
<1>7. ASSUME NEW x \in ToSet(s \o t) PROVE x \in ToSet(s) \cup ToSet(t)
  <2>1. PICK i \in 1 .. Len(s) + Len(t) : x = (s \o t)[i]
    BY <1>1 DEF ToSet
  <2> QED
    BY <1>1, <1>2, <1>4, <2>1 DEF ToSet
<1> QED
  BY <1>1, <1>5, <1>6, <1>7

LEMMA ToSetType ==
  ASSUME NEW S, NEW s \in Seq(S)
  PROVE  ToSet(s) \subseteq S
BY ElementOfSeq, LenProperties DEF ToSet

LEMMA ToSetEmpty == ToSet(<<>>) = {} /\ Keys(<<>>) = {}
BY DEF ToSet, Keys

LEMMA KeysType ==
  ASSUME NEW pipe \in Seq(Seq(Nat))
  PROVE  Keys(pipe) \subseteq Nat
<1>1. ASSUME NEW line \in ToSet(pipe) PROVE ToSet(line) \subseteq Nat
  BY ToSetType, <1>1
<1> QED
  BY <1>1 DEF Keys

LEMMA KeysAppend ==
  ASSUME NEW pipe \in Seq(Seq(Nat)), NEW line \in Seq(Nat)
  PROVE  Keys(Append(pipe, line)) = Keys(pipe) \cup ToSet(line)
BY AppendIs DEF Keys

LEMMA KeysTail ==
  ASSUME NEW pipe \in Seq(Seq(Nat)), pipe # <<>>
  PROVE  Keys(pipe) = ToSet(Head(pipe)) \cup Keys(Tail(pipe))
BY TailIs DEF Keys

LEMMA KeysOf ==
  ASSUME NEW pipe, NEW i \in DOMAIN pipe
  PROVE  pipe[i] \in ToSet(pipe) /\ ToSet(pipe[i]) \subseteq Keys(pipe)
BY DEF ToSet, Keys

\* Order, and what keeps it.

LEMMA IncreasingAppend ==
  ASSUME NEW line \in Seq(Nat), NEW k \in Nat, Increasing(line), Before(ToSet(line), {k})
  PROVE  Increasing(Append(line, k))
<1>1. \A i \in 1 .. Len(line) : line[i] < k
  BY AppendIs DEF Before, ToSet
<1> QED
  BY <1>1, AppendIs DEF Increasing

LEMMA IncreasingConcat ==
  ASSUME NEW s \in Seq(Nat), NEW t \in Seq(Nat), Increasing(s), Increasing(t),
         Before(ToSet(s), ToSet(t))
  PROVE  Increasing(s \o t)
<1>1. PICK m \in Nat, n \in Nat :
        /\ DOMAIN s = 1 .. m /\ DOMAIN t = 1 .. n /\ DOMAIN (s \o t) = 1 .. m + n
        /\ \A i \in 1 .. m + n : (s \o t)[i] = IF i <= m THEN s[i] ELSE t[i - m]
  <2>1. /\ Len(s) \in Nat /\ Len(t) \in Nat /\ DOMAIN s = 1 .. Len(s) /\ DOMAIN t = 1 .. Len(t)
        /\ DOMAIN (s \o t) = 1 .. Len(s) + Len(t)
        /\ \A i \in 1 .. Len(s) + Len(t) :
             (s \o t)[i] = IF i <= Len(s) THEN s[i] ELSE t[i - Len(s)]
    BY ConcatProperties, LenProperties
  <2> QED
    BY <2>1
<1>2. SUFFICES ASSUME NEW i \in 1 .. m + n, NEW j \in 1 .. m + n, i < j
               PROVE  (s \o t)[i] < (s \o t)[j]
  BY <1>1 DEF Increasing
<1>3. CASE j <= m
  <2>1. i \in 1 .. m /\ j \in 1 .. m /\ (s \o t)[i] = s[i] /\ (s \o t)[j] = s[j]
    BY <1>1, <1>2, <1>3
  <2> QED
    BY <1>1, <1>2, <2>1 DEF Increasing
<1>4. CASE i <= m /\ ~(j <= m)
  <2>1. i \in 1 .. m /\ j - m \in 1 .. n /\ (s \o t)[i] = s[i] /\ (s \o t)[j] = t[j - m]
    BY <1>1, <1>2, <1>4
  <2>2. s[i] \in ToSet(s) /\ t[j - m] \in ToSet(t)
    BY <1>1, <2>1 DEF ToSet
  <2> QED
    BY <2>1, <2>2 DEF Before
<1>5. CASE ~(i <= m)
  <2>1. /\ i - m \in 1 .. n /\ j - m \in 1 .. n /\ i - m < j - m
        /\ (s \o t)[i] = t[i - m] /\ (s \o t)[j] = t[j - m]
    <3>1. i - m \in 1 .. n /\ j - m \in 1 .. n /\ i - m < j - m /\ ~(j <= m)
      BY <1>2, <1>5
    <3> QED
      BY <1>1, <1>2, <1>5, <3>1
  <2> QED
    BY <1>1, <2>1 DEF Increasing
<1> QED
  BY <1>3, <1>4, <1>5

LEMMA InOrderAppend ==
  ASSUME NEW pipe \in Seq(Seq(Nat)), NEW line \in Seq(Nat), InOrder(pipe),
         Increasing(line), Before(Keys(pipe), ToSet(line))
  PROVE  InOrder(Append(pipe, line))
<1>1. \A i \in 1 .. Len(pipe) : Before(ToSet(pipe[i]), ToSet(line))
  BY KeysOf, AppendIs DEF Before
<1> QED
  BY <1>1, AppendIs DEF InOrder

LEMMA InOrderTail ==
  ASSUME NEW pipe \in Seq(Seq(Nat)), pipe # <<>>, InOrder(pipe)
  PROVE  /\ Increasing(Head(pipe)) /\ InOrder(Tail(pipe))
         /\ Before(ToSet(Head(pipe)), Keys(Tail(pipe)))
<1>1. Increasing(Head(pipe)) /\ InOrder(Tail(pipe))
  <2>1. \A line \in ToSet(pipe) : Increasing(line)
    BY DEF InOrder
  <2>2. ToSet(pipe) = {Head(pipe)} \cup ToSet(Tail(pipe))
    BY TailIs
  <2>3. ASSUME NEW i \in DOMAIN Tail(pipe), NEW j \in DOMAIN Tail(pipe), i < j
        PROVE  Before(ToSet(Tail(pipe)[i]), ToSet(Tail(pipe)[j]))
    <3>1. /\ i \in 1 .. Len(pipe) - 1 /\ j \in 1 .. Len(pipe) - 1 /\ Len(pipe) \in Nat
          /\ DOMAIN pipe = 1 .. Len(pipe)
          /\ Tail(pipe)[i] = pipe[i + 1] /\ Tail(pipe)[j] = pipe[j + 1]
      BY TailIs
    <3>2. i + 1 \in DOMAIN pipe /\ j + 1 \in DOMAIN pipe /\ i + 1 < j + 1
      BY <2>3, <3>1
    <3> QED
      BY <3>1, <3>2 DEF InOrder
  <2> QED
    BY <2>1, <2>2, <2>3 DEF InOrder
<1>2. \A line \in ToSet(Tail(pipe)) : Before(ToSet(Head(pipe)), ToSet(line))
  <2>1. PICK n \in Nat : n = Len(pipe) - 1 /\ DOMAIN pipe = 1 .. n + 1 /\ DOMAIN Tail(pipe) = 1 .. n
    <3>1. Len(pipe) \in Nat \ {0} /\ DOMAIN pipe = 1 .. Len(pipe)
          /\ DOMAIN Tail(pipe) = 1 .. Len(pipe) - 1
      BY TailIs
    <3>2. Len(pipe) - 1 \in Nat /\ Len(pipe) - 1 + 1 = Len(pipe)
      BY <3>1
    <3> QED
      BY <3>1, <3>2
  <2>2. \A i \in 1 .. n : Before(ToSet(Head(pipe)), ToSet(Tail(pipe)[i]))
    <3>1. \A i \in 1 .. n : i + 1 \in 1 .. n + 1 /\ 1 \in 1 .. n + 1 /\ 1 < i + 1
      OBVIOUS
    <3>2. Head(pipe) = pipe[1] /\ \A i \in 1 .. n : Tail(pipe)[i] = pipe[i + 1]
      BY <2>1, TailIs
    <3> QED
      BY <2>1, <3>1, <3>2 DEF InOrder
  <2>3. ToSet(Tail(pipe)) = {Tail(pipe)[i] : i \in 1 .. n}
    BY <2>1 DEF ToSet
  <2> QED
    BY <2>2, <2>3
<1> QED
  BY <1>1, <1>2 DEF Before, Keys

LEMMA OrderEmpty == Increasing(<<>>) /\ InOrder(<<>>)
BY DEF Increasing, InOrder, ToSet

-----------------------------------------------------------------------------
\* What is printed.

LEMMA ItemIs ==
  /\ Other \in Item /\ \A a \in App : Other[1] # a
  /\ \A item \in Item : /\ item[1] \in App \cup {None} /\ item[2] \in Nat
                        /\ item[1] \in App => item[2] >= 1
                        /\ item[1] \notin App => item = Other
  /\ \A a \in App, n \in 1 .. MaxPrints :
       <<a, n>> \in Item /\ <<a, n>>[1] = a /\ <<a, n>>[2] = n
BY ConsoleAssumption DEF Item, Other, Output

\* a's outputs in s are those after m up to n, in order, g apart, and m itself
\* only if repetitions are allowed (g = 0).
Passing(s, a, m, n, g) ==
  /\ \A i \in DOMAIN s : s[i][1] = a => s[i][2] \in m + g .. n
  /\ \A k \in m + 1 .. n : \E i \in DOMAIN s : s[i][1] = a /\ s[i][2] = k
  /\ \A i, j \in DOMAIN s : s[i][1] = a /\ s[j][1] = a /\ i < j => s[i][2] + g <= s[j][2]

LEMMA PassingEmpty ==
  ASSUME NEW a, NEW m \in Nat, NEW g
  PROVE  Passing(<<>>, a, m, m, g)
BY DEF Passing

LEMMA PassingAppend ==
  ASSUME NEW s \in Seq(Item), NEW item \in Item, NEW a, NEW m \in Nat, NEW n \in Nat,
         NEW g \in {0, 1}, m <= n, Passing(s, a, m, n, g)
  PROVE  /\ item[1] # a => Passing(Append(s, item), a, m, n, g)
         /\ item[1] = a /\ item[2] = n + 1 => Passing(Append(s, item), a, m, n + 1, g)
         /\ item[1] = a /\ item[2] = n /\ g = 0 => Passing(Append(s, item), a, m, n, g)
<1>1. PICK l \in Nat :
        /\ DOMAIN s = 1 .. l /\ DOMAIN Append(s, item) = 1 .. l + 1
        /\ \A i \in 1 .. l : Append(s, item)[i] = s[i]
        /\ Append(s, item)[l + 1] = item
  BY AppendIs
<1>2. ASSUME item[1] # a PROVE Passing(Append(s, item), a, m, n, g)
  BY <1>1, <1>2 DEF Passing
<1>3. ASSUME NEW h \in Nat, n <= h, n + g <= h, h <= n + 1, item[1] = a, item[2] = h
      PROVE  Passing(Append(s, item), a, m, h, g)
  <2>1. \A i \in 1 .. l + 1 : i \in 1 .. l \/ i = l + 1
    BY <1>1
  <2>2. \A i \in 1 .. l : s[i][1] = a => s[i][2] \in m + g .. n
    BY <1>1 DEF Passing
  <2>3. ASSUME NEW i \in 1 .. l + 1, Append(s, item)[i][1] = a
        PROVE  Append(s, item)[i][2] \in m + g .. h
    <3>1. CASE i \in 1 .. l
      BY <1>1, <1>3, <2>2, <2>3, <3>1
    <3>2. CASE i = l + 1
      BY <1>1, <1>3, <3>2
    <3> QED
      BY <2>1, <3>1, <3>2
  <2>4. ASSUME NEW k \in m + 1 .. h
        PROVE  \E i \in 1 .. l + 1 : Append(s, item)[i][1] = a /\ Append(s, item)[i][2] = k
    <3>1. CASE k = h
      BY <1>1, <1>3, <3>1
    <3>2. CASE k \in m + 1 .. n
      BY <1>1, <3>2 DEF Passing
    <3>3. k = h \/ k \in m + 1 .. n
      BY <1>3
    <3> QED
      BY <3>1, <3>2, <3>3
  <2>5. ASSUME NEW i \in 1 .. l + 1, NEW j \in 1 .. l + 1, i < j,
               Append(s, item)[i][1] = a, Append(s, item)[j][1] = a
        PROVE  Append(s, item)[i][2] + g <= Append(s, item)[j][2]
    <3>1. i \in 1 .. l
      BY <2>5, <1>1
    <3>2. CASE j = l + 1
      <4>1. s[i][2] \in m + g .. n /\ Append(s, item)[i] = s[i] /\ Append(s, item)[j][2] = h
        BY <1>1, <1>3, <2>2, <2>5, <3>1, <3>2
      <4> QED
        BY <4>1, <1>3
    <3>3. CASE j \in 1 .. l
      BY <1>1, <2>5, <3>1, <3>3 DEF Passing
    <3> QED
      BY <2>1, <3>2, <3>3
  <2> QED
    BY <1>1, <2>3, <2>4, <2>5 DEF Passing
<1>4. n + 1 \in Nat /\ n <= n + 1 /\ n + g <= n + 1 /\ (g = 0 => n + g <= n)
  OBVIOUS
<1> QED
  BY <1>2, <1>3, <1>4

LEMMA PassingTail ==
  ASSUME NEW s \in Seq(Item), s # <<>>, NEW a, NEW m \in Nat, NEW n \in Nat,
         NEW g \in {0, 1}, m <= n, Passing(s, a, m, n, g)
  PROVE  /\ Head(s)[1] # a => Passing(Tail(s), a, m, n, g)
         /\ Head(s)[1] = a =>
              \/ Head(s)[2] = m + 1 /\ m + 1 <= n /\ Passing(Tail(s), a, m + 1, n, g)
              \/ Head(s)[2] = m /\ g = 0 /\ Passing(Tail(s), a, m, n, g)
<1>1. PICK l \in Nat :
        /\ DOMAIN s = 1 .. l + 1 /\ DOMAIN Tail(s) = 1 .. l
        /\ Head(s) = s[1] /\ Head(s) \in Item
        /\ \A i \in 1 .. l : Tail(s)[i] = s[i + 1]
  <2>1. Len(s) - 1 \in Nat /\ Len(s) - 1 + 1 = Len(s)
    BY TailIs
  <2> QED
    BY <2>1, TailIs
<1>2. \A i \in 1 .. l : i + 1 \in 1 .. l + 1
  OBVIOUS
<1>3. \A i \in 1 .. l + 1 : i = 1 \/ (i - 1 \in 1 .. l /\ Tail(s)[i - 1] = s[i])
  BY <1>1
<1>4. /\ \A i \in 1 .. l + 1 : s[i][1] = a => s[i][2] \in m + g .. n
      /\ \A k \in m + 1 .. n : \E i \in 1 .. l + 1 : s[i][1] = a /\ s[i][2] = k
      /\ \A i, j \in 1 .. l + 1 : s[i][1] = a /\ s[j][1] = a /\ i < j => s[i][2] + g <= s[j][2]
  BY <1>1 DEF Passing
<1>5. \A i, j \in 1 .. l :
        Tail(s)[i][1] = a /\ Tail(s)[j][1] = a /\ i < j => Tail(s)[i][2] + g <= Tail(s)[j][2]
  BY <1>1, <1>2, <1>4
\* What is left is in order, and has what the head is not.
<1>6. ASSUME NEW h \in m .. n, Head(s)[1] = a => Head(s)[2] = h, Head(s)[1] # a => h = m
      PROVE  Passing(Tail(s), a, h, n, g)
  <2>1. ASSUME NEW j \in 1 .. l, Tail(s)[j][1] = a  PROVE  Tail(s)[j][2] \in h + g .. n
    <3>1. j + 1 \in 1 .. l + 1 /\ 1 \in 1 .. l + 1 /\ 1 < j + 1 /\ Tail(s)[j] = s[j + 1]
      BY <1>1, <1>2
    <3>2. s[j + 1][2] \in m + g .. n
      BY <1>4, <2>1, <3>1
    <3>3. CASE Head(s)[1] = a
      <4>1. s[1][2] + g <= s[j + 1][2] /\ s[1][2] = h
        BY <1>1, <1>4, <1>6, <2>1, <3>1, <3>3
      <4>2. PICK x \in m + g .. n : x = s[j + 1][2]
        BY <3>2
      <4>3. x \in h + g .. n
        BY <4>1, <4>2
      <4> QED
        BY <3>1, <4>2, <4>3
    <3>4. CASE Head(s)[1] # a
      BY <1>6, <3>1, <3>2, <3>4
    <3> QED
      BY <3>3, <3>4
  <2>2. ASSUME NEW k \in h + 1 .. n
        PROVE  \E j \in 1 .. l : Tail(s)[j][1] = a /\ Tail(s)[j][2] = k
    <3>1. k \in m + 1 .. n /\ k # h
      OBVIOUS
    <3>2. PICK j \in 1 .. l + 1 : s[j][1] = a /\ s[j][2] = k
      BY <1>4, <3>1
    <3>3. j # 1
      BY <1>1, <1>6, <3>1, <3>2
    <3> QED
      BY <1>3, <3>2, <3>3
  <2> QED
    BY <1>1, <1>5, <2>1, <2>2 DEF Passing
<1>7. ASSUME Head(s)[1] = a
      PROVE  Head(s)[2] \in m + g .. n /\ Head(s)[2] <= m + 1
  <2>1. 1 \in 1 .. l + 1 /\ s[1][1] = a /\ s[1][2] \in m + g .. n
    BY <1>1, <1>4, <1>7
  <2>2. CASE m + 1 <= n
    <3>1. PICK i \in 1 .. l + 1 : s[i][1] = a /\ s[i][2] = m + 1
      BY <1>4, <2>2
    <3>2. CASE i = 1
      BY <1>1, <2>1, <3>1, <3>2
    <3>3. CASE 1 < i
      <4>1. s[1][2] + g <= m + 1
        BY <1>4, <2>1, <3>1, <3>3
      <4> QED
        BY <1>1, <2>1, <4>1
    <3> QED
      BY <3>2, <3>3
  <2>3. CASE ~(m + 1 <= n)
    BY <1>1, <2>1, <2>3
  <2> QED
    BY <2>2, <2>3
<1>8. ASSUME Head(s)[1] # a PROVE Passing(Tail(s), a, m, n, g)
  <2>1. m \in m .. n
    OBVIOUS
  <2> QED
    BY <1>6, <1>8, <2>1
<1>9. ASSUME Head(s)[1] = a
      PROVE  \/ Head(s)[2] = m + 1 /\ m + 1 <= n /\ Passing(Tail(s), a, m + 1, n, g)
             \/ Head(s)[2] = m /\ g = 0 /\ Passing(Tail(s), a, m, n, g)
  <2>1. PICK h \in m .. n : Head(s)[2] = h /\ h <= m + 1 /\ m + g <= h
    BY <1>7, <1>9
  <2>2. Passing(Tail(s), a, h, n, g)
    BY <1>6, <1>9, <2>1
  <2>3. (h = m + 1 /\ m + 1 <= n) \/ (h = m /\ g = 0)
    BY <2>1
  <2> QED
    BY <2>1, <2>2, <2>3
<1> QED
  BY <1>8, <1>9

LEMMA PassingIs ==
  ASSUME NEW s, NEW a, NEW m, NEW n, NEW g, Passing(s, a, m, n, g)
  PROVE  LET mine == {i \in DOMAIN s : s[i][1] = a} IN
           /\ m + 1 .. n \subseteq {s[i][2] : i \in mine}
           /\ {s[i][2] : i \in mine} \subseteq m + g .. n
           /\ \A i, j \in mine : i < j => s[i][2] + g <= s[j][2]
<1> DEFINE mine == {i \in DOMAIN s : s[i][1] = a}
<1>1. ASSUME NEW k \in m + 1 .. n PROVE k \in {s[i][2] : i \in mine}
  BY DEF Passing
<1>2. {s[i][2] : i \in mine} \subseteq m + g .. n
  BY DEF Passing
<1> QED
  BY <1>1, <1>2 DEF Passing

\* s tells of the outputs up to m, in order, g apart.
Told(s, m, g) ==
  /\ ToSet(s) = 1 .. m
  /\ \A i, j \in DOMAIN s : i < j => s[i] + g <= s[j]

LEMMA ToldEmpty == \A g : Told(<<>>, 0, g)
BY ToSetEmpty DEF Told

LEMMA ToldAppend ==
  ASSUME NEW s \in Seq(Nat), NEW m \in Nat, NEW g \in {0, 1}, NEW k \in Nat \ {0},
         Told(s, m, g), k = m + 1 \/ (k = m /\ g = 0)
  PROVE  Append(s, k) \in Seq(Nat) /\ Told(Append(s, k), k, g)
<1>1. PICK l \in Nat :
        /\ DOMAIN s = 1 .. l /\ DOMAIN Append(s, k) = 1 .. l + 1 /\ Append(s, k) \in Seq(Nat)
        /\ \A i \in 1 .. l : Append(s, k)[i] = s[i]
        /\ Append(s, k)[l + 1] = k /\ ToSet(Append(s, k)) = ToSet(s) \cup {k}
  BY AppendIs
<1>2. ToSet(Append(s, k)) = 1 .. k
  <2>1. k \in Nat /\ 1 <= k
    OBVIOUS
  <2>2. (1 .. m) \cup {k} = 1 .. k
    BY <2>1
  <2> QED
    BY <1>1, <2>2 DEF Told
<1>3. \A i \in 1 .. l : s[i] \in 1 .. m
  BY <1>1 DEF Told, ToSet
<1>4. ASSUME NEW i \in 1 .. l + 1, NEW j \in 1 .. l + 1, i < j
      PROVE  Append(s, k)[i] + g <= Append(s, k)[j]
  <2>1. i \in 1 .. l
    BY <1>1, <1>4
  <2>2. CASE j = l + 1
    <3>1. Append(s, k)[i] = s[i] /\ s[i] \in 1 .. m /\ Append(s, k)[j] = k
      BY <1>1, <1>3, <2>1, <2>2
    <3> QED
      BY <3>1
  <2>3. CASE j \in 1 .. l
    BY <1>1, <1>4, <2>1, <2>3 DEF Told
  <2> QED
    BY <1>1, <2>2, <2>3
<1> QED
  BY <1>1, <1>2, <1>4 DEF Told

\* The numbers after m, in order.
Run(s, m) == \A i \in 1 .. Len(s) : s[i] = m + i

LEMMA RunIs ==
  ASSUME NEW s \in Seq(Nat), NEW m \in Nat, Run(s, m)
  PROVE  s = [i \in 1 .. Len(s) |-> m + i]
<1>1. s = [i \in 1 .. Len(s) |-> s[i]] /\ Len(s) \in Nat
  BY LenProperties
<1> QED
  BY <1>1 DEF Run

LEMMA RunEmpty == \A m : Run(<<>>, m)
BY DEF Run

LEMMA RunAppend ==
  ASSUME NEW s \in Seq(Nat), NEW m \in Nat, NEW k, k = m + Len(s) + 1, Run(s, m)
  PROVE  Append(s, k) \in Seq(Nat) /\ Run(Append(s, k), m) /\ Len(Append(s, k)) = Len(s) + 1
<1>1. k \in Nat /\ Len(s) \in Nat
  BY LenProperties
<1>2. PICK l \in Nat : l = Len(s)
  BY <1>1
<1>3. \A i \in 1 .. l + 1 : i \in 1 .. l \/ i = l + 1
  OBVIOUS
<1> QED
  BY <1>1, <1>2, <1>3, AppendIs DEF Run

LEMMA RunTail ==
  ASSUME NEW s \in Seq(Nat), s # <<>>, NEW m \in Nat, Run(s, m)
  PROVE  /\ Tail(s) \in Seq(Nat) /\ Head(s) = m + 1 /\ Run(Tail(s), m + 1)
         /\ Len(Tail(s)) = Len(s) - 1 /\ Len(s) \in Nat \ {0}
<1>1. /\ Tail(s) \in Seq(Nat) /\ Len(s) \in Nat \ {0} /\ Len(Tail(s)) = Len(s) - 1
      /\ Head(s) = s[1] /\ \A i \in 1 .. Len(s) - 1 : Tail(s)[i] = s[i + 1]
  BY TailIs
<1>2. Head(s) = m + 1
  BY <1>1 DEF Run
<1>3. \A i \in 1 .. Len(s) - 1 : i + 1 \in 1 .. Len(s) /\ m + (i + 1) = m + 1 + i
  BY <1>1
<1> QED
  BY <1>1, <1>2, <1>3 DEF Run

\* OutputConserved, of one application of which the messages up to seen are shown.
Shown(a, seen) ==
  /\ Told(shown[a], seen, Gap)
  /\ seen <= Sent(a)
  /\ Passing(stdout, a, seen, Sent(a), Gap)

Conserved(a) ==
  /\ \E seen \in Nat : Shown(a, seen)
  /\ Sent(a) \in Nat
  /\ aux.held[1] = a => aux.held[2] = Taken(a)
  /\ Run(out[a], Taken(a)) /\ Taken(a) \in Nat

\* What is printed, and the aux thread.
OutInv == OutTypes /\ \A a \in App : Conserved(a)

LEMMA Shift ==
  ASSUME NEW p \in Nat, NEW q \in Nat
  PROVE  p - (q - 1) = (p - q) + 1 /\ (p + 1) - (q + 1) = p - q
OBVIOUS

LEMMA GapIs == Gap \in {0, 1} /\ (~AttachesOnce => Gap = 0)
BY DEF Gap

LEMMA SameGap ==
  ASSUME typed' = typed
  PROVE  Gap' = Gap /\ (AttachesOnce' <=> AttachesOnce)
BY DEF Gap, AttachesOnce

LEMMA ConservedIs ==
  ASSUME OutInv
  PROVE  OutputConserved
<1> SUFFICES ASSUME NEW a \in App
             PROVE  \E seen \in 0 .. Sent(a) :
                      LET passing == {stdout[i][2] : i \in Mine(a)} IN
                      /\ ToSet(shown[a]) = 1 .. seen
                      /\ \A i, j \in DOMAIN shown[a] : i < j => shown[a][i] + Gap <= shown[a][j]
                      /\ seen + 1 .. Sent(a) \subseteq passing
                      /\ passing \subseteq seen + Gap .. Sent(a)
                      /\ \A i, j \in Mine(a) : i < j => stdout[i][2] + Gap <= stdout[j][2]
                      /\ aux.held[1] = a => aux.held[2] = Taken(a)
                      /\ out[a] = [i \in 1 .. Len(out[a]) |-> Taken(a) + i]
  BY DEF OutputConserved
<1>1. out[a] \in Seq(Nat) /\ Conserved(a)
  BY DEF OutInv, OutTypes
<1>2. PICK seen \in Nat : Shown(a, seen)
  BY <1>1 DEF Conserved
<1>3. seen \in 0 .. Sent(a)
  BY <1>1, <1>2 DEF Conserved, Shown
<1>4. /\ seen + 1 .. Sent(a) \subseteq {stdout[i][2] : i \in Mine(a)}
      /\ {stdout[i][2] : i \in Mine(a)} \subseteq seen + Gap .. Sent(a)
      /\ \A i, j \in Mine(a) : i < j => stdout[i][2] + Gap <= stdout[j][2]
  BY <1>2, PassingIs DEF Mine, Shown
<1>5. out[a] = [i \in 1 .. Len(out[a]) |-> Taken(a) + i]
  BY <1>1, RunIs DEF Conserved
<1> QED
  BY <1>1, <1>2, <1>3, <1>4, <1>5 DEF Conserved, Shown, Told

LEMMA OutInit == Init => OutInv
<1> SUFFICES ASSUME Init PROVE OutInv
  OBVIOUS
<1>1. OutTypes
  BY ItemIs, ConsoleAssumption DEF Init, OutTypes, AuxPc
<1>2. ASSUME NEW a \in App PROVE Conserved(a)
  <2>1. /\ shown[a] = <<>> /\ out[a] = <<>> /\ printed[a] = 0 /\ stdout = <<>>
        /\ aux.held[1] # a /\ aux.pc = "test"
    BY ItemIs DEF Init
  <2>2. Len(out[a]) = 0
    BY <2>1, EmptySeq
  <2>3. Taken(a) = 0
    <3>1. Taken(a) = 0 - 0
      BY <2>1, <2>2 DEF Taken
    <3> QED
      BY <3>1
  <2>4. Sent(a) = 0
    BY <2>1, <2>3 DEF Sent
  <2>5. Shown(a, 0)
    BY <2>1, <2>4, ToldEmpty, PassingEmpty DEF Shown
  <2> QED
    BY <2>1, <2>3, <2>4, <2>5, RunEmpty DEF Conserved
<1> QED
  BY <1>1, <1>2 DEF OutInv

LEMMA OutFacts ==
  ASSUME OutInv, NEW a \in App
  PROVE  /\ Conserved(a)
         /\ shown[a] \in Seq(Nat)
         /\ out[a] \in Seq(Nat) /\ Len(out[a]) \in Nat
         /\ printed[a] \in Nat /\ Sent(a) \in Nat /\ Taken(a) \in Nat
         /\ Taken(a) = printed[a] - Len(out[a])
         /\ Sent(a) = IF aux.pc = "write" /\ aux.held[1] = a THEN Taken(a) - 1 ELSE Taken(a)
<1>1. shown[a] \in Seq(Nat) /\ out[a] \in Seq(Nat) /\ printed[a] \in Nat /\ Conserved(a)
  BY ConsoleAssumption DEF OutInv, OutTypes
<1> QED
  BY <1>1, LenProperties DEF Conserved, Sent, Taken

\* A step that leaves what is shown and what is on its way there.
LEMMA KeepsShown ==
  ASSUME NEW a \in App, Conserved(a), UNCHANGED <<typed, stdout>>, shown'[a] = shown[a],
         Sent(a)' = Sent(a)
  PROVE  (\E seen \in Nat : Shown(a, seen))'
BY SameGap DEF Conserved, Shown

\* A step that leaves the pipes and what the aux thread holds.
LEMMA KeepsConserved ==
  ASSUME OutInv, UNCHANGED <<typed, stdout, shown, out, printed>>, aux'.held = aux.held,
         aux'.pc = "write" <=> aux.pc = "write"
  PROVE  \A a \in App : Conserved(a)'
<1> SUFFICES ASSUME NEW a \in App PROVE Conserved(a)'
  OBVIOUS
<1>1. Taken(a)' = Taken(a) /\ Sent(a)' = Sent(a)
  BY DEF Taken, Sent
<1> QED
  BY <1>1, OutFacts, KeepsShown DEF Conserved

LEMMA DisplayKeepsOut ==
  ASSUME OutInv, Display
  PROVE  OutInv'
<1>1. /\ stdout # <<>> /\ stdout' = Tail(stdout) /\ UNCHANGED <<typed, out, printed, aux>>
      /\ shown' = IF Head(stdout)[1] = None THEN shown
                  ELSE [shown EXCEPT ![Head(stdout)[1]] = Append(@, Head(stdout)[2])]
  BY DEF Display, appVars
<1>2. /\ stdout \in Seq(Item) /\ Head(stdout) \in Item /\ Tail(stdout) \in Seq(Item)
      /\ Len(Tail(stdout)) = Len(stdout) - 1 /\ Len(stdout) \in Nat
  BY <1>1, TailIs DEF OutInv, OutTypes
<1>3. /\ Gap' = Gap /\ Gap \in {0, 1}
      /\ \A a \in App : Sent(a)' = Sent(a) /\ Taken(a)' = Taken(a)
  BY <1>1, SameGap, GapIs DEF Sent, Taken
<1>4. ASSUME NEW a \in App PROVE shown'[a] \in Seq(Nat) /\ Conserved(a)'
  <2>1. PICK seen \in Nat : Shown(a, seen)
    BY OutFacts DEF Conserved
  <2>. PICK k : k = Head(stdout)[2]
    OBVIOUS
  <2>2. PICK n \in Nat, g \in {0, 1} : n = Sent(a) /\ g = Gap
    BY <1>3, OutFacts
  <2>3. seen <= n /\ Told(shown[a], seen, g) /\ Passing(stdout, a, seen, n, g)
    BY <2>1, <2>2 DEF Shown
  <2>4. CASE Head(stdout)[1] = a
    <3>1. shown'[a] = Append(shown[a], k)
      BY <1>1, <2>4, ConsoleAssumption DEF OutInv, OutTypes
    <3>2. \/ k = seen + 1 /\ seen + 1 <= n /\ Passing(Tail(stdout), a, seen + 1, n, g)
          \/ k = seen /\ g = 0 /\ Passing(Tail(stdout), a, seen, n, g)
      BY <1>1, <1>2, <2>2, <2>3, <2>4, PassingTail
    <3>3. k \in Nat \ {0}
      <4>1. k \in Nat /\ k >= 1
        BY <1>2, <2>4, ItemIs
      <4> QED
        BY <4>1
    <3>4. k <= n /\ Passing(Tail(stdout), a, k, n, g) /\ (k = seen + 1 \/ (k = seen /\ g = 0))
      BY <2>3, <3>2
    <3>5. shown'[a] \in Seq(Nat) /\ Told(shown'[a], k, g)
      BY <2>3, <3>1, <3>3, <3>4, OutFacts, ToldAppend
    <3>6. Shown(a, k)'
      BY <1>1, <1>3, <2>2, <3>4, <3>5 DEF Shown
    <3> QED
      BY <1>1, <1>3, <3>3, <3>5, <3>6, OutFacts DEF Conserved
  <2>5. CASE Head(stdout)[1] # a
    <3>1. shown'[a] = shown[a]
      BY <1>1, <2>5 DEF OutInv, OutTypes
    <3>2. Passing(Tail(stdout), a, seen, n, g)
      BY <1>1, <1>2, <2>3, <2>5, PassingTail
    <3>3. Shown(a, seen)'
      BY <1>1, <1>3, <2>2, <2>3, <3>1, <3>2 DEF Shown
    <3> QED
      BY <1>1, <1>3, <2>1, <3>1, <3>3, OutFacts DEF Conserved
  <2> QED
    BY <2>4, <2>5
<1>5. shown' \in [App -> Seq(Nat)]
  <2>1. shown' = [a \in App |-> shown'[a]]
    BY <1>1 DEF OutInv, OutTypes
  <2> QED
    BY <1>4, <2>1
<1>6. Len(stdout') <= Depth
  BY <1>1, <1>2, ConsoleAssumption DEF OutInv, OutTypes
<1> QED
  BY <1>1, <1>2, <1>4, <1>5, <1>6 DEF OutInv, OutTypes

\* What is no application's output may go to "stdout" at any time.
LEMMA AppendOther ==
  ASSUME OutInv, UNCHANGED <<typed, shown, out, printed>>, aux'.held = aux.held,
         aux'.pc = "write" <=> aux.pc = "write", HasRoom(stdout), stdout' = Append(stdout, Other)
  PROVE  /\ stdout' \in Seq(Item) /\ Len(stdout') <= Depth
         /\ \A a \in App : Conserved(a)'
<1>1. stdout \in Seq(Item) /\ stdout' \in Seq(Item) /\ Len(stdout') = Len(stdout) + 1
      /\ Len(stdout) \in Nat
  BY AppendIs, ItemIs DEF OutInv, OutTypes
<1>2. /\ Gap' = Gap /\ Gap \in {0, 1}
      /\ \A a \in App : Sent(a)' = Sent(a) /\ Taken(a)' = Taken(a)
  BY SameGap, GapIs DEF Sent, Taken
<1>3. ASSUME NEW a \in App PROVE Conserved(a)'
  <2>1. PICK seen \in Nat : Shown(a, seen)
    BY OutFacts DEF Conserved
  <2>2. Passing(stdout', a, seen, Sent(a), Gap)
    BY <1>1, <1>2, <2>1, OutFacts, PassingAppend, ItemIs DEF Shown
  <2>3. Shown(a, seen)'
    BY <1>2, <2>1, <2>2 DEF Shown
  <2> QED
    BY <1>2, <2>3, OutFacts DEF Conserved
<1>4. Len(stdout') <= Depth
  BY <1>1, ConsoleAssumption DEF HasRoom
<1> QED
  BY <1>1, <1>3, <1>4

LEMMA EchoKeepsOut ==
  ASSUME OutInv, CommandEcho
  PROVE  OutInv'
<1>1. /\ HasRoom(stdout) /\ stdout' = Append(stdout, Other)
      /\ UNCHANGED <<typed, shown, out, printed, aux>>
  BY DEF CommandEcho, ioVars, appVars
<1> QED
  BY <1>1, AppendOther DEF OutInv, OutTypes

LEMMA LookKeepsOut ==
  ASSUME OutInv, MUX \in App \cup {None}, AuxTest \/ AuxEval
  PROVE  OutInv'
<1>1. /\ UNCHANGED <<typed, stdout, shown, out, printed>> /\ aux'.held = aux.held
      /\ aux.pc # "write" /\ aux'.pc # "write"
  BY DEF AuxTest, AuxEval, AuxGoes, ioVars, appVars, OutInv, OutTypes
<1>2. /\ aux' \in [pc : AuxPc, from : App \cup {None}, held : Item]
      /\ aux'.pc \in {"read", "wait", "write"} => aux'.from \in App
  BY DEF AuxTest, AuxEval, AuxGoes, OutInv, OutTypes, AuxPc
<1> QED
  BY <1>1, <1>2, KeepsConserved DEF OutInv, OutTypes

LEMMA AuxReadKeepsOut ==
  ASSUME OutInv, AuxRead
  PROVE  OutInv'
<1>1. /\ aux.pc = "read" /\ aux.from \in App
      /\ UNCHANGED <<typed, stdout, shown, printed>>
  BY DEF AuxRead, ioVars, OutInv, OutTypes
<1>2. CASE out[aux.from] = <<>>
  <2>1. aux' = [aux EXCEPT !.pc = "wait"] /\ out' = out
    BY <1>2 DEF AuxRead, AuxGoes
  <2>2. /\ aux' \in [pc : AuxPc, from : App \cup {None}, held : Item]
        /\ aux'.from \in App /\ aux'.held = aux.held /\ aux'.pc = "wait"
    BY <1>1, <2>1 DEF OutInv, OutTypes, AuxPc
  <2> QED
    BY <1>1, <2>1, <2>2, KeepsConserved DEF OutInv, OutTypes
<1>3. CASE out[aux.from] # <<>>
  <2>. PICK a \in App : a = aux.from
    BY <1>1
  <2>1. PICK k : k = Head(out[a])
    OBVIOUS
  <2>2. /\ aux' = [aux EXCEPT !.pc = "write", !.held = <<a, k>>]
        /\ out' = [out EXCEPT ![a] = Tail(@)] /\ out[a] # <<>>
    BY <1>3, <2>1 DEF AuxRead
  <2>3. /\ Tail(out[a]) \in Seq(Nat) /\ k = Taken(a) + 1 /\ Run(Tail(out[a]), Taken(a) + 1)
        /\ Len(Tail(out[a])) = Len(out[a]) - 1 /\ Len(out[a]) \in Nat \ {0}
    BY <2>1, <2>2, OutFacts, RunTail DEF Conserved
  <2>4. printed[a] \in 0 .. MaxPrints /\ k \in 1 .. MaxPrints
    <3>1. printed[a] \in 0 .. MaxPrints
      BY DEF OutInv, OutTypes
    <3>2. printed[a] \in Nat /\ MaxPrints \in Nat /\ printed[a] <= MaxPrints
      BY <3>1, ConsoleAssumption
    <3>3. Len(out[a]) \in Nat \ {0} /\ Taken(a) = printed[a] - Len(out[a]) /\ Taken(a) \in Nat
      BY <2>3, OutFacts
    <3> QED
      BY <2>3, <3>1, <3>2, <3>3
  <2>5. <<a, k>> \in Item
    BY <2>4, ItemIs
  <2>6. /\ aux' \in [pc : AuxPc, from : App \cup {None}, held : Item]
        /\ aux'.from = a /\ aux'.held = <<a, k>> /\ aux'.pc = "write"
    BY <1>1, <2>1, <2>2, <2>5 DEF OutInv, OutTypes, AuxPc
  <2>7. /\ out' \in [App -> Seq(Nat)] /\ out'[a] = Tail(out[a])
        /\ \A b \in App : b # a => out'[b] = out[b]
    BY <2>2, <2>3 DEF OutInv, OutTypes
  <2>8. \A b \in App : Len(out'[b]) <= Depth
    <3>1. Len(out[a]) <= Depth
      BY DEF OutInv, OutTypes
    <3>2. Len(out'[a]) <= Depth
      BY <2>3, <2>7, <3>1, ConsoleAssumption
    <3> QED
      BY <2>7, <3>2 DEF OutInv, OutTypes
  <2>9. ASSUME NEW b \in App PROVE Conserved(b)'
    <3>1. CASE b = a
      <4>1. Taken(a)' = Taken(a) + 1
        <5>1. Taken(a)' = printed[a] - (Len(out[a]) - 1)
          BY <1>1, <2>3, <2>7 DEF Taken
        <5>2. PICK p \in Nat, q \in Nat :
                p = printed[a] /\ q = Len(out[a]) /\ Taken(a) = p - q
          BY OutFacts
        <5> QED
          BY <5>1, <5>2, Shift
      <4>2. Sent(a) = Taken(a)
        BY <1>1, OutFacts
      <4>3. Sent(a)' = Sent(a)
        BY <2>6, <4>1, <4>2, OutFacts DEF Sent
      <4>4. aux'.held[2] = Taken(a)'
        BY <2>3, <2>4, <2>6, <4>1, ItemIs
      <4>5. Run(out'[a], Taken(a)') /\ Taken(a)' \in Nat
        BY <2>3, <2>7, <4>1, OutFacts
      <4> QED
        BY <1>1, <3>1, <4>3, <4>4, <4>5, OutFacts, KeepsShown DEF Conserved
    <3>2. CASE b # a
      <4>1. /\ out'[b] = out[b] /\ printed'[b] = printed[b]
            /\ aux'.held[1] # b /\ aux.pc # "write"
        BY <1>1, <2>6, <2>7, <3>2, ItemIs
      <4>2. Taken(b)' = Taken(b) /\ Sent(b)' = Sent(b)
        BY <4>1 DEF Taken, Sent
      <4> QED
        BY <1>1, <4>1, <4>2, OutFacts, KeepsShown DEF Conserved
    <3> QED
      BY <3>1, <3>2
  <2> QED
    BY <1>1, <2>6, <2>7, <2>8, <2>9 DEF OutInv, OutTypes
<1> QED
  BY <1>2, <1>3

LEMMA AuxWriteKeepsOut ==
  ASSUME OutInv, aux.pc = "again" => ~AttachesOnce, AuxWrite \/ AuxWriteAgain
  PROVE  OutInv'
<1>1. /\ aux.pc \in {"write", "again"} /\ aux' = [aux EXCEPT !.pc = "test"]
      /\ UNCHANGED <<typed, shown, out, printed>>
      /\ \/ HasRoom(stdout) /\ stdout' = Append(stdout, aux.held)
         \/ aux.held = Other /\ stdout' = stdout /\ aux.pc = "again"
  BY DEF AuxWrite, AuxWriteOnce, AuxWriteAgain, AuxGoes, ioVars, appVars
<1>2. /\ aux.held \in Item /\ aux'.held = aux.held /\ aux'.pc = "test"
      /\ aux' \in [pc : AuxPc, from : App \cup {None}, held : Item]
  BY <1>1 DEF OutInv, OutTypes, AuxPc
<1>3. CASE stdout' = stdout /\ aux.pc = "again"
  BY <1>1, <1>2, <1>3, KeepsConserved DEF OutInv, OutTypes
<1>4. CASE HasRoom(stdout) /\ stdout' = Append(stdout, aux.held)
  <2>1. /\ stdout \in Seq(Item) /\ stdout' \in Seq(Item) /\ Len(stdout') = Len(stdout) + 1
        /\ Len(stdout) \in Nat
    BY <1>2, <1>4, AppendIs DEF OutInv, OutTypes
  <2>2. Gap' = Gap /\ Gap \in {0, 1} /\ (aux.pc = "again" => Gap = 0)
    BY <1>1, SameGap, GapIs
  <2>3. ASSUME NEW a \in App PROVE Conserved(a)'
    <3>1. Taken(a)' = Taken(a) /\ Sent(a)' = Taken(a)
      BY <1>1, <1>2 DEF Taken, Sent
    <3>2. PICK seen \in Nat : Shown(a, seen)
      BY OutFacts DEF Conserved
    <3>3. /\ Sent(a) <= Taken(a)
          /\ IF aux.held[1] # a THEN Taken(a) = Sent(a)
             ELSE \/ aux.held[2] = Sent(a) + 1 /\ Taken(a) = Sent(a) + 1
                  \/ aux.held[2] = Sent(a) /\ Taken(a) = Sent(a) /\ Gap = 0
      BY <1>1, <2>2, OutFacts DEF Conserved
    <3>4. Passing(stdout', a, seen, Taken(a), Gap)
      BY <1>2, <1>4, <2>1, <2>2, <3>2, <3>3, OutFacts, PassingAppend DEF Shown
    <3>5. seen <= Taken(a)
      BY <3>2, <3>3, OutFacts DEF Shown
    <3>6. Shown(a, seen)'
      BY <1>1, <2>2, <3>1, <3>2, <3>4, <3>5 DEF Shown
    <3> QED
      BY <1>1, <1>2, <3>1, <3>6, OutFacts DEF Conserved
  <2>4. Len(stdout') <= Depth
    BY <1>4, <2>1, ConsoleAssumption DEF HasRoom
  <2> QED
    BY <1>1, <1>2, <2>1, <2>3, <2>4 DEF OutInv, OutTypes
<1> QED
  BY <1>1, <1>3, <1>4

LEMMA PrintKeepsOut ==
  ASSUME OutInv, NEW a \in App, AppPrint(a)
  PROVE  OutInv'
<1>1. /\ printed[a] < MaxPrints /\ HasRoom(out[a])
      /\ printed' = [printed EXCEPT ![a] = @ + 1]
      /\ out' = [out EXCEPT ![a] = Append(@, printed[a] + 1)]
      /\ aux' = [aux EXCEPT !.pc = IF @ = "wait" /\ aux.from = a THEN "eval" ELSE @]
      /\ UNCHANGED <<typed, stdout, shown>>
  BY DEF AppPrint, ioVars
<1>2. /\ aux' \in [pc : AuxPc, from : App \cup {None}, held : Item]
      /\ aux'.held = aux.held /\ aux'.from = aux.from
      /\ aux'.pc = aux.pc \/ (aux'.pc = "eval" /\ aux.pc = "wait")
  BY <1>1 DEF OutInv, OutTypes, AuxPc
<1>3. printed[a] + 1 = Taken(a) + Len(out[a]) + 1
  BY OutFacts
<1>4. /\ Append(out[a], printed[a] + 1) \in Seq(Nat)
      /\ Run(Append(out[a], printed[a] + 1), Taken(a))
      /\ Len(Append(out[a], printed[a] + 1)) = Len(out[a]) + 1
  BY <1>3, OutFacts, RunAppend DEF Conserved
<1>5. /\ out' \in [App -> Seq(Nat)] /\ out'[a] = Append(out[a], printed[a] + 1)
      /\ \A b \in App : b # a => out'[b] = out[b]
  BY <1>1, <1>4 DEF OutInv, OutTypes
<1>6. /\ printed' \in [App -> 0 .. MaxPrints] /\ printed'[a] = printed[a] + 1
      /\ \A b \in App : b # a => printed'[b] = printed[b]
  BY <1>1, OutFacts, ConsoleAssumption DEF OutInv, OutTypes
<1>7. \A b \in App : Len(out'[b]) <= Depth
  <2>1. Len(out'[a]) <= Depth
    BY <1>1, <1>4, <1>5, OutFacts, ConsoleAssumption DEF HasRoom
  <2> QED
    BY <1>5, <2>1 DEF OutInv, OutTypes
<1>8. ASSUME NEW b \in App PROVE Conserved(b)'
  <2>1. Taken(b)' = Taken(b)
    <3>1. CASE b = a
      <4>1. Taken(b)' = (printed[a] + 1) - (Len(out[a]) + 1)
        BY <1>4, <1>5, <1>6, <3>1 DEF Taken
      <4> QED
        BY <3>1, <4>1, OutFacts, Shift
    <3>2. CASE b # a
      BY <1>5, <1>6, <3>2 DEF Taken
    <3> QED
      BY <3>1, <3>2
  <2>2. Sent(b)' = Sent(b)
    BY <1>2, <2>1 DEF Sent
  <2>3. Run(out'[b], Taken(b))
    BY <1>4, <1>5, OutFacts DEF Conserved
  <2> QED
    BY <1>1, <1>2, <2>1, <2>2, <2>3, OutFacts, KeepsShown DEF Conserved
<1> QED
  BY <1>1, <1>2, <1>5, <1>6, <1>7, <1>8 DEF OutInv, OutTypes

-----------------------------------------------------------------------------
\* What is typed.

LEMMA MinIs ==
  ASSUME NEW S \in SUBSET Nat, S # {}
  PROVE  Min(S) \in S /\ \A y \in S : Min(S) <= y
<1> DEFINE T == {0 .. x : x \in S}
<1>1. T \subseteq FiniteSubsetsOf(Nat)
  <2> SUFFICES ASSUME NEW x \in S PROVE 0 .. x \in FiniteSubsetsOf(Nat)
    OBVIOUS
  <2>1. 0 \in Int /\ x \in Int /\ 0 .. x \subseteq Nat
    OBVIOUS
  <2> QED
    BY <2>1, FS_Interval DEF FiniteSubsetsOf
<1>2. PICK X \in T : \A Y \in T : ~(<<Y, X>> \in StrictSubsetOrdering(Nat))
  <2>1. T # {}
    OBVIOUS
  <2> HIDE DEF T
  <2> QED
    BY <1>1, <2>1, FS_StrictSubsetOrderingWellFounded, WFMin
<1>3. PICK x \in S : X = 0 .. x
  OBVIOUS
<1>4. ASSUME NEW y \in S PROVE x <= y
  <2>1. 0 .. y \in T /\ x \in Nat /\ y \in Nat
    OBVIOUS
  <2>2. ~(0 .. y \subseteq 0 .. x /\ 0 .. y # 0 .. x)
    <3>1. 0 .. y \in SUBSET Nat /\ 0 .. x \in SUBSET Nat
      BY <2>1
    <3>2. ~(<<0 .. y, 0 .. x>> \in StrictSubsetOrdering(Nat))
      BY <1>2, <1>3, <2>1
    <3> HIDE DEF T
    <3> QED
      BY <3>1, <3>2 DEF StrictSubsetOrdering
  <2>3. y < x => 0 .. y \subseteq 0 .. x /\ x \in 0 .. x /\ x \notin 0 .. y
    BY <2>1
  <2> QED
    BY <2>1, <2>2, <2>3
<1> QED
  BY <1>4 DEF Min

\* The part before the ETX is a line of keys that are none.
LEMMA UpToEtxIs ==
  ASSUME NEW line \in Seq(Nat)
  PROVE  /\ UpToEtx(line) \in Seq(Nat) /\ ToSet(UpToEtx(line)) \subseteq ToSet(line)
         /\ Increasing(line) => Increasing(UpToEtx(line))
         /\ \A k \in ToSet(UpToEtx(line)) : typed[k] # "etx"
<1>1. DOMAIN line = 1 .. Len(line) /\ Len(line) \in Nat
  BY LenProperties
<1>2. CASE Position(line) = {}
  BY <1>2, <1>1 DEF UpToEtx, Position, ToSet
<1>3. CASE Position(line) # {}
  <2>1. PICK m \in 1 .. Len(line) :
          m = Min(Position(line)) /\ \A i \in Position(line) : m <= i
    <3>1. Position(line) \in SUBSET Nat
      BY <1>1 DEF Position
    <3>2. Min(Position(line)) \in Position(line) /\ \A i \in Position(line) : Min(Position(line)) <= i
      BY <1>3, <3>1, MinIs
    <3>3. Min(Position(line)) \in 1 .. Len(line)
      BY <1>1, <3>2 DEF Position
    <3> QED
      BY <3>2, <3>3
  <2>2. /\ UpToEtx(line) \in Seq(Nat) /\ Len(UpToEtx(line)) = m - 1
        /\ \A i \in 1 .. m - 1 : UpToEtx(line)[i] = line[i]
    <3>1. UpToEtx(line) = SubSeq(line, 1, m - 1)
      BY <1>3, <2>1 DEF UpToEtx
    <3>2. \A i \in 1 .. m - 1 : line[i] \in Nat
      BY ElementOfSeq, <1>1
    <3>3. 1 \in Int /\ m - 1 \in Int /\ (m - 1) - 1 + 1 = m - 1
          /\ (IF 1 <= m - 1 THEN (m - 1) - 1 + 1 ELSE 0) = m - 1
      BY <1>1
    <3>4. /\ SubSeq(line, 1, m - 1) \in Seq(Nat)
          /\ Len(SubSeq(line, 1, m - 1)) = m - 1
          /\ \A i \in 1 .. m - 1 : SubSeq(line, 1, m - 1)[i] = line[1 + i - 1]
      BY <3>2, <3>3, SubSeqProperties
    <3> QED
      BY <3>1, <3>4
  <2>3. DOMAIN UpToEtx(line) = 1 .. m - 1 /\ \A i \in 1 .. m - 1 : i \in DOMAIN line /\ i < m
    BY <1>1, <2>2, LenProperties
  <2>4. \A i \in 1 .. m - 1 : typed[line[i]] # "etx"
    <3> SUFFICES ASSUME NEW i \in 1 .. m - 1, i \in Position(line) PROVE FALSE
      BY <2>3 DEF Position
    <3> QED
      BY <2>1
  <2> QED
    BY <2>2, <2>3, <2>4 DEF ToSet, Increasing
<1> QED
  BY <1>2, <1>3

LEMMA KeyInit == Init => KeyInv
<1> SUFFICES ASSUME Init PROVE KeyInv
  OBVIOUS
<1>1. /\ reader.line = <<>> /\ reader.taken = 0 /\ stdin = <<>> /\ main.rest = <<>>
      /\ main.send = <<>> /\ main.pc = "loop" /\ CLI_MODE
      /\ \A a \in App : got[a] = <<>> /\ in[a] = <<>>
  BY DEF Init
<1>2. typed \in Seq(Key) /\ Len(typed) \in Nat
  BY SessionAssumption, LenProperties DEF Init
<1>3. KeyTypes
  BY <1>2, ConsoleAssumption DEF Init, KeyTypes, ReaderPc, MainPc, Key
<1>4. \A a \in App : Given(a) = {}
  BY <1>1, ToSetEmpty DEF Given
<1>5. Ahead = {} /\ ToSet(main.rest) = {} /\ ToSet(main.send) = {} /\ Keys(stdin) = {}
  BY <1>1, ToSetEmpty DEF Ahead
<1>6. FlowInv
  BY <1>1, <1>4, <1>5, OrderEmpty, ToSetEmpty DEF FlowInv, Before
<1>7. AttachInv
  BY <1>1 DEF AttachInv
<1>8. KeysInOrder
  BY <1>1, OrderEmpty, ToSetEmpty DEF KeysInOrder, Before
<1> QED
  BY <1>3, <1>6, <1>7, <1>8 DEF KeyInv

LEMMA KeyFacts ==
  ASSUME KeyInv
  PROVE  /\ typed \in Seq(Key) /\ Len(typed) \in Nat /\ DOMAIN typed = 1 .. Len(typed)
         /\ reader.taken \in Nat /\ reader.line \in Seq(Nat) /\ reader.pc \in ReaderPc
         /\ ToSet(reader.line) \subseteq Nat /\ Keys(stdin) \subseteq Nat
         /\ ToSet(main.send) \subseteq Nat /\ ToSet(main.rest) \subseteq Nat
         /\ Ahead \subseteq Nat
         /\ \A a \in App : /\ in[a] \in Seq(Seq(Nat)) /\ got[a] \in Seq(Nat)
                           /\ ToSet(got[a]) \subseteq Nat /\ Keys(in[a]) \subseteq Nat
<1>1. typed \in Seq(Key)
  BY SessionAssumption DEF KeyInv, KeyTypes
<1>2. Len(typed) \in Nat /\ DOMAIN typed = 1 .. Len(typed)
  BY <1>1, LenProperties
<1>3. /\ reader.taken \in Nat /\ reader.line \in Seq(Nat) /\ reader.pc \in ReaderPc
      /\ main.send \in Seq(Nat) /\ main.rest \in Seq(Nat) /\ stdin \in Seq(Seq(Nat))
      /\ \A a \in App : in[a] \in Seq(Seq(Nat)) /\ got[a] \in Seq(Nat)
  BY <1>2 DEF KeyInv, KeyTypes
<1> QED
  BY <1>1, <1>2, <1>3, ToSetType, KeysType DEF Ahead

\* A command stays before the keys to come.
LEMMA KeepsAttached ==
  ASSUME KeyInv, typed' = typed, reader'.taken \in Nat, reader.taken <= reader'.taken,
         \A k \in Ahead' : k \in Ahead \/ (k \in Nat /\ reader.taken < k),
         NEW a, Attached(a)
  PROVE  Attached(a)'
<1>1. PICK k \in 1 .. reader.taken : typed[k] = a /\ Before({k}, Ahead)
  BY DEF Attached
<1>2. k \in 1 .. reader'.taken /\ reader.taken \in Nat
  BY KeyFacts
<1>3. \A j \in Ahead' : k < j
  BY <1>1, <1>2 DEF Before
<1> QED
  BY <1>1, <1>2, <1>3 DEF Attached, Before

LEMMA ReadKeyKeepsKeys ==
  ASSUME KeyInv, ReadKey
  PROVE  KeyInv'
<1>. PICK k : k = reader.taken + 1
  OBVIOUS
<1>1. /\ reader.pc = "poll" /\ reader.taken < Len(typed) /\ Len(reader.line) < Buffer
      /\ reader' = [reader EXCEPT !.taken = k, !.line = Append(@, k)]
      /\ UNCHANGED <<typed, stdin, main, CLI_MODE, MUX, in, got>>
  BY DEF ReadKey, cliVars, appVars
<1>2. k \in Nat /\ k <= Len(typed) /\ reader.taken < k
  BY <1>1, KeyFacts
<1>3. /\ Append(reader.line, k) \in Seq(Nat)
      /\ Len(Append(reader.line, k)) = Len(reader.line) + 1 /\ Len(reader.line) \in Nat
      /\ ToSet(Append(reader.line, k)) = ToSet(reader.line) \cup {k}
  BY <1>2, KeyFacts, AppendIs
<1>4. /\ reader'.taken = k /\ reader'.line = Append(reader.line, k) /\ reader'.pc = "poll"
      /\ reader' = [pc |-> "poll", taken |-> k, line |-> Append(reader.line, k)]
  BY <1>1 DEF KeyInv, KeyTypes
<1>5. /\ reader' \in [pc : ReaderPc, taken : 0 .. Len(typed), line : Seq(Nat)]
      /\ Len(reader'.line) <= Buffer
  <2>1. Len(reader'.line) <= Buffer
    BY <1>1, <1>3, <1>4, ConsoleAssumption
  <2>2. k \in 0 .. Len(typed)
    BY <1>2, KeyFacts
  <2> QED
    BY <1>3, <1>4, <2>1, <2>2 DEF ReaderPc
<1>6. KeyTypes'
  BY <1>1, <1>5 DEF KeyInv, KeyTypes
<1>7. Ahead' = Ahead \cup {k}
  BY <1>1, <1>3, <1>4 DEF Ahead
<1>8. \A j \in Ahead \cup ToSet(main.rest) : j \in Nat /\ j < k
  BY <1>2, KeyFacts DEF KeyInv, FlowInv
<1>9. \A a \in App : Given(a)' = Given(a) /\ \A j \in Given(a) : j \in Nat /\ j < k
  <2>1. \A j \in 1 .. reader.taken : j \in Nat /\ j < k
    BY <1>2, KeyFacts
  <2> QED
    BY <1>1, <2>1 DEF KeyInv, FlowInv, Given
<1>10. FlowInv'
  <2>1. Increasing(reader'.line)
    BY <1>2, <1>3, <1>8, <1>4, KeyFacts, IncreasingAppend DEF KeyInv, FlowInv, Before, Ahead
  <2>2. Ahead' \cup ToSet(main'.rest) \subseteq 1 .. reader'.taken
    BY <1>1, <1>2, <1>4, <1>7, <1>8, KeyFacts DEF KeyInv, FlowInv
  <2>3. \A a \in App : Before(Given(a)', Ahead') /\ Given(a)' \subseteq 1 .. reader'.taken
    BY <1>2, <1>4, <1>7, <1>9, KeyFacts DEF KeyInv, FlowInv, Before
  <2>4. /\ Before(Keys(stdin), ToSet(reader'.line))
        /\ Before(ToSet(main.send) \cup ToSet(main.rest), Keys(stdin) \cup ToSet(reader'.line))
    BY <1>3, <1>4, <1>8 DEF KeyInv, FlowInv, Before, Ahead
  <2> QED
    BY <1>1, <2>1, <2>2, <2>3, <2>4 DEF KeyInv, FlowInv
<1>11. \A a : Attached(a) => Attached(a)'
  <2>1. /\ reader'.taken \in Nat /\ reader.taken <= reader'.taken
        /\ \A j \in Ahead' : j \in Ahead \/ (j \in Nat /\ reader.taken < j)
    BY <1>2, <1>4, <1>7, KeyFacts
  <2> QED
    BY <1>1, <2>1, KeepsAttached
<1>12. AttachInv' /\ KeysInOrder'
  BY <1>1, <1>11 DEF KeyInv, AttachInv, KeysInOrder
<1> QED
  BY <1>6, <1>10, <1>12 DEF KeyInv

LEMMA FlushKeepsKeys ==
  ASSUME KeyInv, Flush \/ FlushRefused
  PROVE  KeyInv'
<1>1. /\ reader'.taken = reader.taken /\ reader'.pc \in ReaderPc
      /\ UNCHANGED <<typed, main, CLI_MODE, MUX, in, got>>
  BY KeyFacts DEF Flush, FlushRefused, ReaderPc, cliVars, appVars, KeyInv, KeyTypes
<1>2. \/ reader'.line = <<>> /\ stdin' = Append(stdin, reader.line) /\ HasRoom(stdin)
      \/ reader'.line \in {<<>>, reader.line} /\ stdin' = stdin
  BY DEF Flush, FlushRefused, KeyInv, KeyTypes
<1>3. /\ stdin' \in Seq(Seq(Nat)) /\ Len(stdin') <= Depth /\ InOrder(stdin')
      /\ Keys(stdin') \cup ToSet(reader'.line) \subseteq Keys(stdin) \cup ToSet(reader.line)
      /\ Before(Keys(stdin'), ToSet(reader'.line)) /\ Increasing(reader'.line)
  <2>1. CASE reader'.line = <<>> /\ stdin' = Append(stdin, reader.line) /\ HasRoom(stdin)
    <3>1. /\ stdin' \in Seq(Seq(Nat)) /\ Len(stdin') = Len(stdin) + 1 /\ Len(stdin) \in Nat
          /\ InOrder(stdin') /\ Keys(stdin') = Keys(stdin) \cup ToSet(reader.line)
      BY <2>1, KeyFacts, AppendIs, InOrderAppend, KeysAppend DEF KeyInv, KeyTypes, FlowInv
    <3> QED
      BY <2>1, <3>1, ToSetEmpty, OrderEmpty, ConsoleAssumption DEF HasRoom, Before
  <2>2. CASE reader'.line \in {<<>>, reader.line} /\ stdin' = stdin
    BY <2>2, ToSetEmpty, OrderEmpty DEF KeyInv, KeyTypes, FlowInv, Before
  <2> QED
    BY <1>2, <2>1, <2>2
<1>4. /\ reader' \in [pc : ReaderPc, taken : 0 .. Len(typed), line : Seq(Nat)]
      /\ Len(reader'.line) <= Buffer
  <2>1. reader' = [pc |-> reader'.pc, taken |-> reader'.taken, line |-> reader'.line]
    BY DEF Flush, FlushRefused, KeyInv, KeyTypes
  <2>2. reader'.line \in Seq(Nat) /\ Len(reader'.line) <= Buffer
    <3>1. <<>> \in Seq(Nat) /\ Len(<<>>) = 0 /\ 0 <= Buffer
      BY EmptySeq, ConsoleAssumption
    <3>2. reader'.line = <<>> \/ reader'.line = reader.line
      BY <1>2
    <3> QED
      BY <3>1, <3>2 DEF KeyInv, KeyTypes
  <2> QED
    BY <1>1, <2>1, <2>2 DEF KeyInv, KeyTypes
<1>5. KeyTypes'
  BY <1>1, <1>3, <1>4 DEF KeyInv, KeyTypes
<1>6. Ahead' \subseteq Ahead /\ \A a \in App : Given(a)' = Given(a)
  BY <1>1, <1>3 DEF Ahead, Given
<1>7. FlowInv'
  BY <1>1, <1>3, <1>6 DEF KeyInv, FlowInv, Before
<1>8. \A a : Attached(a) => Attached(a)'
  BY <1>1, <1>6, KeepsAttached, KeyFacts
<1>9. AttachInv' /\ KeysInOrder'
  BY <1>1, <1>8 DEF KeyInv, AttachInv, KeysInOrder
<1> QED
  BY <1>5, <1>7, <1>9 DEF KeyInv

\* A read of "stdin" leaves the messages behind the one it takes.
LEMMA StdinRead ==
  ASSUME KeyInv, ReadStdin
  PROVE  /\ stdin # <<>> /\ stdin' = Tail(stdin) /\ typed' = typed
         /\ reader'.taken = reader.taken /\ reader'.line = reader.line
         /\ reader' \in [pc : ReaderPc, taken : 0 .. Len(typed), line : Seq(Nat)]
         /\ Head(stdin) \in Seq(Nat) /\ Increasing(Head(stdin))
         /\ stdin' \in Seq(Seq(Nat)) /\ Len(stdin') <= Depth /\ InOrder(stdin')
         /\ Keys(stdin) = ToSet(Head(stdin)) \cup Keys(stdin')
         /\ Before(ToSet(Head(stdin)), Keys(stdin') \cup ToSet(reader.line))
<1>1. /\ stdin # <<>> /\ stdin' = Tail(stdin) /\ typed' = typed
      /\ reader' = [reader EXCEPT !.pc = IF @ = "full" THEN "refused" ELSE @]
  BY DEF ReadStdin
<1>2. /\ reader'.taken = reader.taken /\ reader'.line = reader.line
      /\ reader' \in [pc : ReaderPc, taken : 0 .. Len(typed), line : Seq(Nat)]
  BY <1>1 DEF KeyInv, KeyTypes, ReaderPc
<1>3. stdin \in Seq(Seq(Nat)) /\ Len(stdin) <= Depth
  BY DEF KeyInv, KeyTypes
<1>4. /\ Head(stdin) \in Seq(Nat) /\ stdin' \in Seq(Seq(Nat)) /\ Len(stdin') <= Depth
  BY <1>1, <1>3, TailIs, ConsoleAssumption
<1>5. /\ Increasing(Head(stdin)) /\ InOrder(stdin')
      /\ Before(ToSet(Head(stdin)), Keys(stdin'))
  BY <1>1, <1>3, InOrderTail DEF KeyInv, FlowInv
<1>6. Keys(stdin) = ToSet(Head(stdin)) \cup Keys(stdin')
  BY <1>1, <1>3, KeysTail
<1>7. Before(ToSet(Head(stdin)), ToSet(reader.line))
  BY <1>6 DEF KeyInv, FlowInv, Before
<1> QED
  BY <1>1, <1>2, <1>4, <1>5, <1>6, <1>7 DEF Before

LEMMA FillKeepsKeys ==
  ASSUME KeyInv, FillCommandLine
  PROVE  KeyInv'
<1>1. /\ main.pc = "loop" /\ CLI_MODE /\ ReadStdin
      /\ main' = [main EXCEPT !.rest = Head(stdin)]
      /\ UNCHANGED <<CLI_MODE, MUX, in, got>>
  BY DEF FillCommandLine, appVars
<1>2. main.send = <<>>
  BY <1>1 DEF KeyInv, AttachInv
<1>3. /\ main' \in [pc : MainPc, rest : Seq(Nat), junk : BOOLEAN, key : Key, send : Seq(Nat)]
      /\ main'.pc = main.pc /\ main'.rest = Head(stdin) /\ main'.send = main.send
      /\ main'.key = main.key
  BY <1>1, StdinRead DEF KeyInv, KeyTypes
<1>4. KeyTypes'
  BY <1>1, <1>3, StdinRead DEF KeyInv, KeyTypes
<1>5. Ahead' \subseteq Ahead /\ \A a \in App : Given(a)' = Given(a)
  BY <1>1, <1>3, StdinRead DEF Ahead, Given
<1>6. FlowInv'
  <2>1. ToSet(main'.rest) \subseteq Keys(stdin)
    BY <1>1, <1>3, StdinRead
  <2>2. /\ Ahead' \cup ToSet(main'.rest) \subseteq 1 .. reader'.taken
        /\ \A a \in App : Before(Given(a)', Ahead') /\ Given(a)' \subseteq 1 .. reader'.taken
    BY <1>1, <1>5, <2>1, StdinRead DEF KeyInv, FlowInv, Before, Ahead
  <2>3. /\ Before(Keys(stdin'), ToSet(reader'.line))
        /\ Before(ToSet(main'.send) \cup ToSet(main'.rest), Keys(stdin') \cup ToSet(reader'.line))
    BY <1>1, <1>2, <1>3, StdinRead, ToSetEmpty DEF KeyInv, FlowInv, Before
  <2> QED
    BY <1>1, <1>3, <2>2, <2>3, StdinRead DEF KeyInv, FlowInv
<1>7. AttachInv'
  BY <1>1, <1>2, <1>3 DEF AttachInv
<1>8. KeysInOrder'
  <2>1. UNCHANGED <<typed, in, got>>
    BY <1>1, StdinRead
  <2> QED
    BY <2>1 DEF KeyInv, KeysInOrder
<1> QED
  BY <1>4, <1>6, <1>7, <1>8 DEF KeyInv

LEMMA CommandKeepsKeys ==
  ASSUME KeyInv, CommandKey
  PROVE  KeyInv'
<1>1. PICK key : key = typed[Head(main.rest)]
  OBVIOUS
<1>2. /\ main.pc = "loop" /\ CLI_MODE /\ main.rest # <<>>
      /\ main' = [main EXCEPT !.rest = Tail(@), !.key = key, !.junk = key \notin App,
                              !.pc = IF key \in App /\ ~main.junk THEN "walk" ELSE "echo"]
      /\ MUX' \in {None, MUX}
      /\ UNCHANGED <<typed, reader, stdin, CLI_MODE, in, got>>
  BY <1>1 DEF CommandKey, ioVars, appVars
<1>3. /\ Head(main.rest) \in 1 .. reader.taken /\ Head(main.rest) \in ToSet(main.rest)
      /\ Tail(main.rest) \in Seq(Nat) /\ ToSet(Tail(main.rest)) \subseteq ToSet(main.rest)
  BY <1>2, TailIs DEF KeyInv, KeyTypes, FlowInv
<1>4. key \in Key
  <2>1. Head(main.rest) \in DOMAIN typed
    BY <1>3, KeyFacts DEF KeyInv, KeyTypes
  <2> QED
    BY <1>1, <2>1, KeyFacts, ElementOfSeq
<1>5. /\ main'.rest = Tail(main.rest) /\ main'.key = key /\ main'.send = main.send
      /\ main'.pc = IF key \in App /\ ~main.junk THEN "walk" ELSE "echo"
      /\ main' \in [pc : MainPc, rest : Seq(Nat), junk : BOOLEAN, key : Key, send : Seq(Nat)]
  BY <1>2, <1>3, <1>4 DEF KeyInv, KeyTypes, MainPc
<1>6. KeyTypes'
  BY <1>2, <1>5 DEF KeyInv, KeyTypes
<1>7. main.send = <<>>
  BY <1>2 DEF KeyInv, AttachInv
<1>8. Ahead' = Ahead /\ \A a \in App : Given(a)' = Given(a)
  BY <1>2, <1>5 DEF Ahead, Given
<1>9. FlowInv'
  BY <1>2, <1>3, <1>5, <1>8 DEF KeyInv, FlowInv, Before
<1>10. Attached(key)'
  BY <1>1, <1>2, <1>3, <1>7, <1>8, ToSetEmpty DEF KeyInv, FlowInv, Before, Ahead, Attached
<1>11. AttachInv'
  BY <1>2, <1>5, <1>7, <1>10 DEF AttachInv
<1>12. KeysInOrder'
  BY <1>2 DEF KeyInv, KeysInOrder
<1> QED
  BY <1>6, <1>9, <1>11, <1>12 DEF KeyInv

LEMMA WalkKeepsKeys ==
  ASSUME KeyInv, AttachWalk \/ CommandEcho
  PROVE  KeyInv'
<1>1. /\ UNCHANGED <<typed, reader, stdin, in, got>>
      /\ CLI_MODE' \in BOOLEAN /\ MUX' \in App \cup {None}
      /\ main'.rest = main.rest /\ main'.key = main.key /\ main'.send = main.send
      /\ main' \in [pc : MainPc, rest : Seq(Nat), junk : BOOLEAN, key : Key, send : Seq(Nat)]
  <2>1. CASE AttachWalk
    BY <2>1 DEF AttachWalk, ioVars, appVars, KeyInv, KeyTypes, MainPc, AttachInv
  <2>2. CASE CommandEcho
    BY <2>2 DEF CommandEcho, ioVars, appVars, KeyInv, KeyTypes, MainPc
  <2> QED
    BY <2>1, <2>2
<1>2. /\ Ahead' = Ahead /\ \A a \in App : Given(a)' = Given(a)
      /\ \A a : Attached(a)' <=> Attached(a)
  BY <1>1 DEF Ahead, Given, Attached
<1>3. KeyTypes' /\ FlowInv' /\ KeysInOrder'
  BY <1>1, <1>2 DEF KeyInv, KeyTypes, FlowInv, KeysInOrder
<1>4. CASE AttachWalk
  <2>1. /\ main.pc = "walk" /\ main'.pc \in {"found", "echo"}
        /\ main'.pc = "found" => MUX' = main.key
    BY <1>4 DEF AttachWalk, KeyInv, KeyTypes
  <2> QED
    BY <1>1, <1>2, <1>3, <2>1 DEF KeyInv, AttachInv
<1>5. CASE CommandEcho
  <2>1. /\ main'.pc = "loop" /\ CLI_MODE' = (main.pc = "echo") /\ MUX' = MUX
        /\ main.pc \in {"found", "echo"}
    BY <1>5 DEF CommandEcho, KeyInv, KeyTypes
  <2> QED
    BY <1>1, <1>2, <1>3, <2>1 DEF KeyInv, AttachInv
<1> QED
  BY <1>4, <1>5

LEMMA ForwardReadKeepsKeys ==
  ASSUME KeyInv, ForwardRead
  PROVE  KeyInv'
<1> DEFINE line == Head(stdin)
<1>1. /\ main.pc = "loop" /\ ~CLI_MODE /\ ReadStdin
      /\ main' = [main EXCEPT !.pc = "forward", !.send = UpToEtx(line)]
      /\ CLI_MODE' \in BOOLEAN /\ UNCHANGED <<MUX, in, got>>
  BY DEF ForwardRead, appVars
<1>2. /\ main.send = <<>> /\ MUX \in App /\ Attached(MUX)
  BY <1>1 DEF KeyInv, AttachInv
<1>3. /\ UpToEtx(line) \in Seq(Nat) /\ ToSet(UpToEtx(line)) \subseteq ToSet(line)
      /\ Increasing(UpToEtx(line)) /\ \A k \in ToSet(UpToEtx(line)) : typed[k] # "etx"
  BY <1>1, StdinRead, UpToEtxIs
<1>4. /\ main' \in [pc : MainPc, rest : Seq(Nat), junk : BOOLEAN, key : Key, send : Seq(Nat)]
      /\ main'.pc = "forward" /\ main'.rest = main.rest /\ main'.send = UpToEtx(line)
  BY <1>1, <1>3 DEF KeyInv, KeyTypes, MainPc
<1>5. KeyTypes'
  BY <1>1, <1>4, StdinRead DEF KeyInv, KeyTypes
<1>6. Ahead' \subseteq Ahead /\ \A a \in App : Given(a)' = Given(a)
  BY <1>1, <1>3, <1>4, StdinRead DEF Ahead, Given
<1>7. FlowInv'
  <2>1. /\ Ahead' \cup ToSet(main'.rest) \subseteq 1 .. reader'.taken
        /\ \A a \in App : Before(Given(a)', Ahead') /\ Given(a)' \subseteq 1 .. reader'.taken
    BY <1>1, <1>4, <1>6, StdinRead DEF KeyInv, FlowInv, Before
  <2>2. /\ Before(Keys(stdin'), ToSet(reader'.line))
        /\ Before(ToSet(main'.send) \cup ToSet(main'.rest), Keys(stdin') \cup ToSet(reader'.line))
    BY <1>1, <1>3, <1>4, StdinRead DEF KeyInv, FlowInv, Before
  <2> QED
    BY <1>1, <1>3, <1>4, <2>1, <2>2, StdinRead DEF KeyInv, FlowInv
<1>8. Attached(MUX)'
  BY <1>1, <1>2, <1>6, StdinRead, KeyFacts DEF Attached, Before
<1>9. AttachInv'
  BY <1>1, <1>2, <1>4, <1>8 DEF AttachInv
<1>10. KeysInOrder'
  <2>1. UNCHANGED <<typed, in, got>>
    BY <1>1, StdinRead
  <2> QED
    BY <2>1 DEF KeyInv, KeysInOrder
<1> QED
  BY <1>5, <1>7, <1>9, <1>10 DEF KeyInv

LEMMA ForwardWriteKeepsKeys ==
  ASSUME KeyInv, ForwardWrite
  PROVE  KeyInv'
<1>1. /\ main.pc = "forward" /\ main' = [main EXCEPT !.pc = "loop", !.send = <<>>]
      /\ \/ main.send = <<>> /\ in' = in
         \/ HasRoom(in[MUX]) /\ in' = [in EXCEPT ![MUX] = Append(@, main.send)]
      /\ UNCHANGED <<typed, reader, stdin, CLI_MODE, MUX, got>>
  BY DEF ForwardWrite, ioVars
<1>2. MUX \in App /\ Attached(MUX)
  BY <1>1 DEF KeyInv, AttachInv
<1>3. /\ main' \in [pc : MainPc, rest : Seq(Nat), junk : BOOLEAN, key : Key, send : Seq(Nat)]
      /\ main'.pc = "loop" /\ main'.rest = main.rest /\ main'.send = <<>>
  BY <1>1, EmptySeq DEF KeyInv, KeyTypes, MainPc
<1>4. Ahead' \subseteq Ahead /\ Ahead = Ahead' \cup ToSet(main.send)
  BY <1>1, <1>3, ToSetEmpty DEF Ahead
<1>5. Before(ToSet(main.send), Ahead')
  BY <1>1, <1>3, ToSetEmpty DEF KeyInv, FlowInv, Before, Ahead
<1>6. /\ in' \in [App -> Seq(Seq(Nat))] /\ \A a \in App : Len(in'[a]) <= Depth
      /\ \A a \in App : \/ in'[a] = in[a]
                        \/ a = MUX /\ in'[a] = Append(in[a], main.send)
  <2>1. CASE in' = in
    BY <2>1 DEF KeyInv, KeyTypes
  <2>2. CASE HasRoom(in[MUX]) /\ in' = [in EXCEPT ![MUX] = Append(@, main.send)]
    <3>1. /\ Append(in[MUX], main.send) \in Seq(Seq(Nat))
          /\ Len(Append(in[MUX], main.send)) = Len(in[MUX]) + 1 /\ Len(in[MUX]) \in Nat
      BY <1>2, KeyFacts, AppendIs DEF KeyInv, KeyTypes
    <3>2. Len(Append(in[MUX], main.send)) <= Depth
      BY <2>2, <3>1, ConsoleAssumption DEF HasRoom
    <3> QED
      BY <1>2, <2>2, <3>1, <3>2 DEF KeyInv, KeyTypes
  <2> QED
    BY <1>1, <2>1, <2>2
<1>7. KeyTypes'
  BY <1>1, <1>3, <1>6 DEF KeyInv, KeyTypes
<1>8. \A a \in App : \/ Given(a)' = Given(a) /\ in'[a] = in[a]
                     \/ /\ a = MUX /\ Given(a)' = Given(a) \cup ToSet(main.send)
                        /\ in'[a] = Append(in[a], main.send)
                        /\ Keys(in'[a]) = Keys(in[a]) \cup ToSet(main.send)
  <2>1. main.send \in Seq(Nat) /\ got' = got
    BY <1>1 DEF KeyInv, KeyTypes
  <2>2. \A a \in App : Keys(Append(in[a], main.send)) = Keys(in[a]) \cup ToSet(main.send)
    BY <2>1, KeyFacts, KeysAppend
  <2> QED
    BY <1>6, <2>1, <2>2 DEF Given
<1>9. FlowInv'
  <2>1. \A a \in App : Before(Given(a)', Ahead') /\ Given(a)' \subseteq 1 .. reader'.taken
    BY <1>1, <1>4, <1>5, <1>8 DEF KeyInv, FlowInv, Before
  <2>2. /\ Increasing(<<>>) /\ ToSet(<<>>) = {}
        /\ Ahead' \cup ToSet(main'.rest) \subseteq 1 .. reader'.taken
    BY <1>1, <1>3, <1>4, OrderEmpty, ToSetEmpty DEF KeyInv, FlowInv
  <2> QED
    BY <1>1, <1>3, <2>1, <2>2 DEF KeyInv, FlowInv, Before
<1>10. Attached(MUX)'
  BY <1>1, <1>2, <1>4, KeyFacts DEF Attached, Before
<1>11. AttachInv'
  BY <1>1, <1>2, <1>3, <1>10 DEF AttachInv
<1>12. ASSUME NEW a \in App
       PROVE  /\ Increasing(got[a]) /\ InOrder(in'[a]) /\ Before(ToSet(got[a]), Keys(in'[a]))
              /\ \A key \in ToSet(got[a]) \cup Keys(in'[a]) :
                   typed[key] # "etx" /\ \E k \in 1 .. key - 1 : typed[k] = a
  <2>1. CASE in'[a] = in[a]
    BY <2>1 DEF KeyInv, KeysInOrder
  <2>2. CASE /\ a = MUX /\ in'[a] = Append(in[a], main.send)
             /\ Keys(in'[a]) = Keys(in[a]) \cup ToSet(main.send)
    <3>1. Before(Given(a), ToSet(main.send)) /\ Increasing(main.send)
      BY DEF KeyInv, FlowInv, Before, Ahead
    <3>2. InOrder(in'[a])
      BY <2>2, <3>1, InOrderAppend, KeyFacts DEF KeyInv, KeyTypes, KeysInOrder, Given, Before
    <3>3. Before(ToSet(got[a]), Keys(in'[a])) /\ Increasing(got[a])
      BY <2>2, <3>1 DEF KeyInv, KeysInOrder, Given, Before
    <3>4. ASSUME NEW key \in ToSet(main.send)
          PROVE  typed[key] # "etx" /\ \E k \in 1 .. key - 1 : typed[k] = a
      <4>1. PICK k \in 1 .. reader.taken : typed[k] = MUX /\ Before({k}, Ahead)
        BY <1>2 DEF Attached
      <4>2. k < key /\ key \in Nat /\ typed[key] # "etx" /\ reader.taken \in Nat
        BY <4>1, KeyFacts DEF Before, Ahead, KeyInv, FlowInv
      <4>3. k \in 1 .. key - 1
        BY <4>1, <4>2
      <4> QED
        BY <2>2, <4>1, <4>2, <4>3
    <3> QED
      BY <2>2, <3>2, <3>3, <3>4 DEF KeyInv, KeysInOrder
  <2> QED
    BY <1>8, <2>1, <2>2
<1>13. KeysInOrder'
  BY <1>1, <1>12 DEF KeysInOrder
<1> QED
  BY <1>7, <1>9, <1>11, <1>13 DEF KeyInv

LEMMA AppReadKeepsKeys ==
  ASSUME KeyInv, NEW a \in App, AppRead(a)
  PROVE  KeyInv'
<1>1. /\ in[a] # <<>> /\ got' = [got EXCEPT ![a] = @ \o Head(in[a])]
      /\ in' = [in EXCEPT ![a] = Tail(@)]
      /\ UNCHANGED <<typed, reader, stdin, main, CLI_MODE, MUX>>
  BY DEF AppRead, ioVars, cliVars
<1>2. /\ Head(in[a]) \in Seq(Nat) /\ Tail(in[a]) \in Seq(Seq(Nat))
      /\ Len(Tail(in[a])) = Len(in[a]) - 1 /\ Len(in[a]) \in Nat
      /\ Keys(in[a]) = ToSet(Head(in[a])) \cup Keys(Tail(in[a]))
  BY <1>1, KeyFacts, TailIs, KeysTail
<1>3. /\ got[a] \o Head(in[a]) \in Seq(Nat)
      /\ ToSet(got[a] \o Head(in[a])) = ToSet(got[a]) \cup ToSet(Head(in[a]))
  BY <1>2, KeyFacts, ConcatIs
<1>4. /\ got'[a] = got[a] \o Head(in[a]) /\ in'[a] = Tail(in[a])
      /\ \A b \in App : b # a => got'[b] = got[b] /\ in'[b] = in[b]
      /\ got' \in [App -> Seq(Nat)] /\ in' \in [App -> Seq(Seq(Nat))]
  BY <1>1, <1>2, <1>3 DEF KeyInv, KeyTypes
<1>5. \A b \in App : Len(in'[b]) <= Depth
  <2>1. Len(in'[a]) <= Depth
    BY <1>2, <1>4, ConsoleAssumption DEF KeyInv, KeyTypes
  <2> QED
    BY <1>4, <2>1 DEF KeyInv, KeyTypes
<1>6. KeyTypes'
  BY <1>1, <1>4, <1>5 DEF KeyInv, KeyTypes
<1>7. \A b \in App : Given(b)' = Given(b)
  BY <1>2, <1>3, <1>4 DEF Given
<1>8. Ahead' = Ahead /\ \A b : Attached(b)' <=> Attached(b)
  BY <1>1 DEF Ahead, Attached
<1>9. FlowInv' /\ AttachInv'
  BY <1>1, <1>7, <1>8 DEF KeyInv, FlowInv, AttachInv
<1>10. ASSUME NEW b \in App
       PROVE  /\ Increasing(got'[b]) /\ InOrder(in'[b]) /\ Before(ToSet(got'[b]), Keys(in'[b]))
              /\ \A key \in ToSet(got'[b]) \cup Keys(in'[b]) :
                   typed[key] # "etx" /\ \E k \in 1 .. key - 1 : typed[k] = b
  <2>1. CASE b # a
    BY <1>4, <2>1 DEF KeyInv, KeysInOrder
  <2>2. CASE b = a
    <3>1. /\ Increasing(Head(in[a])) /\ InOrder(Tail(in[a]))
          /\ Before(ToSet(Head(in[a])), Keys(Tail(in[a])))
      BY <1>1, KeyFacts, InOrderTail DEF KeyInv, KeysInOrder
    <3>2. Before(ToSet(got[a]), ToSet(Head(in[a])) \cup Keys(Tail(in[a]))) /\ Increasing(got[a])
      BY <1>2 DEF KeyInv, KeysInOrder
    <3>3. Increasing(got'[a])
      BY <1>2, <1>4, <3>1, <3>2, KeyFacts, IncreasingConcat DEF Before
    <3>4. Before(ToSet(got'[a]), Keys(in'[a]))
      BY <1>3, <1>4, <3>1, <3>2 DEF Before
    <3>5. ToSet(got'[a]) \cup Keys(in'[a]) = ToSet(got[a]) \cup Keys(in[a])
      BY <1>2, <1>3, <1>4
    <3> QED
      BY <1>4, <2>2, <3>1, <3>3, <3>4, <3>5 DEF KeyInv, KeysInOrder
  <2> QED
    BY <2>1, <2>2
<1>11. KeysInOrder'
  BY <1>1, <1>10 DEF KeysInOrder
<1> QED
  BY <1>6, <1>9, <1>11 DEF KeyInv

-----------------------------------------------------------------------------
\* Who attaches once.

LEMMA OnceInit == Init => OnceInv
BY OrderEmpty DEF Init, OnceInv

\* What was typed and is no longer to come stays so.
LEMMA KeepsSpent ==
  ASSUME KeyInv, typed' = typed, reader'.taken \in Nat, reader.taken <= reader'.taken,
         \A k \in ToSet(main'.rest) \cup Ahead' :
           k \in ToSet(main.rest) \cup Ahead \/ (k \in Nat /\ reader.taken < k),
         Spent
  PROVE  Spent'
<1>1. PICK k \in 1 .. reader.taken : typed[k] \in App /\ k \notin ToSet(main.rest) \cup Ahead
  BY DEF Spent
<1>2. k \in 1 .. reader'.taken /\ ~(reader.taken < k)
  BY KeyFacts
<1> QED
  BY <1>1, <1>2 DEF Spent

\* The I/O server takes what is typed as it comes, and passes it on.
LEMMA ReaderKeepsOnce ==
  ASSUME KeyInv, OnceInv, ReadKey \/ Flush \/ FlushRefused
  PROVE  OnceInv'
<1>1. UNCHANGED <<typed, main, CLI_MODE, MUX, aux>>
  BY DEF ReadKey, Flush, FlushRefused, cliVars
<1>2. \/ /\ reader'.taken = reader.taken + 1 /\ reader'.line = Append(reader.line, reader.taken + 1)
         /\ stdin' = stdin
      \/ /\ reader'.taken = reader.taken /\ reader'.line = <<>>
         /\ stdin' = Append(stdin, reader.line)
      \/ /\ reader'.taken = reader.taken /\ reader'.line \in {<<>>, reader.line} /\ stdin' = stdin
  BY DEF ReadKey, Flush, FlushRefused, KeyInv, KeyTypes
<1>3. /\ reader'.taken \in Nat /\ reader.taken <= reader'.taken
      /\ \A k \in Ahead' : k \in Ahead \/ (k \in Nat /\ reader.taken < k)
  <2>1. CASE /\ reader'.taken = reader.taken + 1 /\ stdin' = stdin
             /\ reader'.line = Append(reader.line, reader.taken + 1)
    <3>1. PICK k \in Nat : k = reader.taken + 1 /\ reader.taken < k
      BY KeyFacts
    <3>2. ToSet(reader'.line) = ToSet(reader.line) \cup {k}
      BY <2>1, <3>1, KeyFacts, AppendIs
    <3> QED
      BY <1>1, <2>1, <3>1, <3>2, KeyFacts DEF Ahead
  <2>2. CASE /\ reader'.taken = reader.taken /\ reader'.line = <<>>
             /\ stdin' = Append(stdin, reader.line)
    <3>1. Keys(stdin') = Keys(stdin) \cup ToSet(reader.line)
      BY <2>2, KeyFacts, KeysAppend DEF KeyInv, KeyTypes
    <3> QED
      BY <1>1, <2>2, <3>1, KeyFacts, ToSetEmpty DEF Ahead
  <2>3. CASE reader'.taken = reader.taken /\ reader'.line \in {<<>>, reader.line} /\ stdin' = stdin
    BY <1>1, <2>3, KeyFacts, ToSetEmpty DEF Ahead
  <2> QED
    BY <1>2, <2>1, <2>2, <2>3
<1>4. Spent => Spent'
  BY <1>1, <1>3, KeepsSpent
<1> QED
  BY <1>1, <1>4, SameGap DEF OnceInv

LEMMA FillKeepsOnce ==
  ASSUME KeyInv, OnceInv, FillCommandLine
  PROVE  OnceInv'
<1>1. /\ main.pc = "loop" /\ main.rest = <<>> /\ ReadStdin
      /\ main' = [main EXCEPT !.rest = Head(stdin)] /\ UNCHANGED <<CLI_MODE, MUX, aux>>
  BY DEF FillCommandLine
<1>2. main'.pc = "loop" /\ main'.rest = Head(stdin) /\ main'.send = main.send
  BY <1>1 DEF KeyInv, KeyTypes
<1>3. ToSet(main'.rest) \cup Ahead' \subseteq Ahead
  BY <1>1, <1>2, StdinRead DEF Ahead
<1>4. Spent => Spent'
  BY <1>1, <1>3, StdinRead, KeyFacts, KeepsSpent
<1> QED
  BY <1>1, <1>2, <1>4, StdinRead, SameGap DEF OnceInv

\* Here MUX is cleared: by a command that was still to come.
LEMMA CommandKeepsOnce ==
  ASSUME KeyInv, OnceInv, CommandKey
  PROVE  OnceInv'
<1>. PICK p : p = Head(main.rest)
  OBVIOUS
<1>. PICK attach \in BOOLEAN : attach <=> typed[p] \in App /\ ~main.junk
  OBVIOUS
<1>1. /\ main.pc = "loop" /\ CLI_MODE /\ main.rest # <<>>
      /\ main' = [main EXCEPT !.rest = Tail(@), !.key = typed[p], !.junk = typed[p] \notin App,
                              !.pc = IF attach THEN "walk" ELSE "echo"]
      /\ MUX' = IF attach THEN None ELSE MUX
      /\ UNCHANGED <<typed, reader, stdin, CLI_MODE, aux>>
  BY DEF CommandKey, ioVars
<1>2. /\ main'.rest = Tail(main.rest) /\ main'.send = main.send
      /\ main'.pc = IF attach THEN "walk" ELSE "echo"
  BY <1>1 DEF KeyInv, KeyTypes
<1>3. Ahead' = Ahead /\ Increasing(main'.rest) /\ ToSet(main.rest) = {p} \cup ToSet(main'.rest)
      /\ p \notin ToSet(main'.rest)
  <2>1. PICK n \in Nat :
          /\ DOMAIN main.rest = 1 .. n + 1 /\ DOMAIN main'.rest = 1 .. n
          /\ p = main.rest[1] /\ \A i \in 1 .. n : main'.rest[i] = main.rest[i + 1]
          /\ ToSet(main.rest) = {p} \cup ToSet(main'.rest)
    <3>1. PICK rest \in Seq(Nat) : rest = main.rest /\ rest # <<>>
      BY <1>1 DEF KeyInv, KeyTypes
    <3>2. /\ Len(rest) \in Nat \ {0} /\ DOMAIN rest = 1 .. Len(rest)
          /\ DOMAIN Tail(rest) = 1 .. Len(rest) - 1 /\ Head(rest) = rest[1]
          /\ \A i \in 1 .. Len(rest) - 1 : Tail(rest)[i] = rest[i + 1]
          /\ ToSet(rest) = {Head(rest)} \cup ToSet(Tail(rest))
      BY <3>1, TailIs
    <3>3. Len(rest) - 1 \in Nat /\ Len(rest) - 1 + 1 = Len(rest)
      BY <3>2
    <3>4. Tail(rest) = main'.rest /\ Head(rest) = p
      BY <1>2, <3>1
    <3> QED
      BY <3>1, <3>2, <3>3, <3>4
  <2>2. \A i \in 1 .. n : i + 1 \in 1 .. n + 1 /\ 1 \in 1 .. n + 1 /\ 1 < i + 1
    OBVIOUS
  <2>3. \A i, j \in 1 .. n : i < j => i + 1 < j + 1
    OBVIOUS
  <2>4. \A i, j \in 1 .. n + 1 : i < j => main.rest[i] < main.rest[j]
    BY <2>1 DEF OnceInv, Increasing
  <2>5. Increasing(main'.rest)
    BY <2>1, <2>2, <2>3, <2>4 DEF Increasing
  <2>6. p \in Nat /\ \A i \in 1 .. n : p < main'.rest[i]
    BY <2>1, <2>2, <2>4, KeyFacts
  <2>7. p \notin ToSet(main'.rest)
    BY <2>1, <2>6 DEF ToSet
  <2> QED
    BY <1>1, <1>2, <2>1, <2>5, <2>7 DEF Ahead
<1>4. Spent => Spent'
  <2>1. \A k \in ToSet(main'.rest) \cup Ahead' : k \in ToSet(main.rest) \cup Ahead
    BY <1>3
  <2>2. reader'.taken \in Nat /\ reader.taken <= reader'.taken
    BY <1>1, KeyFacts
  <2> QED
    BY <1>1, <2>1, <2>2, KeepsSpent
<1>5. p \in 1 .. reader.taken /\ p \in DOMAIN typed /\ p \notin Ahead
  <2>1. p \in 1 .. reader.taken
    BY <1>3 DEF KeyInv, FlowInv
  <2>2. main.send = <<>>
    BY <1>1 DEF KeyInv, AttachInv
  <2>3. \A k \in Ahead : p < k
    BY <1>3, <2>2, ToSetEmpty DEF KeyInv, FlowInv, Before, Ahead
  <2> QED
    BY <2>1, <2>3, KeyFacts DEF KeyInv, KeyTypes
<1>6. CASE attach
  <2>1. Spent'
    BY <1>1, <1>3, <1>5, <1>6 DEF Spent
  <2>2. Spent => ~AttachesOnce
    <3>1. SUFFICES ASSUME Spent PROVE ~AttachesOnce
      OBVIOUS
    <3>2. PICK k \in 1 .. reader.taken : typed[k] \in App /\ k \notin ToSet(main.rest)
      BY <3>1 DEF Spent
    <3>3. k \in DOMAIN typed /\ k # p
      BY <1>3, <3>2, KeyFacts DEF KeyInv, KeyTypes
    <3> QED
      BY <1>5, <1>6, <3>2, <3>3 DEF AttachesOnce
  <2>3. aux.pc # "test" => ~AttachesOnce
    BY <2>2 DEF OnceInv
  <2> QED
    BY <1>1, <1>2, <1>3, <1>6, <2>1, <2>3, SameGap DEF OnceInv
<1>7. CASE ~attach
  <2>1. MUX' = MUX /\ main'.pc = "echo"
    BY <1>1, <1>2, <1>7
  <2> QED
    BY <1>1, <1>3, <1>4, <2>1, SameGap DEF OnceInv
<1> QED
  BY <1>6, <1>7

LEMMA WalkKeepsOnce ==
  ASSUME KeyInv, OnceInv, AttachWalk \/ CommandEcho
  PROVE  OnceInv'
<1>1. /\ UNCHANGED <<typed, reader, stdin, aux>>
      /\ main'.rest = main.rest /\ main'.send = main.send /\ main'.pc \in {"found", "echo", "loop"}
  BY DEF AttachWalk, CommandEcho, ioVars, KeyInv, KeyTypes
<1>2. Ahead' = Ahead /\ (Spent' <=> Spent)
  BY <1>1 DEF Ahead, Spent
<1>3. CASE AttachWalk
  <2>1. main.pc = "walk" /\ CLI_MODE' = CLI_MODE
    BY <1>3 DEF AttachWalk
  <2> QED
    BY <1>1, <1>2, <2>1, SameGap DEF OnceInv
<1>4. CASE CommandEcho
  <2>1. main.pc \in {"found", "echo"} /\ CLI_MODE' = (main.pc = "echo") /\ MUX' = MUX
        /\ main'.pc = "loop"
    BY <1>4 DEF CommandEcho, KeyInv, KeyTypes
  <2>2. main.pc = "found" => MUX # None
    BY ConsoleAssumption DEF KeyInv, AttachInv
  <2> QED
    BY <1>1, <1>2, <2>1, <2>2, SameGap DEF OnceInv
<1> QED
  BY <1>3, <1>4

LEMMA ForwardKeepsOnce ==
  ASSUME KeyInv, OnceInv, ForwardRead \/ ForwardWrite
  PROVE  OnceInv'
<1>1. main'.pc \in {"loop", "forward"} /\ main'.rest = main.rest /\ UNCHANGED <<MUX, aux>>
  BY DEF ForwardRead, ForwardWrite, KeyInv, KeyTypes
<1>2. CASE ForwardRead
  <2>1. main.pc = "loop" /\ ~CLI_MODE /\ ReadStdin /\ main'.send = UpToEtx(Head(stdin))
    BY <1>2 DEF ForwardRead, KeyInv, KeyTypes
  <2>2. Ahead' \subseteq Ahead
    BY <2>1, StdinRead, UpToEtxIs DEF Ahead
  <2>3. Spent => Spent'
    BY <1>1, <2>1, <2>2, StdinRead, KeyFacts, KeepsSpent
  <2>4. MUX # None
    BY <2>1, ConsoleAssumption DEF KeyInv, AttachInv
  <2>5. typed' = typed
    BY <2>1, StdinRead
  <2> QED
    BY <1>1, <2>1, <2>3, <2>4, <2>5, SameGap DEF OnceInv
<1>3. CASE ForwardWrite
  <2>1. UNCHANGED <<typed, reader, stdin, CLI_MODE>> /\ main'.send = <<>> /\ main'.pc = "loop"
    BY <1>3 DEF ForwardWrite, ioVars, KeyInv, KeyTypes
  <2>2. Ahead' \subseteq Ahead
    BY <2>1, ToSetEmpty DEF Ahead
  <2>3. Spent => Spent'
    BY <1>1, <2>1, <2>2, KeyFacts, KeepsSpent
  <2> QED
    BY <1>1, <2>1, <2>3, SameGap DEF OnceInv
<1> QED
  BY <1>2, <1>3

LEMMA AuxKeepsOnce ==
  ASSUME KeyInv, OnceInv, OutTypes, AuxThread \/ \E a \in App : AppPrint(a)
  PROVE  OnceInv'
<1>1. UNCHANGED <<typed, reader, stdin, main, CLI_MODE, MUX>>
  BY DEF AuxThread, AuxTest, AuxEval, AuxRead, AuxWrite, AuxWriteOnce, AuxWriteAgain, AppPrint,
     ioVars, cliVars
<1>2. Ahead' = Ahead /\ (Spent' <=> Spent)
  BY <1>1 DEF Ahead, Spent
<1>3. /\ aux'.pc # "test" => aux.pc # "test" \/ ~CLI_MODE
      /\ aux'.pc = "again" => aux.pc = "again" \/ (aux.pc = "eval" /\ MUX = None)
  <2>1. CASE AuxTest \/ AuxEval
    BY <2>1 DEF AuxTest, AuxEval, AuxGoes, OutTypes
  <2>2. CASE AuxRead \/ AuxWrite \/ AuxWriteAgain
    BY <2>2 DEF AuxRead, AuxWrite, AuxWriteOnce, AuxWriteAgain, AuxGoes, OutTypes
  <2>3. CASE \E a \in App : AppPrint(a)
    BY <2>3 DEF AppPrint, OutTypes
  <2> QED
    BY <2>1, <2>2, <2>3 DEF AuxThread
<1> QED
  BY <1>1, <1>2, <1>3, SameGap DEF OnceInv

-----------------------------------------------------------------------------
\* The registration.

LEMMA InjectiveAppend ==
  ASSUME NEW s \in Seq(App), NEW a \in App, IsInjective(s), a \notin ToSet(s)
  PROVE  IsInjective(Append(s, a))
<1>1. PICK n \in Nat :
        /\ DOMAIN s = 1 .. n /\ DOMAIN Append(s, a) = 1 .. n + 1
        /\ \A i \in 1 .. n : Append(s, a)[i] = s[i] /\ s[i] # a
        /\ Append(s, a)[n + 1] = a
  BY AppendIs DEF ToSet
<1>2. \A i \in 1 .. n + 1 : i \in 1 .. n \/ i = n + 1
  OBVIOUS
<1> QED
  BY <1>1, <1>2 DEF IsInjective

LEMMA InjectiveTail ==
  ASSUME NEW s \in Seq(App), s # <<>>, IsInjective(s)
  PROVE  /\ IsInjective(Tail(s)) /\ Head(s) \notin ToSet(Tail(s))
         /\ Head(s) \in App /\ Tail(s) \in Seq(App)
         /\ ToSet(s) = {Head(s)} \cup ToSet(Tail(s))
<1>1. PICK n \in Nat :
        /\ DOMAIN s = 1 .. n + 1 /\ DOMAIN Tail(s) = 1 .. n
        /\ Head(s) = s[1] /\ \A i \in 1 .. n : Tail(s)[i] = s[i + 1]
  <2>1. Len(s) - 1 \in Nat /\ Len(s) - 1 + 1 = Len(s)
    BY TailIs
  <2> QED
    BY <2>1, TailIs
<1>2. \A i \in 1 .. n : i + 1 \in 1 .. n + 1 /\ 1 \in 1 .. n + 1 /\ i + 1 # 1
  OBVIOUS
<1>3. \A i, j \in 1 .. n : i + 1 = j + 1 => i = j
  OBVIOUS
<1>4. \A i, j \in 1 .. n + 1 : s[i] = s[j] => i = j
  BY <1>1 DEF IsInjective
<1>5. IsInjective(Tail(s))
  BY <1>1, <1>2, <1>3, <1>4 DEF IsInjective
<1>6. Head(s) \notin ToSet(Tail(s))
  BY <1>1, <1>2, <1>4 DEF ToSet
<1> QED
  BY <1>5, <1>6, TailIs

LEMMA RegInit == Init => RegInv
<1> SUFFICES ASSUME Init PROVE RegInv
  OBVIOUS
<1>1. Range(Length) \subseteq Nat
  BY ConsoleAssumption DEF Range
<1>2. /\ listen \in [pc : ListenPc, from : App \cup {None}, exact : BOOLEAN, zeros : SUBSET Nat]
      /\ listen.pc = "open"
  BY <1>1 DEF Init, ListenPc
<1> QED
  BY <1>2, ToSetEmpty DEF Init, RegInv, RegTypes, IsInjective

LEMMA ListenKeepsReg ==
  ASSUME RegInv, ListenThread
  PROVE  RegInv'
<1>1. app' = app
  BY DEF ListenThread, ListenOpen, ListenRead, ListenLink, ListenFill, ListenReply, appVars
<1>2. CASE ListenOpen \/ ListenReply
  <2>1. /\ UNCHANGED <<request, MUX_LIST, filled>>
        /\ listen' = [listen EXCEPT !.pc = "read"]
    BY <1>2 DEF ListenOpen, ListenReply, ListenGoes
  <2>2. /\ listen' \in [pc : ListenPc, from : App \cup {None}, exact : BOOLEAN, zeros : SUBSET Nat]
        /\ listen'.pc = "read"
    BY <2>1 DEF RegInv, RegTypes, ListenPc
  <2> QED
    BY <1>1, <2>1, <2>2 DEF RegInv, RegTypes
<1>3. CASE ListenRead
  <2>1. /\ UNCHANGED <<MUX_LIST, filled>> /\ request # <<>> /\ request' = Tail(request)
        /\ listen' = [pc |-> "link", from |-> Head(request), exact |-> ~Misread(Head(request)),
                      zeros |-> listen.zeros \ (0 .. Length[Head(request)] - 1)]
    BY <1>3 DEF ListenRead
  <2>2. /\ IsInjective(request') /\ Head(request) \notin ToSet(request')
        /\ Head(request) \in App /\ request' \in Seq(App)
        /\ ToSet(request) = {Head(request)} \cup ToSet(request')
    BY <2>1, InjectiveTail DEF RegInv, RegTypes
  <2>3. /\ listen' \in [pc : ListenPc, from : App \cup {None}, exact : BOOLEAN, zeros : SUBSET Nat]
        /\ listen'.pc = "link" /\ listen'.from = Head(request)
    BY <2>1, <2>2 DEF ListenPc, Misread, RegInv, RegTypes
  <2> QED
    BY <1>1, <2>1, <2>2, <2>3 DEF RegInv, RegTypes
<1>4. CASE ListenLink
  <2>1. /\ UNCHANGED <<request, filled>> /\ listen.pc = "link"
        /\ MUX_LIST' = Append(MUX_LIST, listen.from)
        /\ listen' = [listen EXCEPT !.pc = "fill"] /\ listen.from \in App
    BY <1>4 DEF ListenLink, ListenGoes, RegInv, RegTypes
  <2>2. /\ IsInjective(MUX_LIST') /\ MUX_LIST' \in Seq(App)
        /\ ToSet(MUX_LIST') = ToSet(MUX_LIST) \cup {listen.from}
    BY <2>1, InjectiveAppend, AppendIs DEF RegInv, RegTypes
  <2>3. /\ listen' \in [pc : ListenPc, from : App \cup {None}, exact : BOOLEAN, zeros : SUBSET Nat]
        /\ listen'.pc = "fill" /\ listen'.from = listen.from
    BY <2>1 DEF RegInv, RegTypes, ListenPc
  <2>4. RegTypes'
    BY <1>1, <2>1, <2>2, <2>3 DEF RegInv, RegTypes
  <2> QED
    BY <1>1, <2>1, <2>2, <2>3, <2>4 DEF RegInv
<1>5. CASE ListenFill
  <2>1. /\ UNCHANGED <<request, MUX_LIST>> /\ listen.pc = "fill"
        /\ filled' \in {filled, filled \cup {listen.from}} /\ listen' = [listen EXCEPT !.pc = "reply"]
    BY <1>5 DEF ListenFill, ListenGoes
  <2>2. /\ listen' \in [pc : ListenPc, from : App \cup {None}, exact : BOOLEAN, zeros : SUBSET Nat]
        /\ listen'.pc = "reply" /\ listen'.from = listen.from
    BY <2>1 DEF RegInv, RegTypes, ListenPc
  <2> QED
    BY <1>1, <2>1, <2>2 DEF RegInv, RegTypes
<1> QED
  BY <1>2, <1>3, <1>4, <1>5 DEF ListenThread

LEMMA StartUpKeepsReg ==
  ASSUME RegInv, NEW a \in App, StartUp(a)
  PROVE  RegInv'
<1>1. UNCHANGED <<listen, MUX_LIST, filled>>
  BY DEF StartUp, AppStart, AppAsk, SendName, AppAnswered
<1>2. CASE AppStart(a)
  BY <1>1, <1>2 DEF AppStart, RegInv, RegTypes
<1>3. CASE AppAnswered(a)
  BY <1>1, <1>3 DEF AppAnswered, RegInv, RegTypes
<1>4. CASE AppAsk(a)
  <2>1. /\ app[a] = "poll" /\ app' = [app EXCEPT ![a] = "await"]
        /\ request' = Append(request, a)
    BY <1>4 DEF AppAsk, SendName
  <2>2. a \notin ToSet(request) \cup ToSet(MUX_LIST) /\ ~(listen.pc = "link" /\ a = listen.from)
    BY <2>1 DEF RegInv
  <2>3. /\ IsInjective(request') /\ request' \in Seq(App)
        /\ ToSet(request') = ToSet(request) \cup {a}
    BY <2>1, <2>2, InjectiveAppend, AppendIs DEF RegInv, RegTypes
  <2> QED
    BY <1>1, <2>1, <2>2, <2>3 DEF RegInv, RegTypes
<1> QED
  BY <1>2, <1>3, <1>4 DEF StartUp

-----------------------------------------------------------------------------
\* All of it.

IInv == OutInv /\ KeyInv /\ OnceInv /\ RegInv

outState == <<typed, stdout, shown, out, printed, aux>>
keyState == <<typed, reader, stdin, main, CLI_MODE, MUX, in, got>>
onceState == <<typed, reader, stdin, main, CLI_MODE, MUX, aux>>
regState == <<listen, MUX_LIST, filled, request, app>>

LEMMA SameParts ==
  /\ OutInv /\ UNCHANGED outState => OutInv'
  /\ KeyInv /\ UNCHANGED keyState => KeyInv'
  /\ OnceInv /\ UNCHANGED onceState => OnceInv'
  /\ RegInv /\ UNCHANGED regState => RegInv'
<1>1. OutInv /\ UNCHANGED outState => OutInv'
  BY KeepsConserved DEF OutInv, OutTypes, outState
<1>2. ASSUME KeyInv, UNCHANGED keyState  PROVE  KeyInv'
  <2>1. /\ UNCHANGED <<typed, reader, stdin, main, CLI_MODE, MUX, in, got>> /\ Ahead' = Ahead
        /\ \A a \in App : Given(a)' = Given(a)
    BY <1>2 DEF keyState, Ahead, Given
  <2>2. \A a \in App : Attached(a)' <=> Attached(a)
    BY <2>1 DEF Attached
  <2>3. KeyTypes'
    BY <1>2, <2>1 DEF KeyInv, KeyTypes
  <2>4. FlowInv'
    BY <1>2, <2>1 DEF KeyInv, FlowInv
  <2>5. AttachInv'
    BY <1>2, <2>1, <2>2 DEF KeyInv, AttachInv
  <2>6. KeysInOrder'
    BY <1>2, <2>1 DEF KeyInv, KeysInOrder
  <2> QED
    BY <2>3, <2>4, <2>5, <2>6 DEF KeyInv
<1>3. OnceInv /\ UNCHANGED onceState => OnceInv'
  BY SameGap DEF OnceInv, Spent, Ahead, onceState
<1>4. RegInv /\ UNCHANGED regState => RegInv'
  BY DEF RegInv, RegTypes, regState
<1> QED
  BY <1>1, <1>2, <1>3, <1>4

LEMMA NextOutInv ==
  ASSUME IInv, [Next]_vars
  PROVE  OutInv'
<1>1. CASE \/ ReadKey \/ Flush \/ FlushRefused \/ ListenThread \/ UNCHANGED vars
           \/ FillCommandLine \/ CommandKey \/ AttachWalk \/ ForwardRead \/ ForwardWrite
           \/ \E a \in App : StartUp(a) \/ AppRead(a)
  <2>1. UNCHANGED outState
    BY <1>1 DEF ReadKey, Flush, FlushRefused, ListenThread, ListenOpen, ListenRead,
       ListenLink, ListenFill, ListenReply, FillCommandLine, ReadStdin, CommandKey, AttachWalk,
       ForwardRead, ForwardWrite, StartUp, AppStart, AppAsk, SendName, AppAnswered, AppRead,
       outState, vars, ioVars, appVars, cliVars, regVars
  <2> QED
    BY <2>1, SameParts DEF IInv
<1>2. CASE AuxTest \/ AuxEval
  BY <1>2, LookKeepsOut DEF IInv, KeyInv, KeyTypes
<1>3. CASE AuxWrite \/ AuxWriteAgain
  BY <1>3, AuxWriteKeepsOut DEF IInv, OnceInv
<1> QED
  BY <1>1, <1>2, <1>3, DisplayKeepsOut, EchoKeepsOut, AuxReadKeepsOut, PrintKeepsOut
     DEF IInv, Next, IoServer, MainThread, AuxThread

LEMMA NextKeyInv ==
  ASSUME IInv, [Next]_vars
  PROVE  KeyInv'
<1>1. CASE \/ Display \/ AuxThread \/ ListenThread \/ UNCHANGED vars
           \/ \E a \in App : StartUp(a) \/ AppPrint(a)
  <2>1. UNCHANGED keyState
    BY <1>1 DEF Display, AuxThread, AuxTest, AuxEval, AuxRead, AuxWrite, AuxWriteOnce,
       AuxWriteAgain, ListenThread, ListenOpen, ListenRead, ListenLink, ListenFill, ListenReply,
       StartUp, AppStart, AppAsk, SendName, AppAnswered, AppPrint,
       keyState, vars, ioVars, appVars, cliVars, regVars
  <2> QED
    BY <2>1, SameParts DEF IInv
<1> QED
  BY <1>1, ReadKeyKeepsKeys, FlushKeepsKeys, FillKeepsKeys, CommandKeepsKeys, WalkKeepsKeys,
     ForwardReadKeepsKeys, ForwardWriteKeepsKeys, AppReadKeepsKeys
     DEF IInv, Next, IoServer, MainThread

LEMMA NextOnceInv ==
  ASSUME IInv, [Next]_vars
  PROVE  OnceInv'
<1>1. CASE \/ Display \/ ListenThread \/ UNCHANGED vars
           \/ \E a \in App : StartUp(a) \/ AppRead(a)
  <2>1. UNCHANGED onceState
    BY <1>1 DEF Display, ListenThread, ListenOpen, ListenRead, ListenLink, ListenFill, ListenReply,
       StartUp, AppStart, AppAsk, SendName, AppAnswered, AppRead,
       onceState, vars, ioVars, appVars, cliVars, regVars
  <2> QED
    BY <2>1, SameParts DEF IInv
<1>2. CASE AuxThread \/ \E a \in App : AppPrint(a)
  BY <1>2, AuxKeepsOnce DEF IInv, OutInv
<1> QED
  BY <1>1, <1>2, ReaderKeepsOnce, FillKeepsOnce, CommandKeepsOnce, WalkKeepsOnce, ForwardKeepsOnce
     DEF IInv, Next, IoServer, MainThread

LEMMA NextRegInv ==
  ASSUME IInv, [Next]_vars
  PROVE  RegInv'
<1>1. CASE \/ ReadKey \/ IoServer \/ MainThread \/ AuxThread \/ UNCHANGED vars
           \/ \E a \in App : AppPrint(a) \/ AppRead(a)
  <2>1. UNCHANGED regState
    BY <1>1 DEF ReadKey, IoServer, Flush, FlushRefused, Display, MainThread,
       FillCommandLine, CommandKey, AttachWalk, CommandEcho, ForwardRead, ForwardWrite,
       AuxThread, AuxTest, AuxEval, AuxRead, AuxWrite, AuxWriteOnce, AuxWriteAgain,
       AppPrint, AppRead,
       regState, vars, ioVars, appVars, cliVars, regVars
  <2> QED
    BY <2>1, SameParts DEF IInv
<1> QED
  BY <1>1, ListenKeepsReg, StartUpKeepsReg DEF IInv, Next

LEMMA Invariance == Spec => []IInv
<1>1. Init => IInv
  BY OutInit, KeyInit, OnceInit, RegInit DEF IInv
<1>2. IInv /\ [Next]_vars => IInv'
  BY NextOutInv, NextKeyInv, NextOnceInv, NextRegInv DEF IInv
<1> QED
  BY <1>1, <1>2, PTL DEF Spec

\* The buffers of the I/O server and the pipes are never overfilled, and an application
\* has one record in the terminal server's list (terminal-server.c:312-327).
THEOREM TypeCorrect == Spec => []TypeOK
<1>1. IInv => TypeOK
  <2> SUFFICES ASSUME IInv PROVE TypeOK
    OBVIOUS
  <2>1. /\ typed \in Session /\ reader.taken \in 0 .. Len(typed)
        /\ reader.pc \in {"poll", "full", "refused"}
        /\ Len(reader.line) <= Buffer /\ Len(stdin) <= Depth
        /\ main.pc \in {"loop", "walk", "found", "echo", "forward"}
        /\ main.key \in Key /\ CLI_MODE \in BOOLEAN /\ MUX \in App \cup {None}
        /\ \A a \in App : Len(in[a]) <= Depth
    BY DEF IInv, KeyInv, KeyTypes, ReaderPc, MainPc
  <2>2. ToSet(reader.line) \subseteq DOMAIN typed
    BY <2>1, KeyFacts DEF IInv, KeyInv, FlowInv, Ahead
  <2>3. /\ Len(stdout) <= Depth /\ \A i \in DOMAIN stdout : stdout[i] \in Output \cup {Other}
        /\ aux.pc \in {"test", "eval", "read", "wait", "write", "again"}
        /\ aux.from \in App \cup {None} /\ aux.held \in Output \cup {Other}
        /\ \A a \in App : Len(out[a]) <= Depth
    BY ElementOfSeq, LenProperties DEF IInv, OutInv, OutTypes, AuxPc, Item
  <2>4. /\ listen.pc \in {"open", "read", "link", "fill", "reply"}
        /\ IsInjective(MUX_LIST) /\ filled \subseteq ToSet(MUX_LIST)
        /\ ToSet(MUX_LIST) \subseteq App
    BY ToSetType DEF IInv, RegInv, RegTypes, ListenPc
  <2> QED
    BY <2>1, <2>2, <2>3, <2>4 DEF TypeOK
<1> QED
  BY <1>1, Invariance, PTL

\* No output is lost or reordered on its way from an application through the aux thread
\* to the screen (terminal-server.c:189-200), for any pipe depths, sessions and
\* applications; and none is shown twice to somebody who attaches once.
THEOREM NoOutputIsLost == Spec => []OutputConserved
<1>1. IInv => OutputConserved
  BY ConservedIs DEF IInv
<1> QED
  BY <1>1, Invariance, PTL

\* Keys reach an application in order, only after a command that attaches to it, and
\* without the ETX (terminal-server.c:119-133), whatever the listen and aux threads do.
THEOREM KeysArriveInOrder == Spec => []KeysInOrder
<1>1. IInv => KeysInOrder
  BY DEF IInv, KeyInv
<1> QED
  BY <1>1, Invariance, PTL
=============================================================================
