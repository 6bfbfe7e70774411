------------------------------ MODULE Console ------------------------------
(***************************************************************************)
(* The console: the I/O server (apps/102-pl011-io-server) between the UART *)
(* and the pipes "stdin" and "stdout"; the terminal server                 *)
(* (apps/103-terminal-server), whose main thread runs a command line or    *)
(* forwards what is typed to the attached application, whose aux thread    *)
(* copies that application's output to "stdout" and whose listen thread    *)
(* registers applications; and the applications (apps/101-romfs-server).   *)
(*                                                                         *)
(* A pipe is a bounded queue: reading an empty one waits, and a write to a *)
(* full one that the caller retries waits for room (PipeChannel says what  *)
(* a pipe does; IpcManager implements it).                                 *)
(***************************************************************************)
EXTENDS Naturals, SequencesExt, FiniteSetsExt

CONSTANTS App,        \* the applications, named by their APP_NAME
          Length,     \* how long that name is
          None,
          Buffer,     \* characters the I/O server collects in a message
          Depth,      \* messages a pipe queues
          Session,    \* bound: what may be typed
          MaxPrints   \* bound: how much an application prints

ASSUME ConsoleAssumption ==
  /\ Buffer \in Nat \ {0} /\ Depth \in Nat \ {0} /\ MaxPrints \in Nat
  /\ None \notin App /\ Length \in [App -> 1 .. 63]

\* What is typed: an application's name is the whole line "attach <name>".
Key == App \cup {"char", "etx"}

ASSUME SessionAssumption == Session \subseteq Seq(Key)

VARIABLES
  typed,     \* what is typed; a key is known by its position in it
  reader,    \* the stdin thread: [pc, taken, line], line is stdin_buffer
  stdin, stdout,                  \* the pipes of the I/O server
  shown,     \* shown[a]: what of a's output is on the screen
  main,      \* the terminal server's main thread: [pc, rest, junk, key, send]
  CLI_MODE, MUX,
  aux,       \* its aux thread: [pc, from, held]
  listen,    \* its listen thread: [pc, from, exact, zeros]: whose request it
             \* serves, whether name reads as sent, and where name holds a 0
  MUX_LIST,  \* the applications whose records are linked so far
  filled,    \* those of them found by name: filled in, and the name is right
  request,   \* "terminal-server/request"
  reply,     \* reply[a]: "terminal-server/<a>/reply"
  in, out,   \* "terminal-server/<a>/stdin", ".../stdout"
  app,       \* app[a]: how far a's start-up is
  printed,   \* printed[a]: how much a has printed
  got        \* got[a]: the keys a has read

ioVars == <<typed, reader, stdin, shown>>
cliVars == <<main, CLI_MODE, MUX>>
regVars == <<listen, MUX_LIST, filled, request, reply>>
appVars == <<in, out, app, printed, got>>
vars == <<ioVars, stdout, cliVars, aux, regVars, appVars>>

Output == App \X (1 .. MaxPrints)

\* What is no application's output.
Other == <<None, 0>>

TypeOK ==
  /\ typed \in Session /\ reader.taken \in 0 .. Len(typed)
  /\ reader.pc \in {"poll", "full", "refused"}
  /\ Len(reader.line) <= Buffer /\ ToSet(reader.line) \subseteq DOMAIN typed
  /\ Len(stdin) <= Depth /\ Len(stdout) <= Depth
  /\ \A i \in DOMAIN stdout : stdout[i] \in Output \cup {Other}
  /\ main.pc \in {"loop", "walk", "found", "echo", "forward"}
  /\ main.key \in Key
  /\ CLI_MODE \in BOOLEAN /\ MUX \in App \cup {None}
  /\ aux.pc \in {"test", "eval", "read", "wait", "write", "again"}
  /\ aux.from \in App \cup {None} /\ aux.held \in Output \cup {Other}
  /\ listen.pc \in {"open", "read", "link", "fill", "reply"}
  /\ IsInjective(MUX_LIST) /\ filled \subseteq ToSet(MUX_LIST) /\ ToSet(MUX_LIST) \subseteq App
  /\ \A a \in App : Len(in[a]) <= Depth /\ Len(out[a]) <= Depth

Init ==
  /\ typed \in Session /\ stdin = <<>> /\ stdout = <<>>
  /\ reader = [pc |-> "poll", taken |-> 0, line |-> <<>>]
  /\ shown = [a \in App |-> <<>>]
  /\ main = [pc |-> "loop", rest |-> <<>>, junk |-> FALSE, key |-> "char", send |-> <<>>]
  /\ CLI_MODE = TRUE /\ MUX = None
  /\ aux = [pc |-> "test", from |-> None, held |-> Other]
  /\ listen \in [pc : {"open"}, from : {None}, exact : {TRUE}, zeros : SUBSET Range(Length)]
  /\ MUX_LIST = <<>> /\ filled = {} /\ request = <<>>
  /\ reply = [a \in App |-> "none"]
  /\ in = [a \in App |-> <<>>] /\ out = [a \in App |-> <<>>]
  /\ app = [a \in App |-> "start"]
  /\ printed = [a \in App |-> 0]
  /\ got = [a \in App |-> <<>>]

HasRoom(pipe) == Len(pipe) < Depth

-----------------------------------------------------------------------------
\* The I/O server.

\* The stdin thread takes a character from the UART.
ReadKey ==
  /\ reader.pc = "poll" /\ Len(reader.line) < Buffer /\ reader.taken < Len(typed)
  /\ reader' = [reader EXCEPT !.taken = @ + 1, !.line = Append(@, reader.taken + 1)]
  /\ UNCHANGED <<typed, stdin, stdout, shown, cliVars, aux, regVars, appVars>>

\* It writes its buffer when that is full or nothing has come for a while.  A
\* full pipe blocks it, and the result of that write is not looked at.
Flush ==
  /\ reader.pc = "poll" /\ reader.line # <<>>
  /\ IF HasRoom(stdin)
       THEN /\ stdin' = Append(stdin, reader.line)
            /\ reader' = [reader EXCEPT !.line = <<>>]
       ELSE /\ reader' = [reader EXCEPT !.pc = "full"]
            /\ UNCHANGED stdin
  /\ UNCHANGED <<typed, stdout, shown, cliVars, aux, regVars, appVars>>

\* Woken, the write returns SYSCALL_RESULT_PIPE_FULL and count is reset.
FlushRefused ==
  /\ reader.pc = "refused"
  /\ reader' = [reader EXCEPT !.pc = "poll", !.line = <<>>]
  /\ UNCHANGED <<typed, stdin, stdout, shown, cliVars, aux, regVars, appVars>>

\* The main thread writes a message of "stdout" to the UART.
Display ==
  /\ stdout # <<>>
  /\ LET item == Head(stdout) IN
       shown' = IF item[1] = None THEN shown
                ELSE [shown EXCEPT ![item[1]] = Append(@, item[2])]
  /\ stdout' = Tail(stdout)
  /\ UNCHANGED <<typed, reader, stdin, cliVars, aux, regVars, appVars>>

\* A read of "stdin" takes a message and wakes the stdin thread.
ReadStdin ==
  /\ stdin # <<>>
  /\ stdin' = Tail(stdin)
  /\ reader' = [reader EXCEPT !.pc = IF @ = "full" THEN "refused" ELSE @]
  /\ UNCHANGED <<typed, shown>>

-----------------------------------------------------------------------------
\* The terminal server's main thread.

\* The command line has used up its buffer and reads a message.
FillCommandLine ==
  /\ main.pc = "loop" /\ CLI_MODE /\ main.rest = <<>>
  /\ ReadStdin
  /\ main' = [main EXCEPT !.rest = Head(stdin)]
  /\ UNCHANGED <<stdout, CLI_MODE, MUX, aux, regVars, appVars>>

\* cli_loop takes the next character; what is not a command spoils the line
\* for the command that follows.  attach_N begins by forgetting the old MUX.
CommandKey ==
  /\ main.pc = "loop" /\ CLI_MODE /\ main.rest # <<>>
  /\ LET key == typed[Head(main.rest)]
         attach == key \in App /\ ~main.junk IN
       /\ main' = [main EXCEPT !.rest = Tail(@), !.key = key, !.junk = key \notin App,
                               !.pc = IF attach THEN "walk" ELSE "echo"]
       /\ MUX' = IF attach THEN None ELSE MUX
  /\ UNCHANGED <<ioVars, stdout, CLI_MODE, aux, regVars, appVars>>

\* attach_N looks for the name.  A record that is linked but not filled in has
\* none: app_key is NULL, the comparison reads the code at address 0 and fails.
AttachWalk ==
  /\ main.pc = "walk"
  /\ MUX' = IF main.key \in filled THEN main.key ELSE None
  /\ main' = [main EXCEPT !.pc = IF main.key \in filled THEN "found" ELSE "echo"]
  /\ UNCHANGED <<ioVars, stdout, CLI_MODE, aux, regVars, appVars>>

\* The command line writes to "stdout"; after "attaching to" comes CLI_MODE.
CommandEcho ==
  /\ main.pc \in {"found", "echo"} /\ HasRoom(stdout)
  /\ stdout' = Append(stdout, Other)
  /\ CLI_MODE' = (main.pc = "echo")
  /\ main' = [main EXCEPT !.pc = "loop"]
  /\ UNCHANGED <<ioVars, MUX, aux, regVars, appVars>>

Position(line) == {i \in DOMAIN line : typed[line[i]] = "etx"}

\* Slip: off by one.
UpToEtxIncluded(line) ==
  IF Position(line) = {} THEN line ELSE SubSeq(line, 1, Min(Position(line)))

\* "send everything up to this point, but not the ETX".
UpToEtx(line) ==
  IF Position(line) = {} THEN line ELSE SubSeq(line, 1, Min(Position(line)) - 1)

\* In forward mode it reads a message; an ETX in it ends the mode.
ForwardRead ==
  /\ main.pc = "loop" /\ ~CLI_MODE
  /\ ReadStdin
  /\ main' = [main EXCEPT !.pc = "forward", !.send = UpToEtx(Head(stdin))]
  /\ CLI_MODE' = (Position(Head(stdin)) # {})
  /\ UNCHANGED <<stdout, MUX, aux, regVars, appVars>>

\* It writes to MUX->in until there is room; an empty message is refused.
ForwardWrite ==
  /\ main.pc = "forward"
  /\ IF main.send = <<>> THEN UNCHANGED in
     ELSE HasRoom(in[MUX]) /\ in' = [in EXCEPT ![MUX] = Append(@, main.send)]
  /\ main' = [main EXCEPT !.pc = "loop", !.send = <<>>]
  /\ UNCHANGED <<ioVars, stdout, CLI_MODE, MUX, aux, regVars, out, app, printed, got>>

-----------------------------------------------------------------------------
\* The terminal server's aux thread.

AuxGoes(pc) == aux' = [aux EXCEPT !.pc = pc]

\* In command mode it sleeps and looks again.
AuxTest ==
  /\ aux.pc = "test" /\ ~CLI_MODE
  /\ AuxGoes("eval")
  /\ UNCHANGED <<ioVars, stdout, cliVars, regVars, appVars>>

\* MUX->out, evaluated for every read; CLI_MODE is not looked at again.  With
\* MUX NULL the id is what lies near address 0, where the code is: there is no
\* such pipe, the loop ends, and what was read last is written once more.
AuxEval ==
  /\ aux.pc = "eval"
  /\ aux' = [aux EXCEPT !.pc = IF MUX = None THEN "again" ELSE "read", !.from = MUX]
  /\ UNCHANGED <<ioVars, stdout, cliVars, regVars, appVars>>

AuxRead ==
  /\ aux.pc = "read"
  /\ IF out[aux.from] = <<>>
       THEN AuxGoes("wait") /\ UNCHANGED out
       ELSE /\ aux' = [aux EXCEPT !.pc = "write", !.held = <<aux.from, Head(out[aux.from])>>]
            /\ out' = [out EXCEPT ![aux.from] = Tail(@)]
  /\ UNCHANGED <<ioVars, stdout, cliVars, regVars, in, app, printed, got>>

\* Slip: the write is not tried again.
AuxWriteOnce ==
  /\ aux.pc = "write"
  /\ stdout' = IF HasRoom(stdout) THEN Append(stdout, aux.held) ELSE stdout
  /\ AuxGoes("test")
  /\ UNCHANGED <<ioVars, cliVars, regVars, appVars>>

AuxWrite == HasRoom(stdout) /\ AuxWriteOnce

\* If nothing was read yet, sz is whatever was on the stack, perhaps too much.
AuxWriteAgain ==
  /\ aux.pc = "again" /\ AuxGoes("test")
  /\ \/ HasRoom(stdout) /\ stdout' = Append(stdout, aux.held)
     \/ aux.held = Other /\ UNCHANGED stdout
  /\ UNCHANGED <<ioVars, cliVars, regVars, appVars>>

-----------------------------------------------------------------------------
\* The terminal server's listen thread.

ListenGoes(pc) == listen' = [listen EXCEPT !.pc = pc]

\* It creates the request pipe.
ListenOpen ==
  /\ listen.pc = "open" /\ ListenGoes("read")
  /\ UNCHANGED <<ioVars, stdout, cliVars, aux, MUX_LIST, filled, request, reply, appVars>>

\* Neither is a 0 sent nor the buffer cleared, so a name is read as it was sent
\* if the buffer happens to hold a 0 behind it, and else with what is there.
Misread(a) == Length[a] \notin listen.zeros

\* It reads a name over the previous one and creates pipes for what that makes.
ListenRead ==
  /\ listen.pc = "read" /\ request # <<>>
  /\ LET a == Head(request) IN
       listen' = [pc |-> "link", from |-> a, exact |-> ~Misread(a),
                  zeros |-> listen.zeros \ (0 .. Length[a] - 1)]
  /\ request' = Tail(request)
  /\ UNCHANGED <<ioVars, stdout, cliVars, aux, MUX_LIST, filled, reply, appVars>>

\* mux_list_append links the new node before it fills it in.
ListenLink ==
  /\ listen.pc = "link" /\ ListenGoes("fill")
  /\ MUX_LIST' = Append(MUX_LIST, listen.from)
  /\ UNCHANGED <<ioVars, stdout, cliVars, aux, filled, request, reply, appVars>>

ListenFill ==
  /\ listen.pc = "fill" /\ ListenGoes("reply")
  /\ filled' = IF listen.exact THEN filled \cup {listen.from} ELSE filled
  /\ UNCHANGED <<ioVars, stdout, cliVars, aux, MUX_LIST, request, reply, appVars>>

\* It answers.  If no pipe has the name, reply_channel becomes what lies near
\* address 0 (PipeIdGet of PipeRegistry), and the answer is lost.
ListenReply ==
  /\ listen.pc = "reply" /\ ListenGoes("read")
  /\ reply' = [reply EXCEPT ![listen.from] = IF @ # "none" /\ listen.exact THEN "sent" ELSE @]
  /\ UNCHANGED <<ioVars, stdout, cliVars, aux, MUX_LIST, filled, request, appVars>>

-----------------------------------------------------------------------------
\* An application.

\* libc_init creates the reply pipe before anything else.
AppStart(a) ==
  /\ app[a] = "start" /\ app' = [app EXCEPT ![a] = "poll"]
  /\ reply' = [reply EXCEPT ![a] = "empty"]
  /\ UNCHANGED <<ioVars, stdout, cliVars, aux, listen, MUX_LIST, filled, request,
                 in, out, printed, got>>

SendName(a) ==
  /\ listen.pc # "open" /\ HasRoom(request)
  /\ app' = [app EXCEPT ![a] = "await"]
  /\ request' = Append(request, a)
  /\ UNCHANGED <<ioVars, stdout, cliVars, aux, listen, MUX_LIST, filled, reply,
                 in, out, printed, got>>

\* Slip: the name is sent first.
AppAskFirst(a) == app[a] \in {"start", "poll"} /\ SendName(a)

\* Once there is a request pipe it sends its name.
AppAsk(a) == app[a] = "poll" /\ SendName(a)

AppAnswered(a) ==
  /\ app[a] = "await" /\ reply[a] = "sent"
  /\ app' = [app EXCEPT ![a] = "run"]
  /\ reply' = [reply EXCEPT ![a] = "empty"]
  /\ UNCHANGED <<ioVars, stdout, cliVars, aux, listen, MUX_LIST, filled, request,
                 in, out, printed, got>>

\* It prints, again and again until there is room, and wakes a reader.
AppPrint(a) ==
  /\ app[a] = "run" /\ printed[a] < MaxPrints /\ HasRoom(out[a])
  /\ printed' = [printed EXCEPT ![a] = @ + 1]
  /\ out' = [out EXCEPT ![a] = Append(@, printed[a] + 1)]
  /\ aux' = [aux EXCEPT !.pc = IF @ = "wait" /\ aux.from = a THEN "eval" ELSE @]
  /\ UNCHANGED <<ioVars, stdout, cliVars, regVars, in, app, got>>

AppRead(a) ==
  /\ app[a] = "run" /\ in[a] # <<>>
  /\ got' = [got EXCEPT ![a] = @ \o Head(in[a])]
  /\ in' = [in EXCEPT ![a] = Tail(@)]
  /\ UNCHANGED <<ioVars, stdout, cliVars, aux, regVars, out, app, printed>>

-----------------------------------------------------------------------------

IoServer == Flush \/ FlushRefused \/ Display
MainThread == \/ FillCommandLine \/ CommandKey \/ AttachWalk \/ CommandEcho
              \/ ForwardRead \/ ForwardWrite
AuxThread == AuxTest \/ AuxEval \/ AuxRead \/ AuxWrite \/ AuxWriteAgain
ListenThread == ListenOpen \/ ListenRead \/ ListenLink \/ ListenFill \/ ListenReply
StartUp(a) == AppStart(a) \/ AppAsk(a) \/ AppAnswered(a)

Next ==
  \/ ReadKey \/ IoServer \/ MainThread \/ AuxThread \/ ListenThread
  \/ \E a \in App : StartUp(a) \/ AppPrint(a) \/ AppRead(a)

Spec == Init /\ [][Next]_vars

\* The scheduler lets each thread run again and again.  Nobody has to type and
\* no application has to print.
FairSpec ==
  /\ Spec
  /\ WF_vars(Flush) /\ WF_vars(FlushRefused) /\ WF_vars(Display)
  /\ WF_vars(MainThread) /\ WF_vars(AuxThread) /\ WF_vars(ListenThread)
  /\ \A a \in App : WF_vars(StartUp(a)) /\ WF_vars(AppRead(a))

-----------------------------------------------------------------------------

Increasing(line) == \A i, j \in DOMAIN line : i < j => line[i] < line[j]

Before(S, T) == \A x \in S, y \in T : x < y

\* The keys in a pipe of messages, and that reading it gives them in order.
Keys(pipe) == UNION {ToSet(line) : line \in ToSet(pipe)}

InOrder(pipe) ==
  /\ \A line \in ToSet(pipe) : Increasing(line)
  /\ \A i, j \in DOMAIN pipe : i < j => Before(ToSet(pipe[i]), ToSet(pipe[j]))

\* How much of what a printed the aux thread has read, and has passed on; and
\* where in "stdout" that output is.
Taken(a) == printed[a] - Len(out[a])

Sent(a) == IF aux.pc = "write" /\ aux.held[1] = a THEN Taken(a) - 1 ELSE Taken(a)

Mine(a) == {i \in DOMAIN stdout : stdout[i][1] = a}

\* Who attaches only once in a session sees everything once.
AttachesOnce == \A j, k \in DOMAIN typed : typed[j] \in App /\ typed[k] \in App => j = k

Gap == IF AttachesOnce THEN 1 ELSE 0

\* What an application has printed is on the screen, in the "stdout" pipe, in
\* the aux thread's buffer or in the application's pipe, in order, whatever is
\* typed, attached and detached meanwhile.  No message is lost: the aux thread's
\* retried write carries them across a full pipe.  The one read last may come
\* again, but only for somebody who attaches a second time (attach_N clears MUX
\* under the aux thread, terminal-server.c:248).
OutputConserved ==
  \A a \in App : \E seen \in 0 .. Sent(a) :
    LET passing == {stdout[i][2] : i \in Mine(a)} IN
      /\ ToSet(shown[a]) = 1 .. seen
      /\ \A i, j \in DOMAIN shown[a] : i < j => shown[a][i] + Gap <= shown[a][j]
      /\ seen + 1 .. Sent(a) \subseteq passing /\ passing \subseteq seen + Gap .. Sent(a)
      /\ \A i, j \in Mine(a) : i < j => stdout[i][2] + Gap <= stdout[j][2]
      /\ aux.held[1] = a => aux.held[2] = Taken(a)
      /\ out[a] = [i \in 1 .. Len(out[a]) |-> Taken(a) + i]

\* An application is given keys in the order they were typed, only ones typed
\* after a command that attaches to it, and never the ETX (terminal-server.c:129).
KeysInOrder ==
  \A a \in App :
    /\ Increasing(got[a]) /\ InOrder(in[a]) /\ Before(ToSet(got[a]), Keys(in[a]))
    /\ \A key \in ToSet(got[a]) \cup Keys(in[a]) :
         typed[key] # "etx" /\ \E k \in 1 .. key - 1 : typed[k] = a

\* An application is given its pipes, whatever the terminal server's other
\* threads do, if its name is no shorter than any that the listen thread may
\* have in its buffer, and a 0 was behind it from the start
\* (terminal-server.c:153).  libc_init waits without a timeout, so an
\* application whose answer is lost waits for ever.
Registered ==
  \A a \in App : (\A b \in App : Length[b] <= Length[a]) /\ ~Misread(a) => <>(app[a] = "run")
=============================================================================
