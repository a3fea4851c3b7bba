----------------------------- MODULE ChatClient -----------------------------
(***************************************************************************)
(* The client program, client.cpp: a main thread that reads what the user    *)
(* types and a receive thread, which share the socket, the flags connected    *)
(* and running, and disconnect().                                           *)
(*                                                                         *)
(* The connection is two streams of characters, up to the server and down    *)
(* to the client, and what is known of the server's end.  ChatSession adds    *)
(* the server.                                                              *)
(***************************************************************************)
EXTENDS Texts

CONSTANTS
  Chars,     \* the characters there are
  Lines,     \* lines that the user may type and the client sends as they are
  Quit,      \* the line /quit
  MaxLines,  \* bound: lines typed
  BufSize    \* the most that one recv() takes

ASSUME ClientAssumption ==
  /\ NL \in Chars
  /\ Lines \cup {Quit} \subseteq Seq(Chars \ {NL}) \ {<<>>}
  /\ MaxLines \in Nat /\ BufSize \in Nat \ {0}

Main == "main"
Receiver == "receiver"
Threads == {Main, Receiver}

VARIABLES
  client_socket,       \* "handle" or "invalid"
  open,                \* that handle is open
  connected, running,
  pc, next,            \* where each thread is, and where disconnect() or
                       \* sendMessage() returns to
  line,                \* the argument of sendMessage()
  up, down,            \* characters under way
  remote,              \* the server's end: "open", "closed", or "reset"
  typed, paced,        \* the lines given to sendMessage(), and whether the server
                       \* had read the last one, at once, whenever one was sent
  received, shown      \* what recv() returned, and the pieces that were printed

socketVars == <<client_socket, open, connected, running>>
netVars == <<up, down, remote>>
userVars == <<line, typed, paced>>
screenVars == <<received, shown>>
clientVars == <<socketVars, pc, next, netVars, userVars, screenVars>>

ClientInit ==
  /\ client_socket = "invalid" /\ open = FALSE
  /\ connected = FALSE /\ running = FALSE
  /\ pc = [t \in Threads |-> IF t = Main THEN "connect" ELSE "none"]
  /\ next = [t \in Threads |-> "none"]
  /\ line = <<>> /\ up = <<>> /\ down = <<>> /\ remote = "open"
  /\ typed = <<>> /\ paced = TRUE /\ received = <<>> /\ shown = <<>>

Goto(t, label) == pc' = [pc EXCEPT ![t] = label]

-----------------------------------------------------------------------------
(* connect() and run().                                                     *)

Connect ==
  /\ pc[Main] = "connect"
  /\ client_socket' = "handle" /\ open' = TRUE
  /\ connected' = TRUE /\ running' = TRUE
  /\ pc' = [t \in Threads |-> "test"]
  /\ UNCHANGED <<next, netVars, userVars, screenVars>>

\* The handle is closed again, but client_socket keeps its value when there was one.
ConnectFails ==
  /\ pc[Main] = "connect"
  /\ client_socket' \in {"handle", "invalid"}
  /\ Goto(Main, "destroy")
  /\ UNCHANGED <<open, connected, running, next, netVars, userVars, screenVars>>

Join ==
  /\ pc[Main] = "join" /\ pc[Receiver] = "end"
  /\ Goto(Main, "destroy")
  /\ UNCHANGED <<socketVars, next, netVars, userVars, screenVars>>

\* Mutant: the second disconnect() returns to where the first one did.
DestroyAgain ==
  /\ pc[Main] = "destroy"
  /\ Goto(Main, "disconnect")
  /\ UNCHANGED <<socketVars, next, netVars, userVars, screenVars>>

\* ~ChatClient at the end of main.
Destroy ==
  /\ pc[Main] = "destroy"
  /\ Goto(Main, "disconnect") /\ next' = [next EXCEPT ![Main] = "end"]
  /\ UNCHANGED <<socketVars, netVars, userVars, screenVars>>

-----------------------------------------------------------------------------
(* disconnect(), which either thread may be in, or both.                     *)

\* Mutant: connected stays set.
ClearRunningOnly(t) ==
  /\ pc[t] = "disconnect"
  /\ running' = FALSE
  /\ Goto(t, "check")
  /\ UNCHANGED <<client_socket, open, connected, next, netVars, userVars, screenVars>>

ClearFlags(t) ==
  /\ pc[t] = "disconnect"
  /\ running' = FALSE /\ connected' = FALSE
  /\ Goto(t, "check")
  /\ UNCHANGED <<client_socket, open, next, netVars, userVars, screenVars>>

\* Mutant: the handle is forgotten before it is closed.
CheckAndForget(t) ==
  /\ pc[t] = "check"
  /\ Goto(t, IF client_socket = "handle" THEN "close" ELSE next[t])
  /\ client_socket' = "invalid"
  /\ UNCHANGED <<open, connected, running, next, netVars, userVars, screenVars>>

CheckSocket(t) ==
  /\ pc[t] = "check"
  /\ Goto(t, IF client_socket = "handle" THEN "close" ELSE next[t])
  /\ UNCHANGED <<socketVars, next, netVars, userVars, screenVars>>

\* The other thread may have closed the handle, and even reset client_socket, since
\* the check: then close() fails.  Closing with unread characters resets the
\* connection, and the server may lose what it has not read yet.
CloseSocket(t) ==
  LET closes == open /\ client_socket = "handle"
  IN /\ pc[t] = "close"
     /\ open' = (open /\ ~closes)
     /\ \/ UNCHANGED up
        \/ closes /\ down # <<>> /\ up' = <<>>
     /\ down' = IF closes THEN <<>> ELSE down
     /\ Goto(t, "forget")
     /\ UNCHANGED <<client_socket, connected, running, next, remote, userVars,
                    screenVars>>

ForgetSocket(t) ==
  /\ pc[t] = "forget"
  /\ client_socket' = "invalid"
  /\ Goto(t, next[t])
  /\ UNCHANGED <<open, connected, running, next, netVars, userVars, screenVars>>

-----------------------------------------------------------------------------
(* handleUserInput() and sendMessage(), in the main thread.                  *)

InputTest ==
  /\ pc[Main] = "test"
  /\ Goto(Main, IF running /\ connected THEN "getline" ELSE "join")
  /\ UNCHANGED <<socketVars, next, netVars, userVars, screenVars>>

\* An empty line, /help and /clear only print.  The line /ping is sent as "ping".
TypeLocal ==
  /\ pc[Main] = "getline"
  /\ Goto(Main, "test")
  /\ UNCHANGED <<socketVars, next, netVars, userVars, screenVars>>

Type(l) ==
  /\ pc[Main] = "getline" /\ Len(typed) < MaxLines
  /\ line' = l /\ typed' = Append(typed, l)
  /\ Goto(Main, "send")
  /\ next' = [next EXCEPT ![Main] = IF l = Quit THEN "quit" ELSE "test"]
  /\ UNCHANGED <<socketVars, netVars, paced, screenVars>>

EndOfInput ==
  /\ pc[Main] = "getline"
  /\ Goto(Main, "join")
  /\ UNCHANGED <<socketVars, next, netVars, userVars, screenVars>>

SendTest ==
  /\ pc[Main] = "send"
  /\ Goto(Main, IF connected THEN "sending" ELSE next[Main])
  /\ UNCHANGED <<socketVars, next, netVars, userVars, screenVars>>

\* What is sent after the server has closed its end is discarded.
Send ==
  /\ pc[Main] = "sending" /\ open /\ client_socket = "handle" /\ remote # "reset"
  /\ up' = IF remote = "open" THEN up \o line \o <<NL>> ELSE up
  /\ paced' = (paced /\ up = <<>>)
  /\ Goto(Main, next[Main])
  /\ UNCHANGED <<socketVars, next, down, remote, line, typed, screenVars>>

SendFails ==
  /\ pc[Main] = "sending"
  /\ ~open \/ client_socket = "invalid" \/ remote # "open"
  /\ Goto(Main, "disconnect")
  /\ UNCHANGED <<socketVars, next, netVars, userVars, screenVars>>

\* Mutant: /quit leaves the loop without disconnect().
QuitWithoutDisconnect ==
  /\ pc[Main] = "quit"
  /\ Goto(Main, "join")
  /\ UNCHANGED <<socketVars, next, netVars, userVars, screenVars>>

\* After 100 ms, whatever has become of the line until then.
QuitDisconnect ==
  /\ pc[Main] = "quit"
  /\ Goto(Main, "disconnect") /\ next' = [next EXCEPT ![Main] = "join"]
  /\ UNCHANGED <<socketVars, netVars, userVars, screenVars>>

-----------------------------------------------------------------------------
(* receiveMessages(), the receive thread.                                   *)

\* Mutant: line feeds are printed like any other character.
WholeBuffer(buffer) == <<buffer>>

\* The lines of one buffer, and the rest after the last line feed; nothing is
\* printed for an empty one.
Pieces(buffer) == Without(Split(buffer, NL), <<>>)

ReceiveTest ==
  /\ pc[Receiver] = "test"
  /\ Goto(Receiver, IF running /\ connected THEN "recv" ELSE "end")
  /\ UNCHANGED <<socketVars, next, netVars, userVars, screenVars>>

Receive(n) ==
  LET buffer == SubSeq(down, 1, n)
  IN /\ pc[Receiver] = "recv" /\ open /\ client_socket = "handle"
     /\ n \in 1..Len(down) /\ n <= BufSize
     /\ down' = SubSeq(down, n + 1, Len(down))
     /\ received' = received \o buffer /\ shown' = shown \o Pieces(buffer)
     /\ Goto(Receiver, "test")
     /\ UNCHANGED <<socketVars, next, up, remote, userVars>>

RecvFails ==
  /\ pc[Receiver] = "recv"
  /\ ~open \/ client_socket = "invalid" \/ (remote # "open" /\ down = <<>>)

\* Mutant: the loop goes on when recv() returns nothing.
ReceiveGoesOn ==
  /\ RecvFails
  /\ Goto(Receiver, "test")
  /\ UNCHANGED <<socketVars, next, netVars, userVars, screenVars>>

\* A handle that is closed while recv() waits on it makes it fail.
ReceiveEnds ==
  /\ RecvFails
  /\ Goto(Receiver, "disconnect") /\ next' = [next EXCEPT ![Receiver] = "end"]
  /\ UNCHANGED <<socketVars, netVars, userVars, screenVars>>

-----------------------------------------------------------------------------
DisconnectStep(t) == ClearFlags(t) \/ CheckSocket(t) \/ CloseSocket(t) \/ ForgetSocket(t)

UserStep == TypeLocal \/ EndOfInput \/ \E l \in Lines \cup {Quit} : Type(l)

MainStep ==
  \/ Connect \/ ConnectFails \/ Join \/ Destroy \/ InputTest
  \/ SendTest \/ Send \/ SendFails \/ QuitDisconnect
  \/ DisconnectStep(Main)

ReceiverStep ==
  \/ ReceiveTest \/ ReceiveEnds \/ \E n \in 1..Len(down) : Receive(n)
  \/ DisconnectStep(Receiver)

ClientStep == UserStep \/ MainStep \/ ReceiverStep
=============================================================================
