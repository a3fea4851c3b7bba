---------------------------- MODULE ChatSession ----------------------------
(***************************************************************************)
(* One client program and the server's handler for its connection, joined by *)
(* a stream of characters in each direction.  TCP may deliver a stream in     *)
(* parts of any length: a recv() returns some of what has arrived.           *)
(*                                                                         *)
(* The handler is handleClient of server.cpp as this connection sees it; what *)
(* it shares with other handlers is the subject of ChatServer.  Here they,    *)
(* the operator and the limit on clients may do anything they might do, and    *)
(* may hold clients_mutex for any time, for instance while one of them waits   *)
(* in send() for a client that does not read.                                *)
(***************************************************************************)
EXTENDS ChatClient

CONSTANT MaxTold   \* bound: answers, and messages of others

\* What the server says is short here: a character for each kind of line.
ASSUME SessionAssumption ==
  /\ MaxTold \in Nat
  /\ {"w", "p", "f", "i", "e", "r", "g", "m", "k"} \subseteq Chars

VARIABLES
  hpc,      \* where the handler is
  taken,    \* what it took for the username, and then for one message each
  told,     \* answers, and messages of others, so far
  held      \* another thread holds clients_mutex

handlerVars == <<hpc, taken, told, held>>
vars == <<clientVars, handlerVars>>

Init ==
  /\ ClientInit
  /\ hpc = "accept" /\ taken = <<>> /\ told = 0 /\ held = FALSE

\* What the server says: a prompt, and lines.
Prompt == <<"w", NL, "p">>
Says(c) == <<c, NL>>

SendDown(text) == down' = IF open THEN down \o text ELSE down

\* A last text, and close() of the server's end.  With characters unread the
\* connection is reset, and the client may lose what it has not read yet.
CloseRemote(unread, text) ==
  /\ remote' = IF unread = <<>> THEN "closed" ELSE "reset"
  /\ SendDown(text) \/ (unread # <<>> /\ down' = <<>>)
  /\ up' = <<>>

-----------------------------------------------------------------------------
\* acceptConnections looks whether the table is full, and starts the handler.
Accept ==
  /\ hpc = "accept" /\ pc[Receiver] # "none" /\ ~held
  /\ SendDown(Prompt)
  /\ hpc' = "name"
  /\ UNCHANGED <<socketVars, pc, next, up, remote, userVars, screenVars, taken, told, held>>

Refuse ==
  /\ hpc = "accept" /\ pc[Receiver] # "none" /\ ~held
  /\ CloseRemote(up, Says("f"))
  /\ hpc' = "left"
  /\ UNCHANGED <<socketVars, pc, next, userVars, screenVars, taken, told, held>>

\* Mutant: the terminator overwrites the last character.
ShortMessage(n) == Without(SubSeq(up, 1, n - 1), NL)

\* Mutant: the line feeds stay.
RawMessage(n) == SubSeq(up, 1, n)

\* What the handler makes of the n characters that one recv() returned.
Message(n) == Without(SubSeq(up, 1, n), NL)

Recv(n) ==
  /\ n \in 1..Len(up) /\ n <= BufSize
  /\ up' = SubSeq(up, n + 1, Len(up))
  /\ paced' = (paced /\ n = Len(up))

\* The username; an empty one is replaced.
ReadsName(n) ==
  /\ hpc = "name" /\ Recv(n)
  /\ taken' = <<Message(n)>>
  /\ hpc' = "register"
  /\ UNCHANGED <<socketVars, pc, next, down, remote, line, typed, screenVars, told, held>>

\* Somebody has that name.
NameTaken ==
  /\ hpc = "register" /\ ~held
  /\ CloseRemote(up, Says("e"))
  /\ hpc' = "left"
  /\ UNCHANGED <<socketVars, pc, next, userVars, screenVars, taken, told, held>>

\* The instructions; then the others are told.  What another one says in between comes
\* here after the instructions, which no property tells apart.
Joins ==
  /\ hpc = "register" /\ ~held
  /\ SendDown(Says("i"))
  /\ hpc' = "shared"
  /\ UNCHANGED <<socketVars, pc, next, up, remote, userVars, screenVars, taken, told, held>>

\* Another line for the client, one of those that MaxTold bounds.
Tells(c) == told < MaxTold /\ SendDown(Says(c)) /\ told' = told + 1

TellsNothing == UNCHANGED <<down, told>>

\* One message.  /quit is answered and ends the loop.  What another one says is left
\* open: it may lead to nothing, as an empty one does, to an answer, or to work with
\* the other clients.
Hears(n) ==
  /\ hpc = "chat" /\ Recv(n)
  /\ taken' = IF Message(n) = <<>> THEN taken ELSE Append(taken, Message(n))
  /\ \/ Message(n) = Quit /\ SendDown(Says("g")) /\ hpc' = "leaving" /\ UNCHANGED told
     \/ Message(n) # Quit /\ TellsNothing /\ UNCHANGED hpc
     \/ Message(n) \notin {<<>>, Quit} /\ Tells("r") /\ UNCHANGED hpc
     \/ Message(n) \notin {<<>>, Quit} /\ TellsNothing /\ hpc' = "shared"
  /\ UNCHANGED <<socketVars, pc, next, remote, line, typed, screenVars, held>>

\* broadcastMessage, or sendPrivateMessage or sendUserList, which answer.
Shares ==
  /\ hpc = "shared" /\ ~held
  /\ Tells("r") \/ TellsNothing
  /\ hpc' = "chat"
  /\ UNCHANGED <<socketVars, pc, next, up, remote, userVars, screenVars, taken, held>>

InTable == hpc \in {"shared", "chat"}

\* Another client's message, or the operator's.
Relay ==
  /\ InTable /\ Tells("m")
  /\ UNCHANGED <<socketVars, pc, next, up, remote, userVars, screenVars, hpc, taken, held>>

\* Mutant: 0 is taken for an empty message.
EndIsEmptyMessage ==
  /\ hpc \in {"name", "chat"} /\ ~open /\ up = <<>>
  /\ UNCHANGED vars

\* recv() returns 0 or an error.
PeerGone ==
  /\ hpc \in {"name", "chat"} /\ ~open /\ up = <<>>
  /\ hpc' = "leaving"
  /\ UNCHANGED <<clientVars, taken, told, held>>

\* The others are told before the handler closes.
Leave ==
  /\ hpc = "leaving" /\ ~held
  /\ CloseRemote(up, <<>>)
  /\ hpc' = "left"
  /\ UNCHANGED <<socketVars, pc, next, userVars, screenVars, taken, told, held>>

\* kickUser, or stop(), for one who joined.
Kick ==
  /\ InTable
  /\ CloseRemote(up, Says("k"))
  /\ hpc' = "left"
  /\ UNCHANGED <<socketVars, pc, next, userVars, screenVars, taken, told, held>>

\* The end of the server's process.
ServerEnds ==
  /\ hpc # "left" /\ pc[Receiver] # "none"
  /\ CloseRemote(up, <<>>)
  /\ hpc' = "left"
  /\ UNCHANGED <<socketVars, pc, next, userVars, screenVars, taken, told, held>>

\* Another thread locks clients_mutex, which matters where this one needs it, or
\* unlocks it.
OthersLock ==
  /\ hpc \in {"accept", "register", "shared", "leaving"} /\ ~held
  /\ held' = TRUE
  /\ UNCHANGED <<clientVars, hpc, taken, told>>

OthersUnlock ==
  /\ held /\ held' = FALSE
  /\ UNCHANGED <<clientVars, hpc, taken, told>>

HandlerStep ==
  \/ Accept \/ Refuse \/ NameTaken \/ Joins \/ Shares \/ PeerGone \/ Leave
  \/ \E n \in 1..Len(up) : ReadsName(n) \/ Hears(n)

OthersStep == Relay \/ Kick \/ ServerEnds \/ OthersLock \/ OthersUnlock

Over == pc[Main] = "end" /\ UNCHANGED vars

Next ==
  \/ ClientStep /\ UNCHANGED handlerVars
  \/ HandlerStep \/ OthersStep
  \/ Over

Spec == Init /\ [][Next]_vars

\* Every thread is scheduled, and a handler gets clients_mutex that finds it free
\* again and again.  The user, the operator and others owe nothing, not even to unlock.
Fairness ==
  /\ WF_vars(MainStep /\ UNCHANGED handlerVars)
  /\ WF_vars(ReceiverStep /\ UNCHANGED handlerVars)
  /\ SF_vars(HandlerStep)

FairSpec == Spec /\ Fairness

-----------------------------------------------------------------------------
(* Correctness properties.                                                  *)

Closing == {"disconnect", "check", "close", "forget", "end"}
MainLabels ==
  {"connect", "test", "getline", "send", "sending", "quit", "join", "destroy"} \cup Closing
ReceiverLabels == {"none", "test", "recv"} \cup Closing

\* What decides where the two threads go.
ControlOK ==
  /\ client_socket \in {"handle", "invalid"} /\ open \in BOOLEAN
  /\ connected \in BOOLEAN /\ running \in BOOLEAN
  /\ pc \in [Threads -> MainLabels \cup ReceiverLabels]
  /\ pc[Main] \in MainLabels /\ pc[Receiver] \in ReceiverLabels
  /\ next \in [Threads -> {"none", "test", "quit", "join", "end"}]

\* Every variable has its type.
TypeOK ==
  /\ ControlOK
  /\ line \in Lines \cup {Quit, <<>>}
  /\ up \in Seq(Chars) /\ down \in Seq(Chars)
  /\ remote \in {"open", "closed", "reset"}
  /\ typed \in Seq(Lines \cup {Quit}) /\ Len(typed) <= MaxLines /\ paced \in BOOLEAN
  /\ received \in Seq(Chars) /\ shown \in Seq(Seq(Chars))
  /\ hpc \in {"accept", "name", "register", "shared", "chat", "leaving", "left"}
  /\ taken \in Seq(Seq(Chars)) /\ told \in 0..MaxTold /\ held \in BOOLEAN

\* However the two threads meet in disconnect(), the handle is not forgotten while it
\* is open, and when main returns it is closed and the receive thread is over.
NothingLeftOpen ==
  /\ client_socket = "invalid" => ~open
  /\ pc[Main] = "end" => ~open /\ pc[Receiver] \in {"none", "end"}

\* The handle is closed only after both flags were cleared: a thread that finds them
\* set has an open handle at that moment, although disconnect() takes no lock.
FlagsBeforeClose == (running \/ connected) => open

\* What the server takes, its text put together, begins what the user typed: nothing
\* in between is lost, doubled or reordered, wherever recv() cuts the stream and
\* whenever the connection ends.
HeardInOrder == IsPrefix(FlattenSeq(taken), FlattenSeq(typed))

\* When one recv() of the server has read each line before the next was sent, every
\* line is one message (the first the username); that is the only framing there is.
PacedLinesAreMessages == paced => IsPrefix(taken, typed)

\* Where lines end in what the client received, and where pieces end that it
\* printed, counted in characters other than line feeds.
LineEnds ==
  {Len(Without(SubSeq(received, 1, i), NL)) : i \in {j \in DOMAIN received : received[j] = NL}}
PieceEnds == {Len(FlattenSeq(SubSeq(shown, 1, i))) : i \in 0..Len(shown)}

\* The client prints every character it received, in order, and never text of two
\* lines of the server as one, however they were delivered.
ShownKeepsLines ==
  /\ FlattenSeq(shown) = Without(received, NL)
  /\ LineEnds \subseteq PieceEnds

\* Who types /quit gets out: the receive thread is woken and joined even when the
\* server does not see the command.
QuitEnds == next[Main] = "quit" ~> pc[Main] = "end"

\* The user goes on typing, or the input ends.
InputGoesOn == []<>(pc[Main] # "getline")

\* When the server has closed the connection the client ends with the next input.
LostEnds == InputGoesOn => (remote # "open" ~> pc[Main] = "end")

\* Whoever holds clients_mutex gives it up again: nobody waits in send() for ever.
MutexFreed == []<>~held

\* When the client is gone its handler leaves.  It tells the others first, and so waits
\* for clients_mutex before it closes.
HandlerLeaves ==
  MutexFreed => (pc[Main] = "end" /\ pc[Receiver] = "end" ~> hpc = "left")
=============================================================================
