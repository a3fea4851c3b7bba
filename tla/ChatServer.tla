----------------------------- MODULE ChatServer -----------------------------
(***************************************************************************)
(* The chat server of server.cpp: the acceptor thread, one handler thread   *)
(* per connection and the console thread, over the vector `clients` of      *)
(* Client objects, the mutex that protects that vector, and the table of    *)
(* socket handles the operating system keeps for the process.               *)
(*                                                                         *)
(* A connection names three things at once: the TCP connection, the handler *)
(* thread started for it and the Client object make_unique'd for it.  The   *)
(* three are told apart by the variables: fd maps a handle to the TCP       *)
(* connection behind it, ptr the thread to the object it works on.          *)
(***************************************************************************)
EXTENDS Integers, Sequences, SequencesExt

CONSTANTS
  Conns,       \* the connections that may be attempted
  Handles,     \* the socket handles the process can be given
  Typed,       \* what a peer may type at the username prompt
  Blank,       \* the empty line, and "no name"
  None,        \* no connection, no handle, the null Client*
  MaxClients,  \* the -m option as an int: any sign
  Sendable,    \* the kinds of lines peers send besides /quit
  MaxLines,    \* bound: how many of them the peers send in all
  Commands,    \* the console commands the operator may give
  MaxCommands, \* bound: broadcast and kick commands given
  Stallers,    \* the peers that may stop reading their socket
  Observed     \* the kinds of messages whose delivery is recorded

Console == "console"
Unlocked == "unlocked"

\* "Anonymous_" + std::to_string(socket)
Anonymous(h) == <<"Anonymous", h>>

\* The username kept for a typed line, newline characters removed.
UsernameOf(t, h) == IF t = Blank THEN Anonymous(h) ELSE t

Usernames == {UsernameOf(t, h) : t \in Typed, h \in Handles}

ASSUME ConnsAssumption ==
  /\ None \notin Conns \cup Handles
  /\ {Console, Unlocked} \cap Conns = {}

ASSUME BoundsAssumption ==
  /\ MaxClients \in Int
  /\ MaxLines \in Nat
  /\ MaxCommands \in Nat
  /\ Sendable \subseteq {"chat", "pm", "list"}
  /\ Commands \subseteq {"broadcast", "kick", "connect", "stop", "eof"}
  /\ Stallers \subseteq Conns

VARIABLES
  proc,       \* the server process: "up", "exited" or "crashed"
  running,    \* ChatServer::running
  listening,  \* server_socket is open
  link,       \* the connection to another server, and what that server did
  mutex,      \* the owner of clients_mutex across steps
  pos, hit,   \* the owner's loop over clients: position, and its test passed
  clients,    \* the vector, as a sequence of Client objects
  name, sock, active, \* the fields of each Client object
  freed,      \* the Client objects that were destroyed
  fd,         \* the connection behind each open handle
  peer,       \* each remote end: "away", "live", "stalled" or "gone"
  said,       \* the number of lines the peers sent
  inbox,      \* the observed messages each peer was sent, in order
  apc, fresh, \* the acceptor and the connection it just accepted
  pc, ptr, line,              \* each handler, its client_ptr, its message
  cpc, target, issued, stops  \* the console; stops: calls of stop() to come

serverVars == <<proc, running, listening, link>>
lockVars == <<mutex, pos, hit>>
tableVars == <<clients, name, sock, active, freed>>
netVars == <<fd, peer, said, inbox>>
acceptorVars == <<apc, fresh>>
handlerVars == <<pc, ptr, line>>
consoleVars == <<cpc, target, issued, stops>>
outsideHandlers == <<serverVars, acceptorVars, consoleVars>>
outsideConsole == <<acceptorVars, handlerVars>>
outsideAcceptor == <<serverVars, handlerVars, consoleVars>>
vars == <<serverVars, lockVars, tableVars, netVars, acceptorVars, handlerVars,
          consoleVars>>

\* What a handler read from its socket and has still to process: the name a
\* /pm is for, the connection the bytes came from, and a number for the line.
NoLine == [to |-> Blank, src |-> None, n |-> 0]
Lines == [to : Usernames \cup {Blank}, src : Conns \cup {None}, n : 0..MaxLines]

\* What the server writes to a socket, as far as some property tells it apart.
Messages ==
  [kind : {"joined", "left"}, from : Conns]
    \cup [kind : {"chat", "pm"}, from : Conns, line : Lines]
    \cup [kind : {"server"}, n : 0..MaxCommands]
    \cup [kind : {"list", "full", "taken", "kicked", "shutdown"}]

Init ==
  /\ proc = "up" /\ running = TRUE /\ listening = TRUE /\ link = "none"
  /\ mutex = Unlocked /\ pos = 1 /\ hit = FALSE
  /\ clients = <<>>
  /\ name = [c \in Conns |-> Blank]
  /\ sock = [c \in Conns |-> None]
  /\ active = [c \in Conns |-> FALSE]
  /\ freed = {}
  /\ fd = [h \in Handles |-> None]
  /\ peer = [c \in Conns |-> "away"]
  /\ said = 0
  /\ inbox = [c \in Conns |-> <<>>]
  /\ apc = "check" /\ fresh = None
  /\ pc = [c \in Conns |-> "idle"]
  /\ ptr = [c \in Conns |-> None]
  /\ line = [c \in Conns |-> NoLine]
  /\ cpc = "prompt" /\ target = Blank /\ issued = 0 /\ stops = 0
-----------------------------------------------------------------------------
(* The socket calls of server.cpp.                                          *)

Connected(h) == h \in Handles /\ fd[h] # None

\* send() blocks while the peer does not read and its buffer is full.
CanSend(h) == Connected(h) => peer[fd[h]] # "stalled"

\* send(): to whatever connection is behind the handle now; an error is ignored.
Sent(h, m) ==
  IF Connected(h) /\ m.kind \in Observed
  THEN [inbox EXCEPT ![fd[h]] = Append(@, m)]
  ELSE inbox

\* close(): frees whatever connection is behind the handle now.
Closed(h) == [i \in Handles |-> IF i = h THEN None ELSE fd[i]]

\* recv() on the socket of object o returns 0 or an error: the peer has left,
\* or the handle was closed.  A call that was already waiting when the handle
\* was closed fails even if the handle was given out again meanwhile.
RecvFails(o) == fd[sock[o]] # o \/ peer[o] = "gone"

\* recv() returns bytes of whatever connection is behind the handle now.
RecvGets(o) == Connected(sock[o]) /\ peer[fd[sock[o]]] # "gone"

-----------------------------------------------------------------------------
(* The remote ends.                                                         *)

\* A peer closes its end.  What it does once the server has closed the
\* connection is not seen by anybody.
PeerLeaves(c) ==
  /\ peer[c] \in {"live", "stalled"}
  /\ \E h \in Handles : fd[h] = c
  /\ peer' = [peer EXCEPT ![c] = "gone"]
  /\ UNCHANGED <<outsideHandlers, lockVars, tableVars, fd, said, inbox,
                 handlerVars>>

\* A peer stops reading, and the broadcasts fill the buffers towards it.
PeerStalls(c) ==
  /\ c \in Stallers /\ peer[c] = "live" /\ Contains(clients, c)
  /\ peer' = [peer EXCEPT ![c] = "stalled"]
  /\ UNCHANGED <<outsideHandlers, lockVars, tableVars, fd, said, inbox,
                 handlerVars>>

\* It reads again.
PeerResumes(c) ==
  /\ peer[c] = "stalled"
  /\ peer' = [peer EXCEPT ![c] = "live"]
  /\ UNCHANGED <<outsideHandlers, lockVars, tableVars, fd, said, inbox,
                 handlerVars>>

-----------------------------------------------------------------------------
(* The acceptor thread: acceptConnections.                                  *)

AcceptLoop ==
  /\ apc = "check"
  /\ apc' = IF running THEN "accept" ELSE "exit"
  /\ UNCHANGED <<outsideAcceptor, lockVars, tableVars, netVars, fresh>>

\* The system hands out any handle that is not open.
Accept(c, h) ==
  /\ apc = "accept" /\ listening /\ peer[c] = "away"
  /\ fd[h] = None
  /\ peer' = [peer EXCEPT ![c] = "live"] /\ fd' = [fd EXCEPT ![h] = c]
  /\ sock' = [sock EXCEPT ![c] = h] /\ fresh' = c /\ apc' = "admit"
  /\ UNCHANGED <<outsideAcceptor, lockVars, clients, name, active, freed, said,
                 inbox>>

\* accept() on the closed server_socket.
AcceptFails ==
  /\ apc = "accept" /\ ~listening
  /\ apc' = "check"
  /\ UNCHANGED <<outsideAcceptor, lockVars, tableVars, netVars, fresh>>

\* static_cast of a negative max_clients to an unsigned size: never reached.
TableFull == MaxClients >= 0 /\ Len(clients) >= MaxClients

Refuse ==
  /\ apc = "admit" /\ mutex = Unlocked /\ TableFull
  /\ CanSend(sock[fresh])
  /\ inbox' = Sent(sock[fresh], [kind |-> "full"])
  /\ fd' = Closed(sock[fresh]) /\ apc' = "check" /\ fresh' = None
  /\ UNCHANGED <<outsideAcceptor, lockVars, tableVars, peer, said>>

\* The size check, then the Client object and its detached thread.
Admit ==
  /\ apc = "admit" /\ mutex = Unlocked /\ ~TableFull
  /\ active' = [active EXCEPT ![fresh] = TRUE]
  /\ pc' = [pc EXCEPT ![fresh] = "name"] /\ apc' = "check"
  /\ fresh' = None
  /\ UNCHANGED <<serverVars, lockVars, clients, name, sock, freed, netVars, ptr,
                 line, consoleVars>>

-----------------------------------------------------------------------------
(* A handler thread up to its first loop: handleClient, lines 226-281.       *)

\* The username prompt: recv fails, the thread closes its socket and returns.
NoUsername(c) ==
  /\ pc[c] = "name" /\ RecvFails(c)
  /\ fd' = Closed(sock[c]) /\ freed' = freed \cup {c}
  /\ pc' = [pc EXCEPT ![c] = "done"]
  /\ UNCHANGED <<outsideHandlers, lockVars, clients, name, sock, active, peer,
                 said, inbox, ptr, line>>

ReadUsername(c, t) ==
  /\ pc[c] = "name" /\ RecvGets(c)
  /\ name' = [name EXCEPT ![c] = UsernameOf(t, sock[c])]
  /\ pc' = [pc EXCEPT ![c] = "register"]
  /\ UNCHANGED <<outsideHandlers, lockVars, clients, sock, active, freed,
                 netVars, ptr, line>>

\* Mutant: the loop stops one short.
NameTakenShort(n) ==
  \E i \in DOMAIN clients :
    i < Len(clients) /\ name[clients[i]] = n /\ active[clients[i]]

NameTaken(n) == \E i \in DOMAIN clients : name[clients[i]] = n /\ active[clients[i]]

RejectName(c) ==
  /\ pc[c] = "register" /\ mutex = Unlocked /\ NameTaken(name[c])
  /\ CanSend(sock[c])
  /\ inbox' = Sent(sock[c], [kind |-> "taken"]) /\ fd' = Closed(sock[c])
  /\ freed' = freed \cup {c} /\ pc' = [pc EXCEPT ![c] = "done"]
  /\ UNCHANGED <<outsideHandlers, lockVars, clients, name, sock, active, peer,
                 said, ptr, line>>

Register(c) ==
  /\ pc[c] = "register" /\ mutex = Unlocked
  /\ ~NameTaken(name[c])
  /\ clients' = Append(clients, c) /\ pc' = [pc EXCEPT ![c] = "back"]
  /\ UNCHANGED <<outsideHandlers, lockVars, name, sock, active, freed, netVars,
                 ptr, line>>

\* clients.back().get(), after the mutex was released.
AdoptBack(c) ==
  /\ pc[c] = "back" /\ clients # <<>>
  /\ ptr' = [ptr EXCEPT ![c] = Last(clients)]
  /\ pc' = [pc EXCEPT ![c] = "join"]
  /\ UNCHANGED <<outsideHandlers, lockVars, tableVars, netVars, line>>

-----------------------------------------------------------------------------
(* The loops over `clients` made with clients_mutex held: broadcastMessage,  *)
(* sendPrivateMessage, sendUserList, kickUser and stop.  The `active` flags  *)
(* and the sockets change under them, since handlers write both without the  *)
(* mutex.                                                                    *)

Op(t) == IF t = Console THEN cpc ELSE pc[t]
Broadcasts == {"join", "chat", "leave", "broadcast"}
Excluded(t) == IF t = Console THEN None ELSE ptr[t]

\* What thread t broadcasts.
Text(t) ==
  CASE Op(t) = "join"  -> [kind |-> "joined", from |-> ptr[t]]
    [] Op(t) = "leave" -> [kind |-> "left", from |-> ptr[t]]
    [] Op(t) = "chat"  -> [kind |-> "chat", from |-> ptr[t], line |-> line[t]]
    [] OTHER           -> [kind |-> "server", n |-> issued]

\* A send that nothing records and that cannot block leaves no trace: a loop of
\* such sends is passed over.
Traceless(t) ==
  Op(t) \in Broadcasts /\ Text(t).kind \notin Observed /\ Stallers = {}

\* The condition on the elements the loop of t acts on.
Selects(t, o) ==
  /\ active[o]
  /\ ~Traceless(t)
  /\ Op(t) \in Broadcasts => o # Excluded(t)
  /\ Op(t) = "pm" => name[o] = line[t].to
  /\ Op(t) = "kick" => name[o] = target
  /\ Op(t) # "list"  \* its loop only puts the reply together

\* A handler sends its client the instructions before its first broadcast.
Instructed(t) == Op(t) = "join" => CanSend(sock[ptr[t]])

Lock(t) ==
  /\ Op(t) \in Broadcasts \cup {"pm", "list", "kick", "sweep"}
  /\ Instructed(t)
  /\ mutex = Unlocked
  /\ mutex' = t
  /\ UNCHANGED <<outsideHandlers, pos, hit, tableVars, netVars, handlerVars>>

\* Mutant: the loop starts one late.
AheadLate(t) == {i \in DOMAIN clients : i > pos /\ Selects(t, clients[i])}

\* The tests the loop makes from its position on.  One step stands for the
\* tests of all the elements it skips: names stay, and no client becomes active
\* again, so an element that was skipped would be skipped at the last test too.
Ahead(t) == {i \in DOMAIN clients : i >= pos /\ Selects(t, clients[i])}

LoopTest(t) ==
  /\ mutex = t /\ ~hit
  /\ \E i \in Ahead(t) : (\A j \in Ahead(t) : i <= j) /\ pos' = i
  /\ hit' = TRUE
  /\ UNCHANGED <<outsideHandlers, mutex, tableVars, netVars, handlerVars>>

\* Mutant: a loop is left early.
AtLoopEndEarly(t) == mutex = t /\ ~hit

AtLoopEnd(t) == mutex = t /\ ~hit /\ Ahead(t) = {}

\* Mutant: the index starts at 0.
UnlockAtZero == mutex' = Unlocked /\ pos' = 0 /\ hit' = FALSE

\* Mutant: an early return leaves the mutex locked.
UnlockForgotten == mutex' = mutex /\ pos' = 1 /\ hit' = FALSE

Unlock == mutex' = Unlocked /\ pos' = 1 /\ hit' = FALSE

\* Mutant: the mutex is released around each send.
NextElementUnlocked == mutex' = Unlocked /\ pos' = pos + 1 /\ hit' = FALSE

NextElement == mutex' = mutex /\ pos' = pos + 1 /\ hit' = FALSE

BroadcastSend(t) ==
  /\ mutex = t /\ hit
  /\ Op(t) \in Broadcasts
  /\ CanSend(sock[clients[pos]])
  /\ inbox' = Sent(sock[clients[pos]], Text(t))
  /\ NextElement
  /\ UNCHANGED <<outsideHandlers, tableVars, fd, peer, said, handlerVars>>

\* The thread goes on after its call of broadcastMessage.
BroadcastEnd(t) ==
  /\ AtLoopEnd(t)
  /\ Op(t) \in Broadcasts
  /\ Unlock
  /\ IF t = Console
     THEN cpc' = "prompt" /\ UNCHANGED <<pc, line>>
     ELSE /\ pc' = [pc EXCEPT ![t] = IF @ = "leave" THEN "depart" ELSE "loop"]
          /\ line' = [line EXCEPT ![t] = NoLine]
          /\ UNCHANGED cpc
  /\ UNCHANGED <<serverVars, tableVars, netVars, acceptorVars, ptr, target,
                 issued, stops>>

-----------------------------------------------------------------------------
(* A handler thread in its main loop: lines 283-313 and processMessage.      *)

LoopCheck(c) ==
  /\ pc[c] = "loop"
  /\ pc' = [pc EXCEPT ![c] = IF running /\ active[ptr[c]] THEN "recv" ELSE "leave"]
  /\ UNCHANGED <<outsideHandlers, lockVars, tableVars, netVars, ptr, line>>

\* Mutant: the socket is closed in place and the loop is not left.
DisconnectedClosing(c) ==
  /\ pc[c] = "recv" /\ RecvFails(ptr[c])
  /\ fd' = Closed(sock[ptr[c]]) /\ pc' = [pc EXCEPT ![c] = "loop"]
  /\ UNCHANGED <<outsideHandlers, lockVars, tableVars, peer, said, inbox, ptr,
                 line>>

Disconnected(c) ==
  /\ pc[c] = "recv" /\ RecvFails(ptr[c])
  /\ pc' = [pc EXCEPT ![c] = "leave"]
  /\ UNCHANGED <<outsideHandlers, lockVars, tableVars, netVars, ptr, line>>

\* A line arrives: chat text, /pm to a name, or /list.
ReadLine(c, kind, to) ==
  /\ pc[c] = "recv" /\ kind \in Sendable /\ RecvGets(ptr[c])
  /\ said < MaxLines
  /\ said' = said + 1
  /\ line' = [line EXCEPT ![c] = [to |-> to, src |-> fd[sock[ptr[c]]], n |-> said']]
  /\ pc' = [pc EXCEPT ![c] = kind]
  /\ UNCHANGED <<outsideHandlers, lockVars, tableVars, fd, peer, inbox, ptr>>

ReadChat(c) == ReadLine(c, "chat", Blank)
ReadPm(c) == \E to \in Usernames : ReadLine(c, "pm", to)
ReadList(c) == ReadLine(c, "list", Blank)

\* /quit: goodbye, and the loop ends at its next test.
ReadQuit(c) ==
  LET h == sock[ptr[c]]
  IN /\ pc[c] = "recv"
     /\ RecvGets(ptr[c])
     /\ CanSend(h)
     /\ active' = [active EXCEPT ![ptr[c]] = FALSE]
     /\ pc' = [pc EXCEPT ![c] = "loop"]
     /\ UNCHANGED <<outsideHandlers, lockVars, clients, name, sock, freed,
                    netVars, ptr, line>>

\* sendUserList: one reply, sent with the mutex held.
UserList(c) ==
  /\ pc[c] = "list" /\ AtLoopEnd(c)
  /\ CanSend(sock[ptr[c]])
  /\ inbox' = Sent(sock[ptr[c]], [kind |-> "list"])
  /\ Unlock
  /\ pc' = [pc EXCEPT ![c] = "loop"]
  /\ line' = [line EXCEPT ![c] = NoLine]
  /\ UNCHANGED <<outsideHandlers, tableVars, fd, peer, said, ptr>>

\* sendPrivateMessage: the first match, or the "not found" reply.
PmEnd(c) ==
  /\ pc[c] = "pm" /\ mutex = c
  /\ \/ /\ hit
        /\ CanSend(sock[clients[pos]])
        /\ inbox' = Sent(sock[clients[pos]],
                         [kind |-> "pm", from |-> ptr[c], line |-> line[c]])
     \/ AtLoopEnd(c) /\ inbox' = inbox
  /\ CanSend(sock[ptr[c]]) /\ Unlock
  /\ pc' = [pc EXCEPT ![c] = "loop"]
  /\ line' = [line EXCEPT ![c] = NoLine]
  /\ UNCHANGED <<outsideHandlers, tableVars, fd, peer, said, ptr>>

\* active = false and close(), without the mutex.
Depart(c) ==
  /\ pc[c] = "depart"
  /\ active' = [active EXCEPT ![ptr[c]] = FALSE]
  /\ fd' = Closed(sock[ptr[c]]) /\ pc' = [pc EXCEPT ![c] = "erase"]
  /\ UNCHANGED <<outsideHandlers, lockVars, clients, name, sock, freed, peer,
                 said, inbox, ptr, line>>

\* Mutant: remove_if without erase leaves the vector as long as it was.
EraseForgotten(c) ==
  /\ pc[c] = "erase" /\ mutex = Unlocked
  /\ freed' = freed \cup {ptr[c]} /\ pc' = [pc EXCEPT ![c] = "done"]
  /\ UNCHANGED <<outsideHandlers, lockVars, clients, name, sock, active,
                 netVars, ptr, line>>

\* erase(remove_if): the object leaves the vector and is destroyed, if another
\* thread did not do so before.
Erase(c) ==
  /\ pc[c] = "erase" /\ mutex = Unlocked
  /\ IF Contains(clients, ptr[c])
     THEN /\ \E i \in DOMAIN clients :
               clients[i] = ptr[c] /\ clients' = RemoveAt(clients, i)
          /\ freed' = freed \cup {ptr[c]}
     ELSE UNCHANGED <<clients, freed>>
  /\ pc' = [pc EXCEPT ![c] = "done"]
  /\ UNCHANGED <<outsideHandlers, lockVars, name, sock, active, netVars, ptr,
                 line>>

-----------------------------------------------------------------------------
(* The console thread: runConsole, stop, ~ChatServer and the end of main.    *)

BroadcastCommand ==
  /\ cpc = "prompt" /\ "broadcast" \in Commands /\ issued < MaxCommands
  /\ issued' = issued + 1 /\ cpc' = "broadcast"
  /\ UNCHANGED <<outsideConsole, serverVars, lockVars, tableVars, netVars,
                 target, stops>>

KickCommand(n) ==
  /\ cpc = "prompt" /\ "kick" \in Commands /\ issued < MaxCommands
  /\ issued' = issued + 1 /\ target' = n /\ cpc' = "kick"
  /\ UNCHANGED <<outsideConsole, serverVars, lockVars, tableVars, netVars,
                 stops>>

\* kickUser: the first match is told, deactivated and closed.
KickEnd ==
  /\ cpc = "kick" /\ mutex = Console
  /\ \/ /\ hit
        /\ LET o == clients[pos]
           IN /\ CanSend(sock[o])
              /\ inbox' = Sent(sock[o], [kind |-> "kicked"])
              /\ active' = [active EXCEPT ![o] = FALSE]
              /\ fd' = Closed(sock[o])
     \/ AtLoopEnd(Console) /\ UNCHANGED <<inbox, active, fd>>
  /\ Unlock
  /\ cpc' = "prompt" /\ target' = Blank
  /\ UNCHANGED <<outsideConsole, serverVars, clients, name, sock, freed, peer,
                 said, issued, stops>>

\* The connection to another server and its receive thread: one stands for all.
ConnectCommand ==
  /\ cpc = "prompt" /\ "connect" \in Commands /\ link = "none"
  /\ link' = "silent"
  /\ UNCHANGED <<outsideConsole, proc, running, listening, lockVars, tableVars,
                 netVars, consoleVars>>

\* "stop" calls stop(), and the destructor calls it again; at the end of the
\* input only the destructor does.
StopCommand(k) ==
  /\ cpc = "prompt"
  /\ \/ "stop" \in Commands /\ k = 2
     \/ "eof" \in Commands /\ k = 1
  /\ stops' = k /\ cpc' = "flag"
  /\ UNCHANGED <<outsideConsole, serverVars, lockVars, tableVars, netVars,
                 target, issued>>

ClearRunning ==
  /\ cpc = "flag"
  /\ running' = FALSE /\ cpc' = "listener"
  /\ UNCHANGED <<outsideConsole, proc, listening, link, lockVars, tableVars, netVars,
                 target, issued, stops>>

CloseListener ==
  /\ cpc = "listener"
  /\ listening' = FALSE /\ cpc' = "sweep"
  /\ UNCHANGED <<outsideConsole, proc, running, link, lockVars, tableVars, netVars,
                 target, issued, stops>>

SweepClient ==
  /\ cpc = "sweep" /\ mutex = Console /\ hit
  /\ LET o == clients[pos]
     IN /\ CanSend(sock[o])
        /\ inbox' = Sent(sock[o], [kind |-> "shutdown"])
        /\ fd' = Closed(sock[o])
        /\ active' = [active EXCEPT ![o] = FALSE]
  /\ NextElement
  /\ UNCHANGED <<outsideHandlers, clients, name, sock, freed, peer, said,
                 handlerVars>>

\* clients.clear() destroys every Client object; stop() returns.
SweepEnd ==
  /\ cpc = "sweep" /\ AtLoopEnd(Console)
  /\ freed' = freed \cup ToSet(clients) /\ clients' = <<>>
  /\ Unlock
  /\ stops' = stops - 1
  /\ cpc' = IF stops' > 0 THEN "flag" ELSE "links"
  /\ UNCHANGED <<outsideConsole, serverVars, name, sock, active, netVars,
                 target, issued>>

\* The end of the process ends its threads and closes its handles.
EndOfProcess(how) ==
  /\ proc' = how
  /\ apc' = "exit" /\ cpc' = "exited"
  /\ pc' = [c \in Conns |-> IF pc[c] = "idle" THEN "idle" ELSE "done"]
  /\ fd' = [h \in Handles |-> None]
  /\ Unlock
  /\ UNCHANGED <<running, listening, link, tableVars, peer, said, inbox, fresh,
                 ptr, line, target, issued, stops>>

\* The first member ~ChatServer destroys is server_manager.  Its connection joins
\* a receive thread that waits in recv() until the other server sends or closes.
JoinLinks ==
  /\ cpc = "links" /\ link \in {"none", "spoke"}
  /\ cpc' = "destroyed"
  /\ UNCHANGED <<outsideConsole, serverVars, lockVars, tableVars, netVars,
                 target, issued, stops>>

\* If the other server closed before, nothing joins its receive thread, and the
\* destructor of a joinable std::thread ends the process.
TerminateAtLinks == cpc = "links" /\ link = "closed" /\ EndOfProcess("crashed")

\* The other server sends, or closes, while its receive thread is waited for.
RemoteSpeaks ==
  /\ cpc = "links" /\ link = "silent"
  /\ link' = "spoke"
  /\ UNCHANGED <<outsideConsole, proc, running, listening, lockVars, tableVars,
                 netVars, consoleVars>>

\* It closed before that, at any time: here nobody notices earlier.
RemoteCloses ==
  /\ cpc = "links" /\ link = "silent"
  /\ link' = "closed"
  /\ UNCHANGED <<outsideConsole, proc, running, listening, lockVars, tableVars,
                 netVars, consoleVars>>

\* main returns, with detached threads still running.
Exit == cpc = "destroyed" /\ EndOfProcess("exited")

-----------------------------------------------------------------------------
(* Undefined behaviour.  A thread that touches a destroyed Client, or the    *)
(* destroyed ChatServer, or reads clients.back() of an empty vector or of    *)
(* one that another thread is changing, may go on with the bytes it finds    *)
(* (the actions above) or take the process down.                             *)

UsesObject(c) ==
  pc[c] \in {"join", "loop", "recv", "chat", "pm", "list", "leave", "depart"}

UsesServer(c) == pc[c] \notin {"idle", "name", "recv", "done"}

\* Thread t may be inside push_back, erase or clear.
Mutating(t) ==
  IF t = Console
  THEN cpc = "sweep" /\ AtLoopEnd(Console)
  ELSE /\ mutex = Unlocked
       /\ \/ pc[t] = "register" /\ ~NameTaken(name[t])
          \/ pc[t] = "erase" /\ Contains(clients, ptr[t])

\* Before the first element of an empty vector there is no Client to go on with.
ReadsBackUnsafely(c) ==
  /\ pc[c] = "back"
  /\ clients = <<>> \/ \E t \in (Conns \ {c}) \cup {Console} : Mutating(t)

\* clients.clear() or another handler's erase() destroyed the object.
UsesDestroyedClient(c) == UsesObject(c) /\ ptr[c] \in freed

\* ~ChatServer is over and a detached thread goes on.
OutlivesServer ==
  cpc = "destroyed" /\ (apc # "exit" \/ \E c \in Conns : UsesServer(c))

Crash ==
  /\ \/ \E c \in Conns : UsesDestroyedClient(c) \/ ReadsBackUnsafely(c)
     \/ OutlivesServer
  /\ EndOfProcess("crashed")

-----------------------------------------------------------------------------
LoopStep(t) == Lock(t) \/ LoopTest(t) \/ BroadcastSend(t) \/ BroadcastEnd(t)

AcceptorWork == AcceptLoop \/ AcceptFails \/ Refuse \/ Admit

\* What a handler does on its own, and what it does when its peer sends.
HandlerWork(c) ==
  \/ NoUsername(c) \/ RejectName(c) \/ Register(c) \/ AdoptBack(c)
  \/ LoopCheck(c) \/ Disconnected(c) \/ UserList(c) \/ PmEnd(c)
  \/ Depart(c) \/ Erase(c)
  \/ LoopStep(c)

HandlerReads(c) ==
  \/ \E t \in Typed : ReadUsername(c, t)
  \/ ReadChat(c) \/ ReadPm(c) \/ ReadList(c) \/ ReadQuit(c)

\* What the console thread does once a command was given.
ConsoleWork ==
  \/ KickEnd
  \/ ClearRunning \/ CloseListener \/ SweepClient \/ SweepEnd
  \/ JoinLinks \/ TerminateAtLinks \/ Exit
  \/ LoopStep(Console)

Operator ==
  \/ BroadcastCommand \/ ConnectCommand
  \/ \E n \in Usernames : KickCommand(n)
  \/ \E k \in 1..2 : StopCommand(k)

Environment ==
  \/ \E c \in Conns :
       PeerLeaves(c) \/ PeerStalls(c) \/ PeerResumes(c) \/ HandlerReads(c)
  \/ \E c \in Conns, h \in Handles : Accept(c, h)
  \/ Operator \/ RemoteSpeaks \/ RemoteCloses

Server ==
  \/ AcceptorWork \/ ConsoleWork \/ Crash
  \/ \E c \in Conns : HandlerWork(c)

Halted == proc # "up" /\ UNCHANGED vars

Next == Environment \/ Server \/ Halted

Spec == Init /\ [][Next]_vars

\* Every server thread is scheduled, and no thread waits for ever for a mutex
\* that is released again and again.  Peers and the operator may do nothing.
Fairness ==
  /\ SF_vars(AcceptorWork)
  /\ SF_vars(ConsoleWork)
  /\ \A c \in Conns : SF_vars(HandlerWork(c))

FairSpec == Spec /\ Fairness
-----------------------------------------------------------------------------
(* Correctness properties.                                                  *)

HandlerPcs == {"idle", "name", "register", "back", "join", "loop", "recv", "chat",
               "pm", "list", "leave", "depart", "erase", "done"}

\* Every variable has its type.  In particular stop() is called at most twice,
\* the vector holds Client objects and every stored handle is a handle.
TypeOK ==
  /\ proc \in {"up", "exited", "crashed"}
  /\ running \in BOOLEAN /\ listening \in BOOLEAN
  /\ link \in {"none", "silent", "spoke", "closed"}
  /\ mutex \in Conns \cup {Console, Unlocked}
  /\ pos \in Nat \ {0} /\ hit \in BOOLEAN
  /\ clients \in Seq(Conns)
  /\ name \in [Conns -> Usernames \cup {Blank}]
  /\ sock \in [Conns -> Handles \cup {None}]
  /\ active \in [Conns -> BOOLEAN]
  /\ freed \subseteq Conns
  /\ fd \in [Handles -> Conns \cup {None}]
  /\ peer \in [Conns -> {"away", "live", "stalled", "gone"}]
  /\ said \in 0..MaxLines
  /\ inbox \in [Conns -> Seq(Messages)]
  /\ apc \in {"check", "accept", "admit", "exit"}
  /\ fresh \in Conns \cup {None}
  /\ pc \in [Conns -> HandlerPcs]
  /\ ptr \in [Conns -> Conns \cup {None}]
  /\ line \in [Conns -> Lines]
  /\ cpc \in {"prompt", "broadcast", "kick", "flag", "listener", "sweep", "links",
             "destroyed", "exited"}
  /\ target \in Usernames \cup {Blank}
  /\ issued \in 0..MaxCommands
  /\ stops \in 0..2

Members == ToSet(clients)
Online == {<<o, name[o]>> : o \in {m \in Members : active[m]}}

\* Two active clients never have the same username: the duplicate check of
\* handleClient and its push_back are one critical section, and nothing makes a
\* client active again or renames it afterwards.
UniqueActiveNames ==
  \A i, j \in DOMAIN clients :
    /\ active[clients[i]] /\ active[clients[j]]
    /\ name[clients[i]] = name[clients[j]]
    => i = j

\* The vector holds each Client object once and never a destroyed one, so the
\* loops over it are safe whatever the handlers do with their raw client_ptr
\* and whichever of them erases an object first.
TableSound ==
  /\ \A i, j \in DOMAIN clients : clients[i] = clients[j] => i = j
  /\ Members \cap freed = {}

\* A client leaves the vector only after it was marked inactive: handleClient
\* deactivates before it erases, even when two handlers share the object, and
\* clear() comes after the loop of stop().
RemovedWhenInactive ==
  [][\A o \in Members : o \in Members' \/ ~active[o]]_vars

\* kickUser stops at its first match.  When it returns no active client has the
\* name, which rests on the uniqueness handleClient established.
KickIsComplete ==
  [][cpc = "kick" /\ cpc' = "prompt" =>
       \A i \in DOMAIN clients : name[clients[i]] = target => ~active'[clients[i]]]_vars

\* Two chat or operator messages reach any two connections in the same order:
\* broadcastMessage keeps clients_mutex for its whole loop.
ConsistentOrder ==
  \A d, e \in Conns :
    \A i, j \in DOMAIN inbox[d], k, l \in DOMAIN inbox[e] :
      (i < j /\ l < k /\ inbox[d][i] = inbox[e][k] /\ inbox[d][j] = inbox[e][l])
        => inbox[d][i] = inbox[d][j]

\* The loop of broadcastMessage has sent a chat message to every client it has
\* passed that is still active and still has its own connection, its sender
\* excepted, although clients go inactive and sockets close while it runs.
BroadcastReachesAll ==
  \A c \in Conns :
    mutex = c /\ pc[c] = "chat" =>
      \A i \in DOMAIN clients :
        LET o == clients[i]
        IN i < pos /\ active[o] /\ o # ptr[c] /\ fd[sock[o]] = o
             => Contains(inbox[o], Text(c))

\* No handler thread works on the Client object of another one: what
\* clients.back() is meant to yield in handleClient.
OwnClient == \A c \in Conns : ptr[c] \in {None, c}

\* The two races that let a thread close a handle that is not its own have not
\* happened: no handler took another's object, and the operator kicks nobody.
Undisturbed == OwnClient /\ "kick" \notin Commands

\* The handle stored in a Client is its own connection or closed, until its
\* handler has let go of it.
OwnHandle ==
  \A c \in Conns : pc[c] \notin {"idle", "erase", "done"} => fd[sock[c]] \in {c, None}

\* An active client in the vector still has its connection, until stop() runs:
\* nobody is cut off by the end of somebody else.
ActiveIsConnected ==
  proc = "up" /\ running =>
    \A o \in Members : active[o] => \E h \in Handles : fd[h] = o

\* Chat is relayed under the name of the client that typed it.
RightSender ==
  \A d \in Conns : \A i \in DOMAIN inbox[d] :
    LET m == inbox[d][i] IN m.kind = "chat" => m.from = m.line.src

\* Without those two races a handler never calls recv() or close() with a handle
\* of its own that was given out again: close() comes last in handleClient.
UndisturbedHandles == Undisturbed => OwnHandle

\* Without those two races no active client loses its connection while the
\* server runs, however the others leave, are refused or rejected.
UndisturbedConnected == Undisturbed => ActiveIsConnected

\* Without those two races processMessage never relays one user's text under
\* another user's name, although sockets are closed and reused all the time.
UndisturbedSender == Undisturbed => RightSender

\* The vector never holds more than max_clients clients (acceptConnections
\* compares the two before it starts a handler).
WithinLimit == Len(clients) <= MaxClients

\* A Client object is there as long as a handler goes on to use it: what stop()
\* destroys with clients.clear(), no handler on its way reads or writes any more.
\* (One that waits in recv() touches its object only after that.)
ClientsOutliveUse ==
  \A c \in Conns : UsesObject(c) /\ pc[c] # "recv" => ptr[c] \notin freed

\* sendPrivateMessage sends to a connection of the user it was addressed to.
PmReachesNamed ==
  \A d \in Conns : \A i \in DOMAIN inbox[d] :
    LET m == inbox[d][i] IN m.kind = "pm" => name[d] = m.line.to

Down == proc # "up"

\* Peers that stop reading start again or leave, sooner or later.
StallsEnd == []<>(\A h \in Handles : Connected(h) => peer[fd[h]] # "stalled")

\* The other server sends or closes when its receive thread is being joined.
RemoteAnswers == []<>(cpc = "links" => link # "silent")

\* Once stop() was called the process ends, by itself or by a crash, if stalls
\* end and the other server speaks: stop() terminates the second time as well,
\* with the table cleared and handlers still leaving, and what keeps it waiting
\* is a peer that does not read, or a server that is silent, and nothing else.
ShutdownCompletes ==
  StallsEnd /\ RemoteAnswers => (cpc = "flag" ~> Down)

\* A handler that processes a chat line, /pm or /list gets back to its loop: every
\* path of processMessage gives the mutex back, and nobody keeps it for ever.
RequestsReturn ==
  StallsEnd => \A c \in Conns : pc[c] \in {"chat", "pm", "list"} ~> pc[c] = "loop" \/ Down

\* A client whose peer has left is removed from the vector.
DepartedRemoved ==
  \A c \in Conns : peer[c] = "gone" /\ c \in Members ~> c \notin Members \/ Down

\* It is, as long as every handler took its own object from clients.back() and
\* stalls end.
OwnersRemoved == []OwnClient /\ StallsEnd => DepartedRemoved

\* What the server promises about usernames: with the active clients and their
\* names for those who are online it behaves like a Roster, whatever its threads
\* do.  A second client that became active under a name would be no step of it.
RosterSpec ==
  INSTANCE Roster WITH Clients <- Conns, online <- Online, served <- proc = "up"
RefinesRoster == RosterSpec!Spec
=============================================================================
