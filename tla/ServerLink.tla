----------------------------- MODULE ServerLink -----------------------------
(***************************************************************************)
(* The links to other servers: ServerManager of server_manager.cpp with its *)
(* InterServerConnections, one receive thread for each of them, the network *)
(* thread, and the thread that calls the manager's public methods.  In the   *)
(* program that caller is the console thread of ChatServer.                  *)
(*                                                                         *)
(* A server stands for its host and port, for the key "host:port" and for    *)
(* the InterServerConnection under that key: connectToServer makes one only  *)
(* when there is none.                                                       *)
(***************************************************************************)
EXTENDS Integers, FiniteSets

CONSTANTS
  Servers,   \* the servers that may be connected to
  None,      \* no server
  Calls,     \* the public methods the caller uses, the destructor excepted
  MaxSends   \* bound: messages sent

Owner == "owner"
Network == "network"
Unlocked == "unlocked"
Threads == {Owner, Network}

ASSUME ServersAssumption == None \notin Servers

ASSUME CallsAssumption ==
  /\ Calls \subseteq {"connect", "send", "disconnect", "start", "stop"}
  /\ MaxSends \in Nat

VARIABLES
  proc,        \* the process: "up", "ended" or "terminated"
  running,     \* ServerManager::running
  mutex,       \* the owner of connections_mutex
  connections, \* the keys of the map
  connected, socket, joinable, \* each connection: its flag, its socket, and
                               \* whether its receive_thread can be joined
  rpc,         \* where each receive thread is
  recent,      \* last_activity is less than five minutes ago
  remote, unread, \* the other end, and whether bytes from it wait to be read
  op, todo,    \* each thread's method, and the connections its loop has ahead
  cur, at,     \* the connection it works on, and where in closing it
  took,        \* the connections whose send() succeeded in this sendMessage
  total_messages_sent,
  ending       \* the destructor was called

mapVars == <<running, mutex, connections>>
linkVars == <<connected, socket, joinable, rpc>>
remoteVars == <<recent, remote, unread>>
threadVars == <<op, todo, cur, at>>
sendVars == <<took, total_messages_sent>>
vars == <<proc, mapVars, linkVars, remoteVars, threadVars, sendVars, ending>>

Init ==
  /\ proc = "up" /\ running = FALSE /\ mutex = Unlocked /\ connections = {}
  /\ connected = [s \in Servers |-> FALSE]
  /\ socket = [s \in Servers |-> "invalid"]
  /\ joinable = [s \in Servers |-> FALSE]
  /\ rpc = [s \in Servers |-> "none"]
  /\ recent = [s \in Servers |-> FALSE]
  /\ remote = [s \in Servers |-> "away"]
  /\ unread = [s \in Servers |-> FALSE]
  /\ op = [t \in Threads |-> IF t = Owner THEN "idle" ELSE "none"]
  /\ todo = [t \in Threads |-> {}]
  /\ cur = [t \in Threads |-> None]
  /\ at = [t \in Threads |-> "none"]
  /\ took = {} /\ total_messages_sent = 0
  /\ ending = FALSE

Goes(t, o) == op' = [op EXCEPT ![t] = o]

-----------------------------------------------------------------------------
(* The other servers, and time.                                             *)

RemoteSends(s) ==
  /\ remote[s] = "linked" /\ ~unread[s]
  /\ unread' = [unread EXCEPT ![s] = TRUE]
  /\ UNCHANGED <<proc, mapVars, linkVars, recent, remote, threadVars, sendVars, ending>>

RemoteCloses(s) ==
  /\ remote[s] = "linked"
  /\ remote' = [remote EXCEPT ![s] = "closed"]
  /\ UNCHANGED <<proc, mapVars, linkVars, recent, unread, threadVars, sendVars, ending>>

\* Five minutes pass without a message.
FiveMinutes(s) ==
  /\ s \in connections /\ recent[s]
  /\ recent' = [recent EXCEPT ![s] = FALSE]
  /\ UNCHANGED <<proc, mapVars, linkVars, remote, unread, threadVars, sendVars, ending>>

-----------------------------------------------------------------------------
(* The receive thread of a connection: receiveLoop.                         *)

ReceiveTest(s) ==
  /\ rpc[s] = "test"
  /\ rpc' = [rpc EXCEPT ![s] = IF connected[s] THEN "recv" ELSE "leave"]
  /\ UNCHANGED <<proc, mapVars, connected, socket, joinable, remoteVars, threadVars,
                 sendVars, ending>>

\* Mutant: the loop does not look at connected again.
ReceiveAgain(s, ok) ==
  /\ rpc[s] = "recv" /\ unread[s]
  /\ unread' = [unread EXCEPT ![s] = FALSE]
  /\ recent' = [recent EXCEPT ![s] = ok \/ @]
  /\ UNCHANGED <<proc, mapVars, linkVars, remote, threadVars, sendVars, ending>>

\* One recv() takes all that is there; deserializing it may throw.
Receive(s, ok) ==
  /\ rpc[s] = "recv" /\ unread[s]
  /\ unread' = [unread EXCEPT ![s] = FALSE]
  /\ recent' = [recent EXCEPT ![s] = ok \/ @]
  /\ rpc' = [rpc EXCEPT ![s] = "test"]
  /\ UNCHANGED <<proc, mapVars, connected, socket, joinable, remote, threadVars,
                 sendVars, ending>>

ReceiveFails(s) ==
  /\ rpc[s] = "recv" /\ ~unread[s] /\ remote[s] = "closed"
  /\ rpc' = [rpc EXCEPT ![s] = "leave"]
  /\ UNCHANGED <<proc, mapVars, connected, socket, joinable, remoteVars, threadVars,
                 sendVars, ending>>

ReceiveEnds(s) ==
  /\ rpc[s] = "leave"
  /\ connected' = [connected EXCEPT ![s] = FALSE]
  /\ rpc' = [rpc EXCEPT ![s] = "ended"]
  /\ UNCHANGED <<proc, mapVars, socket, joinable, remoteVars, threadVars, sendVars,
                 ending>>
-----------------------------------------------------------------------------
(* Closing a connection: disconnect(), then its destructor and the one of its *)
(* receive_thread.  The loops of disconnectFromServer, cleanupDeadConnections,*)
(* stop and ~ServerManager do it for each connection they have ahead.         *)

Closing == {"disconnect", "cleaning", "clear", "destroy"}

LoopDone(t) == todo[t] = {} /\ cur[t] = None

Unlock == mutex' = Unlocked

\* cleanupDeadConnections passes over a connection that was active lately.
PassOver(s) ==
  /\ op[Network] = "cleaning" /\ cur[Network] = None /\ s \in todo[Network] /\ recent[s]
  /\ todo' = [todo EXCEPT ![Network] = @ \ {s}]
  /\ UNCHANGED <<proc, mapVars, linkVars, remoteVars, op, cur, at, sendVars, ending>>

Close(t, s) ==
  /\ op[t] \in Closing /\ cur[t] = None /\ s \in todo[t]
  /\ op[t] = "cleaning" => ~recent[s]
  /\ todo' = [todo EXCEPT ![t] = @ \ {s}]
  /\ cur' = [cur EXCEPT ![t] = s] /\ at' = [at EXCEPT ![t] = "disconnect"]
  /\ UNCHANGED <<proc, mapVars, linkVars, remoteVars, op, sendVars, ending>>

\* disconnect() returns at once when the connection is not connected.
Disconnect(t) ==
  /\ at[t] = "disconnect"
  /\ connected' = [connected EXCEPT ![cur[t]] = FALSE]
  /\ at' = [at EXCEPT ![t] = IF connected[cur[t]] THEN "join" ELSE "delete"]
  /\ UNCHANGED <<proc, mapVars, socket, joinable, rpc, remoteVars, op, todo, cur,
                 sendVars, ending>>

\* Mutant: the socket is closed without waiting for the thread, to wake it.
JoinUnended(t) ==
  /\ at[t] = "join"
  /\ joinable' = [joinable EXCEPT ![cur[t]] = FALSE]
  /\ socket' = [socket EXCEPT ![cur[t]] = "closed"]
  /\ remote' = [remote EXCEPT ![cur[t]] = "away"]
  /\ at' = [at EXCEPT ![t] = "delete"]
  /\ UNCHANGED <<proc, mapVars, connected, rpc, recent, unread, op, todo, cur,
                 sendVars, ending>>

\* Mutant: the thread has ended, and is not joined.
JoinForgotten(t) ==
  /\ at[t] = "join" /\ rpc[cur[t]] = "ended"
  /\ socket' = [socket EXCEPT ![cur[t]] = "closed"]
  /\ remote' = [remote EXCEPT ![cur[t]] = "away"]
  /\ at' = [at EXCEPT ![t] = "delete"]
  /\ UNCHANGED <<proc, mapVars, connected, joinable, rpc, recent, unread, op, todo,
                 cur, sendVars, ending>>

\* The receive thread is joined, the socket closed afterwards.
Join(t) ==
  /\ at[t] = "join" /\ rpc[cur[t]] = "ended"
  /\ joinable' = [joinable EXCEPT ![cur[t]] = FALSE]
  /\ socket' = [socket EXCEPT ![cur[t]] = "closed"]
  /\ remote' = [remote EXCEPT ![cur[t]] = "away"]
  /\ at' = [at EXCEPT ![t] = "delete"]
  /\ UNCHANGED <<proc, mapVars, connected, rpc, recent, unread, op, todo, cur,
                 sendVars, ending>>

Delete(t) ==
  LET s == cur[t]
  IN /\ at[t] = "delete" /\ ~joinable[s]
     /\ connections' = connections \ {s}
     /\ rpc' = [rpc EXCEPT ![s] = "none"]
     /\ recent' = [recent EXCEPT ![s] = FALSE]
     /\ unread' = [unread EXCEPT ![s] = FALSE]
     /\ cur' = [cur EXCEPT ![t] = None] /\ at' = [at EXCEPT ![t] = "none"]
     /\ UNCHANGED <<proc, running, mutex, connected, socket, joinable, remote, op,
                    todo, sendVars, ending>>

\* The end of the process ends its threads and closes its sockets.
EndOfProcess(how) ==
  /\ proc' = how
  /\ op' = [t \in Threads |-> "over"]
  /\ todo' = [t \in Threads |-> {}]
  /\ cur' = [t \in Threads |-> None] /\ at' = [t \in Threads |-> "none"]
  /\ rpc' = [s \in Servers |-> "none"]
  /\ socket' = [s \in Servers |-> "closed"]
  /\ Unlock
  /\ UNCHANGED <<running, connections, connected, joinable, remoteVars, sendVars, ending>>

\* ~thread() of a thread that was not joined calls std::terminate.
Terminate(t) ==
  /\ at[t] = "delete" /\ joinable[cur[t]]
  /\ EndOfProcess("terminated")

-----------------------------------------------------------------------------
(* The public methods of ServerManager.                                     *)

\* connectToServer takes connections_mutex and keeps it while ::connect waits.
\* With an entry under the key it returns at once and changes nothing.
CallConnect(s) ==
  /\ op[Owner] = "idle" /\ "connect" \in Calls
  /\ mutex = Unlocked /\ s \notin connections
  /\ mutex' = Owner /\ Goes(Owner, "connect") /\ cur' = [cur EXCEPT ![Owner] = s]
  /\ UNCHANGED <<proc, running, connections, linkVars, remoteVars, todo, at, sendVars,
                 ending>>

\* A bad address, or nobody there: the object is destroyed, no thread started.
ConnectFails ==
  /\ op[Owner] = "connect"
  /\ Unlock /\ Goes(Owner, "idle") /\ cur' = [cur EXCEPT ![Owner] = None]
  /\ UNCHANGED <<proc, running, connections, linkVars, remoteVars, todo, at, sendVars,
                 ending>>

Connect ==
  LET s == cur[Owner]
  IN /\ op[Owner] = "connect"
     /\ socket' = [socket EXCEPT ![s] = "open"]
     /\ connected' = [connected EXCEPT ![s] = TRUE]
     /\ joinable' = [joinable EXCEPT ![s] = TRUE]
     /\ rpc' = [rpc EXCEPT ![s] = "test"]
     /\ recent' = [recent EXCEPT ![s] = TRUE]
     /\ remote' = [remote EXCEPT ![s] = "linked"]
     /\ connections' = connections \cup {s}
     /\ Unlock /\ Goes(Owner, "idle") /\ cur' = [cur EXCEPT ![Owner] = None]
     /\ UNCHANGED <<proc, running, unread, todo, at, sendVars, ending>>

\* sendMessage, and broadcastMessage, which is the same.
CallSend ==
  /\ op[Owner] = "idle" /\ "send" \in Calls /\ total_messages_sent < MaxSends
  /\ mutex = Unlocked /\ mutex' = Owner
  /\ Goes(Owner, "send") /\ todo' = [todo EXCEPT ![Owner] = connections]
  /\ took' = {}
  /\ UNCHANGED <<proc, running, connections, linkVars, remoteVars, cur, at,
                 total_messages_sent, ending>>

\* Mutant: the loop ends with the first success.
SendOnce(s, ok) ==
  /\ op[Owner] = "send" /\ s \in todo[Owner]
  /\ ok => connected[s]
  /\ connected[s] /\ remote[s] = "linked" => ok
  /\ took' = IF ok THEN took \cup {s} ELSE took
  /\ todo' = [todo EXCEPT ![Owner] = IF ok THEN {} ELSE @ \ {s}]
  /\ UNCHANGED <<proc, mapVars, linkVars, remoteVars, op, cur, at, total_messages_sent,
                 ending>>

\* send() to a remote that has closed fails sooner or later.
Send(s, ok) ==
  /\ op[Owner] = "send" /\ s \in todo[Owner]
  /\ ok => connected[s]
  /\ connected[s] /\ remote[s] = "linked" => ok
  /\ took' = IF ok THEN took \cup {s} ELSE took
  /\ todo' = [todo EXCEPT ![Owner] = @ \ {s}]
  /\ UNCHANGED <<proc, mapVars, linkVars, remoteVars, op, cur, at, total_messages_sent,
                 ending>>

\* Mutant: a message counts once for each connection.
SendEndEach ==
  /\ op[Owner] = "send" /\ LoopDone(Owner)
  /\ total_messages_sent' = total_messages_sent + Cardinality(took)
  /\ Unlock /\ Goes(Owner, "idle")
  /\ UNCHANGED <<proc, running, connections, linkVars, remoteVars, todo, cur, at, took,
                 ending>>

SendEnd ==
  /\ op[Owner] = "send" /\ LoopDone(Owner)
  /\ total_messages_sent' = total_messages_sent + (IF took = {} THEN 0 ELSE 1)
  /\ Unlock /\ Goes(Owner, "idle")
  /\ UNCHANGED <<proc, running, connections, linkVars, remoteVars, todo, cur, at, took,
                 ending>>

CallDisconnect(s) ==
  /\ op[Owner] = "idle" /\ "disconnect" \in Calls
  /\ mutex = Unlocked /\ s \in connections
  /\ mutex' = Owner
  /\ Goes(Owner, "disconnect") /\ todo' = [todo EXCEPT ![Owner] = {s}]
  /\ UNCHANGED <<proc, running, connections, linkVars, remoteVars, cur, at, sendVars,
                 ending>>

DisconnectEnd ==
  /\ op[Owner] = "disconnect" /\ LoopDone(Owner)
  /\ Unlock /\ Goes(Owner, "idle")
  /\ UNCHANGED <<proc, running, connections, linkVars, remoteVars, todo, cur, at,
                 sendVars, ending>>

CallStart ==
  /\ op[Owner] = "idle" /\ "start" \in Calls /\ ~running
  /\ running' = TRUE /\ Goes(Network, "loop")
  /\ UNCHANGED <<proc, mutex, connections, linkVars, remoteVars, todo, cur, at, sendVars,
                 ending>>

\* stop() of a running manager.
CallStop ==
  /\ op[Owner] = "idle" /\ "stop" \in Calls /\ running
  /\ running' = FALSE /\ Goes(Owner, "stop")
  /\ UNCHANGED <<proc, mutex, connections, linkVars, remoteVars, todo, cur, at, sendVars,
                 ending>>

\* Mutant: stop() does not join the network thread.
JoinNetworkForgotten ==
  /\ op[Owner] = "stop"
  /\ mutex = Unlocked /\ mutex' = Owner
  /\ Goes(Owner, "clear") /\ todo' = [todo EXCEPT ![Owner] = connections]
  /\ UNCHANGED <<proc, running, connections, linkVars, remoteVars, cur, at, sendVars,
                 ending>>

JoinNetwork ==
  /\ op[Owner] = "stop" /\ op[Network] = "ended"
  /\ mutex = Unlocked /\ mutex' = Owner
  /\ Goes(Owner, "clear") /\ todo' = [todo EXCEPT ![Owner] = connections]
  /\ UNCHANGED <<proc, running, connections, linkVars, remoteVars, cur, at, sendVars,
                 ending>>

\* connections.clear() is done.  From the destructor the members are next.
ClearEnd ==
  /\ op[Owner] = "clear" /\ LoopDone(Owner)
  /\ Unlock /\ Goes(Owner, IF ending THEN "destroy" ELSE "idle")
  /\ UNCHANGED <<proc, running, connections, linkVars, remoteVars, todo, cur, at,
                 sendVars, ending>>

\* ~ServerManager at the end of main: stop(), then the map with its connections.
CallDestructor ==
  /\ op[Owner] = "idle"
  /\ ending' = TRUE /\ running' = FALSE
  /\ IF running
     THEN Goes(Owner, "stop") /\ UNCHANGED todo
     ELSE Goes(Owner, "destroy") /\ todo' = [todo EXCEPT ![Owner] = connections]
  /\ UNCHANGED <<proc, mutex, connections, linkVars, remoteVars, cur, at, sendVars>>

DestructorEnd ==
  /\ op[Owner] = "destroy" /\ LoopDone(Owner)
  /\ EndOfProcess("ended")

-----------------------------------------------------------------------------
(* The network thread: networkLoop.  Nothing is ever put into message_queue.  *)

NetworkTest ==
  /\ op[Network] = "loop"
  /\ Goes(Network, IF running THEN "clean" ELSE "ended")
  /\ UNCHANGED <<proc, mapVars, linkVars, remoteVars, todo, cur, at, sendVars, ending>>

Clean ==
  /\ op[Network] = "clean"
  /\ mutex = Unlocked /\ mutex' = Network
  /\ Goes(Network, "cleaning") /\ todo' = [todo EXCEPT ![Network] = connections]
  /\ UNCHANGED <<proc, running, connections, linkVars, remoteVars, cur, at, sendVars,
                 ending>>

\* The mutex is released; wait_for returns after a second at the latest.
CleanEnd ==
  /\ op[Network] = "cleaning" /\ LoopDone(Network)
  /\ Unlock /\ Goes(Network, "loop")
  /\ UNCHANGED <<proc, running, connections, linkVars, remoteVars, todo, cur, at,
                 sendVars, ending>>

-----------------------------------------------------------------------------
ReceiveStep(s) ==
  \/ ReceiveTest(s)
  \/ \E ok \in BOOLEAN : Receive(s, ok)
  \/ ReceiveFails(s) \/ ReceiveEnds(s)

CloseStep(t) ==
  \/ \E s \in Servers : Close(t, s)
  \/ Disconnect(t) \/ Join(t) \/ Delete(t) \/ Terminate(t)

OwnerStep ==
  \/ ConnectFails \/ Connect
  \/ \E s \in Servers, ok \in BOOLEAN : Send(s, ok)
  \/ SendEnd \/ DisconnectEnd \/ JoinNetwork \/ ClearEnd \/ DestructorEnd
  \/ CloseStep(Owner)

NetworkStep ==
  \/ NetworkTest \/ Clean \/ CleanEnd
  \/ \E s \in Servers : PassOver(s)
  \/ CloseStep(Network)

CallStep ==
  \/ \E s \in Servers : CallConnect(s) \/ CallDisconnect(s)
  \/ CallSend \/ CallStart \/ CallStop \/ CallDestructor

RemoteStep ==
  \E s \in Servers : RemoteSends(s) \/ RemoteCloses(s) \/ FiveMinutes(s)

Halted == proc # "up" /\ UNCHANGED vars

Next ==
  \/ CallStep \/ OwnerStep \/ NetworkStep \/ RemoteStep
  \/ \E s \in Servers : ReceiveStep(s)
  \/ Halted

Spec == Init /\ [][Next]_vars

\* The threads are scheduled, and one that waits for connections_mutex gets it at
\* last.  The caller may stop calling, and the other servers owe nothing.
Fairness ==
  /\ SF_vars(OwnerStep) /\ SF_vars(NetworkStep)
  /\ \A s \in Servers : WF_vars(ReceiveStep(s))

FairSpec == Spec /\ Fairness
-----------------------------------------------------------------------------
(* Correctness properties.                                                  *)

OwnerOps == {"idle", "connect", "send", "disconnect", "stop", "clear", "destroy", "over"}
NetworkOps == {"none", "loop", "clean", "cleaning", "ended", "over"}

\* Every variable has its type.
TypeOK ==
  /\ proc \in {"up", "ended", "terminated"}
  /\ running \in BOOLEAN /\ ending \in BOOLEAN
  /\ mutex \in Threads \cup {Unlocked}
  /\ connections \subseteq Servers
  /\ connected \in [Servers -> BOOLEAN]
  /\ socket \in [Servers -> {"invalid", "open", "closed"}]
  /\ joinable \in [Servers -> BOOLEAN]
  /\ rpc \in [Servers -> {"none", "test", "recv", "leave", "ended"}]
  /\ recent \in [Servers -> BOOLEAN]
  /\ remote \in [Servers -> {"away", "linked", "closed"}]
  /\ unread \in [Servers -> BOOLEAN]
  /\ op \in [Threads -> OwnerOps \cup NetworkOps]
  /\ op[Owner] \in OwnerOps /\ op[Network] \in NetworkOps
  /\ todo \in [Threads -> SUBSET Servers]
  /\ cur \in [Threads -> Servers \cup {None}]
  /\ at \in [Threads -> {"none", "disconnect", "join", "delete"}]
  /\ took \subseteq Servers
  /\ total_messages_sent \in 0..MaxSends

\* A receive thread runs only while its connection is in the map and its socket is
\* open, so that it never reads a destroyed object or a handle given out again,
\* whichever thread closes the connection; and no object is destroyed before its
\* socket is closed.
LinkSound ==
  \A s \in Servers :
    /\ rpc[s] \in {"test", "recv", "leave"} => socket[s] = "open"
    /\ socket[s] = "open" => s \in connections

\* The process is terminated by a thread that was not joined only when another
\* server has closed its connection: disconnect() joins the thread unless
\* receiveLoop cleared connected before.
TerminatedByRemote ==
  proc = "terminated" => \E s \in Servers : remote[s] = "closed"

\* The network thread runs only while running is set or stop() waits for it, so
\* that start() never assigns a thread to one that was not joined.
OneNetworkThread ==
  op[Network] \in {"loop", "clean", "cleaning"} => running \/ op[Owner] = "stop"

\* When sendMessage returns, every connection in the map that is connected with a
\* server that has not closed it was sent the message, although receive threads
\* clear connected while the loop runs.
EveryLinkSent ==
  [][op[Owner] = "send" /\ op'[Owner] = "idle" =>
       \A s \in connections : connected[s] /\ remote[s] = "linked" => s \in took]_vars

\* The other servers let no recv() wait for ever.
RemotesSpeak ==
  \A s \in Servers : []<>(rpc[s] = "recv" => unread[s] \/ remote[s] = "closed")

\* Every call of a public method returns, or the process ends, when the other
\* servers let no recv() wait for ever: connections_mutex is given back on every
\* path, and a receive thread that gets something sees that it is to end.
CallsReturn ==
  RemotesSpeak => (op[Owner] \notin {"idle", "over"} ~> op[Owner] \in {"idle", "over"})
=============================================================================
