# Verification of the Windows multi-client chat application

TLA+ specifications of the chat server of `src/server.cpp`, of its links to other
servers (`src/server_manager.cpp`, `src/interserver_protocol.cpp`), of its
configuration (`src/config_manager.cpp`) and of the client program
(`src/client.cpp`), the TLC configurations that check them on small instances, and
theorems about them that TLAPS proves for every instance. `PROJECT.json` holds the same information for
tools: the runs, the source lines each definition translates, the hazards of the
code, the findings and the theorems.

## 1. The system

| Component | Source | State | Operations |
|---|---|---|---|
| Acceptor | `server.cpp` 192-224 | `server_socket`, `running` | accept, compare `clients.size()` with `max_clients`, refuse, start a handler |
| Client handlers | `server.cpp` 226-313 | the vector `clients`, each `Client`'s `socket`, `username`, `active`; a raw `client_ptr` each | prompt, duplicate check and insertion, `clients.back()`, message loop, departure, erase |
| Message relaying | `server.cpp` 315-402 | none of its own | `broadcastMessage`, `sendPrivateMessage`, `sendUserList`, `sendHelp` |
| Server console and shutdown | `server.cpp` 78-83, 126-189, 451-467 | `running` | broadcast, kick, connect, stop/quit, status, list, help; `stop()` and the destructor, which also destroys the links to other servers |
| Startup and command line | `server.cpp` 69-76, 85-124, 580-616 | `port`, `max_clients` | parse options, bind, listen |
| Console output and logging | `server.cpp` 404-449, 469-491 | `cout_mutex` | print |
| Server-to-server link | `server_manager.cpp/.h`, `server.cpp` 493-577 | `connections`, `connections_mutex`, per link `connected`, socket, receive thread, `last_activity` | connect, disconnect, send, receive loop, clean-up, statistics |
| Inter-server protocol | `interserver_protocol.cpp/.h` | none | serialise and parse `ServerMessage` and `ServerInfo`, time-out test |
| Configuration | `config_manager.cpp`, `server_config.h` | `ServerConfig`, the file | load, save, defaults, known and allowed servers |
| Chat client | `client.cpp` | `client_socket`, `connected`, `running` | connect, disconnect, receive thread, input loop |
| Build files | `Makefile`, `build.bat` | none | the Makefile builds `server.cpp` alone, `build.bat` all of it |

How they interact: the acceptor hands each connection to a detached handler
thread. Handlers, the console and `stop()` share the vector `clients` under
`clients_mutex`, but a handler clears `active` and closes its socket without it.
Every thread sends to other clients' sockets from inside its loop over the
vector. The console drives the link to other servers; nothing that arrives on
that link reaches the chat (its message queue is never filled); but the process
ends only when the receive threads of the links have been joined. The server uses
only `server_id` of the configuration, which it loads in its constructor; nothing
in the program calls `saveConfig` or a setter, and nobody listens on
`interserver_port`. A client and its handler share nothing but a TCP connection;
within the client, the input loop and the receive thread share the socket and two
flags.

What is hard here: handles that are closed and given out again while another
thread still holds their number; raw pointers to objects that `stop()`
destroys; checks made under one critical section and used in another; sends
that block while the mutex is held; streams that are read as if they came in
messages; two threads of the client in `disconnect()` at once; a file that is
truncated before it is written. The properties that would make each part
correct:

* acceptor: the limit holds; a full table refuses and nothing else is lost;
* handlers: unique active names; one handler per object; an object leaves the
  table exactly once, inactive, and only then is destroyed; departed clients go;
* relaying: one order of messages for everybody, nobody missed, the right sender
  and the right receiver;
* console: kick disconnects all of that name and nobody else; stop ends the
  process, and no handler uses an object it destroyed;
* link: it can be closed, a dead link is noticed, the process survives a remote
  close;
* protocol: a message that arrives alone is read as it was sent, and no gluing or
  cutting makes up a sender;
* configuration: what was written is loaded again, whatever interrupted the rest;
* client: the handle is closed before it is forgotten, no line is lost, doubled,
  or merged with another without the cause being the missing frame, and both
  threads end when the user quits or the server goes.

## 2. The modules

`ChatServer.tla` models the acceptor, the handlers, the relaying and the
console together, because they share everything.

| State in the model | Code |
|---|---|
| `clients`, `name`, `sock`, `active` | the vector and the fields of `Client`; an object is named by its connection |
| `freed` | objects whose `unique_ptr` was destroyed |
| `mutex`, `pos`, `hit` | `clients_mutex` when it is held across several steps, and the owner's loop: where it is, and whether the test of the element there was passed |
| `fd` | the system's table: the connection behind each open handle. `accept` gives out any free handle, so numbers are reused |
| `peer`, `inbox`, `said` | the remote ends: live, not reading (`stalled`) or gone; what each was sent; how much they sent |
| `apc`, `fresh` / `pc`, `ptr`, `line` / `cpc`, `target`, `issued`, `stops` | where the acceptor, each handler and the console are, and their local variables |
| `proc`, `running`, `listening` | the process, `ChatServer::running`, the listening socket |
| `link` | the connection to another server: none, made and silent, or that server spoke or closed while its receive thread was waited for |

Each action is one step of one thread between two points where another thread
can interfere: a critical section without a send in a loop is one action, a loop
over `clients` takes one step to find its next element (`LoopTest`) and one to
send to it. Steps that only the mutex protects are separated from those that
nothing protects: `Depart` (lines 304-305) interleaves with every loop. A send that
can block while the mutex is held, in a loop or at its end (`PmEnd`, `UserList`), is a
step of its own after the one that took the mutex. The destructor of `ChatServer`
calls `stop()` again and then destroys `server_manager` (line 56): `JoinLinks` waits
until the other server has spoken, and `TerminateAtLinks` is `std::terminate` when it
had closed. Of the link this module keeps just that; `ServerLink` has the rest.
Undefined behaviour (using a destroyed object or the destroyed server, reading
`back()` of an empty or changing vector) may go on with the bytes found there or
end the process: `Crash` is that second outcome and is enabled exactly in those
states, which `UsesDestroyedClient`, `OutlivesServer` and `ReadsBackUnsafely` describe. `EndOfProcess` is what both ends have in common: the threads stop, the
handles are closed.

What is abstracted, and why it is harmless to the properties:

* Texts are not built. A message is a record of its kind and what some property
  looks at. Only the kinds in `Observed` are recorded, and a loop that sends an
  unobserved kind when no peer can stall leaves no trace and is passed over
  (`Traceless`).
* The prompt, the instructions, help, errors and confirmations change nothing. Of
  their sends only the ones that can block while they hold up others, or that come
  before something others wait for (`Instructed`), are kept as guards (`CanSend`).
* That the server is full or a name is taken is sent within the critical section and in
  one step with it. Such a client was sent too little to fill its buffers, and only clients in
  the table stall (`PeerStalls`). If another thread closed its handle and it now belongs to
  one that stalls, the model waits before it takes the mutex and the code with it.
* Empty lines, unknown commands and `/pm` without a text, and the console's
  `help`, `status` and `list`, change no state and are left out.
* One `recv` yields one line; `ChatSession` shows when that is so. A username of
  blanks, or one that contains a space, is just another name here.
* `LoopTest` passes over elements that are not selected in one step. This loses no
  behaviour: names do not change and nobody becomes active again while the mutex
  is held (proved: `UniqueActiveNames` rests on it), so an element that is skipped
  would be skipped by a later test too.
* The address of a destroyed `Client` is not reused for another one.
* `accept` completes and returns in one step; the backlog is not modelled.
* `active` and `running` are read as last written. The code does not synchronise
  them, but a call separates any two reads of one.
* The semantics of handles are those of Winsock's small integers: closing one
  wakes a pending `recv` with an error, and the number may come back.

`Roster.tla` is the abstract specification: who is online under which name. A client
comes online only under a name that nobody holds, and goes offline alone. `ChatServer`
implements it under `online <- Online` (the active clients of the table, each with its
name) and `served <- proc = "up"`. As the roster has the clients beside their names, a
second client under a name that is taken is not a stutter but a step the roster lacks.

`MCChatServer.tla` and `MCServerLink.tla` give the instances for TLC. The former
also has the symmetry sets, and `JoinedInit`, the states in which all connections
have joined (reachable ones: each handler works on its own object or on one
inserted after it). The runs about what happens after joining start there, the run *live*
in `LinkedInit`, where each handler has its own object and a link was made.

`ServerLink.tla` models `ServerManager` with its `InterServerConnection`s: the
thread that calls the public methods, the network thread, and a receive thread
per connection. It stands beside `ChatServer`: the two meet only in the console
thread, whose commands `connect` and `sendmsg` are the calls `CallConnect` and
`CallSend` and whose end is `CallDestructor` (`JoinLinks` there), and nothing received on
a link gets into the chat.

| State in the model | Code |
|---|---|
| `connections`, `mutex` | the map and `connections_mutex`, kept over the whole of a method |
| `connected`, `socket`, `joinable`, `rpc` | each connection: flag, socket, `receive_thread`, and where that thread is |
| `recent` | whether `last_activity` is less than five minutes ago |
| `remote`, `unread` | the other end, and bytes that wait to be read: one `recv` takes them all |
| `op`, `todo`, `cur`, `at` | each thread's method, the connections its loop has ahead, the one it works on and how far it is in closing it |
| `running`, `took`, `total_messages_sent`, `ending` | the manager's flag; the result and count of `sendMessage`; the destructor was called |

Closing is one sequence of steps wherever the code does it (`disconnectFromServer`,
`cleanupDeadConnections`, `connections.clear()` in `stop`, the destructor):
`Disconnect` tests and clears `connected`, `Join` waits for the receive thread and
then closes the socket, `Delete` destroys the object; `Terminate` is `std::terminate`
from the destructor of a thread that was not joined. `disconnectFromServer` calls
`disconnect()` a second time through the destructor, which then returns at once.
`CallConnect` is enabled only for servers without an entry: for the others the code
returns at once and changes nothing. The program calls `connectToServer`,
`broadcastMessage` and the destructor; `Calls` says which methods a configuration
allows, and the run allows all of them. `processMessage` and the queue are left
out: nothing fills the queue, and the handlers only log. A `send` that blocks
because the other server does not read is not modelled here.

`ChatClient.tla` models the client program, and `ChatSession.tla` joins it to
`handleClient` as one connection sees it. The connection is two sequences of
characters, and a `recv` takes any number of those that have arrived, at most
`BufSize`.

| State in the model | Code |
|---|---|
| `client_socket`, `open`, `connected`, `running` | the member, whether its handle is open in the system, the two flags |
| `pc`, `next` | where the input loop (`main`) and the receive thread are, and where `disconnect()` or `sendMessage()` returns to |
| `line`, `typed` | the argument of `sendMessage()`; all of these so far |
| `up`, `down`, `remote` | characters under way; the server's end: open, closed, or closed with characters unread (`reset`) |
| `received`, `shown` | what `recv` returned; the pieces that were printed |
| `hpc`, `taken`, `told` | where the handler is, what it took for the username and for messages, how many answers and messages of others it was sent |
| `held` | another thread holds `clients_mutex`, for any time: it may be in a `send` to a client that does not read |
| `paced` | history: no line was sent before the server had read the one before, and each `recv` took all there was |

`disconnect()` is four steps (`ClearFlags`, `CheckSocket`, `CloseSocket`,
`ForgetSocket`), since it takes no lock and both threads call it. The destructor is
a third call. `Refuse`, `NameTaken`, `Kick` and `ServerEnds` are what the rest of
the server may do to one connection at that point; `ChatServer` says when it does.
`Accept`, `NameTaken`, `Joins`, `Shares` (what a message makes the handler do under the
mutex: a broadcast, `/pm`, `/list`) and `Leave` need `clients_mutex` free, `Leave` because
the handler tells the others before it closes. Which message leads to which
of these is left open, `/quit` excepted.
What is abstracted: a text is a few characters, each of which stands for itself; the
carriage return is like the line feed, NUL does not occur; `/exit` is `/quit`,
`/ping` is any other line. An end that is closed with characters unread resets the
connection: the other end may then lose what it has not read (`CloseSocket`,
`CloseRemote`), and its next send fails. A send of this client or to it does not block
here; that it blocks for another is what `held` stands for.

`ServerConfiguration.tla` models `ConfigManager`, its file, and the starts and ends
of the process, `InterServerProtocol.tla` the four functions that write and parse
texts, and `ServerMessaging.tla` composes them: a server that signs its messages
with the configured `server_id`, and a `receiveLoop` at the other end.

| State in the model | Code |
|---|---|
| `config`, `known`, `file` | `ConfigManager::config`, its `known_servers`, the lines of the file |
| `unwritten`, `attempt` | what `saveConfig` has yet to write; history: the configuration it was called with, until the file is edited |
| `proc` | the process |
| `wire` | characters sent on the link and not received |
| `sent`, `got`, `framed` | history: messages sent and accepted; each `recv` so far returned one message |

`Construct` is the constructor of `ChatServer` as far as the configuration goes;
when the file has a bad number it throws, main returns, and no step is taken.
`saveConfig` is a step that truncates the file and a step per line; `WriteFails`
ends it at any line, of which it may leave the beginning, and `ProcessEnds` too, at
a line's end. Five keys stand for the eleven, one for each way a key is treated. The
one flag has the values `True` and `False`, where a beginning of `True` is
something else. `isServerAllowed` and `getConfigSummary` only read. The other end of
the link is a server of the same program, as the code intends, although none listens on
its `interserver_port`. A number is its text: `std::stoi` reads a minus sign and digits
after blanks and throws without a digit (a plus sign, leading zeros, which printing
would drop, and numbers out of range are left out). A time is its whole seconds and the
rest (`Times`), and only the seconds are written. The message type is the text `200`, so
that a stream can be cut inside it. Texts with a line feed, which would become two lines of
the file, are excluded (`NL \notin Chars`).
`Texts.tla` has these functions on texts, as recursive functions and maps that the
provers can unfold. The constant `Chars` is the set of characters a text may have.
The assumptions of these modules say what the environment owes: a
setting gives a number key a number and a flag a flag, as the setters' types do
(`ConfigurationAssumption`); what the operator sends is not empty, as the console's
`sendmsg` checks (`MessagingAssumption`). The lines of a file may hold anything.

The theorems are in modules of their own: `ChatServerProofs.tla`,
`ChatServerHandleProofs.tla` and `ChatServerOrderProofs.tla` about `ChatServer`,
`ServerLinkProofs.tla`, `ChatSessionProofs.tla` (the client's threads) and
`ChatSessionTextProofs.tla` (what travels), `ServerMessagingProofs.tla`; the lemmas
about texts are in `TextsProofs.tla`.

Operators marked "Mutant" are the definitions before them with a plausible bug.
No specification uses them; replacing the definition by its mutant must break the
property that `PROJECT.json` pairs with it.

## 3. The runs

| Run | Module, cfg | Checks | Result |
|---|---|---|---|
| core | `MCcore.cfg` | `TypeOK`, `UniqueActiveNames`, `TableSound`, `RemovedWhenInactive`, `KickIsComplete`, `RefinesRoster` | hold, 1.8 million states |
| order | `MCorder.cfg` | `ConsistentOrder`, `BroadcastReachesAll` | hold, 0.6 million states |
| undisturbed | `MCundisturbed.cfg` | `UndisturbedHandles`, `UndisturbedConnected`, `UndisturbedSender` | hold, 1.0 million states |
| live | `MClive.cfg` | `ShutdownCompletes`, `RequestsReturn`, `OwnersRemoved` | hold, 0.1 million states |
| link | `MClink.cfg` | `TypeOK`, `LinkSound`, `TerminatedByRemote`, `OneNetworkThread`, `EveryLinkSent`, `CallsReturn` | hold, 0.2 million states |
| session | `MCsession.cfg` | `TypeOK`, `NothingLeftOpen`, `FlagsBeforeClose`, `HeardInOrder`, `PacedLinesAreMessages`, `ShownKeepsLines`, `QuitEnds`, `LostEnds`, `HandlerLeaves` | hold, 0.5 million states |
| messages | `MCmessages.cfg` | `TypeOK`, `FramedIsFaithful`, `StartsAfterSave`, `SenderNeverForged`, `InfoSurvives`, `LoadRestores` | hold, 0.6 million states |
| limit | `Vlimit.cfg` | `WithinLimit` | violated |
| ghost | `Vghost.cfg` | `DepartedRemoved` | violated |
| shutdown | `Vshutdown.cfg` | `ClientsOutliveUse` | violated |
| kick | `Vkick.cfg` | `ActiveIsConnected` | violated |
| pm | `Vpm.cfg` | `PmReachesNamed` | violated |

Bounds. *core* has two connections over two handles, one typed name besides the
empty line, one kick, a link and stop: two threads of every kind that exists more than
once, equal names, different ones, and the anonymous names of two handles; the
theorems below lift its properties to all instances. *order* needs two
receivers and two senders of which one is the operator, hence three connections;
at most one of them leaves (`FewLeave`). *undisturbed* has three connections on
two handles, so that every handle is given out again, with a limit of two; it says what a
handler does with the handle of its own object, not what others send to that handle (the
run *pm* shows a private message that goes to a handle given out again).
*live* and *ghost* start joined with two connections. In *live* every handler has its own
object, as the premise of `OwnersRemoved` asks, and the liveness of the adopted ones is
what *ghost* refutes; one client may stall and resume, a line may be chat, `/pm` or
`/list`, and after the command stop the destructor calls `stop()` a second time and joins
the link.
*link* has two servers, so that one can be closed while another is used, and one
message; calls are not bounded otherwise, and every server can be connected,
lost and connected again. `MaxLines` and `MaxCommands` bound what peers and
the operator send. In *session* a client types three lines, the third of which
can be glued to the second while the first is the username; lines are one or two
characters, and `BufSize` is three, so that a `recv` may return part of a line, a
line, or more than one. One message of others is enough to be cut or glued to the
server's own, and others may hold the mutex at every point. *messages* has three acts after which nothing is bounded but
the state itself: start, change and start again, with any number of saves, failures
and loads between; or start and two messages, one with a `|` in it, which the stream
cuts at any place. The id that a new server draws has two characters and ends in a
digit, as `SERVER_` and eight random alphanumerics may: the rest of a cut id can then
be read as a type. Its deadlock check is off: a server whose process has ended and
that is not started again has stopped. The symmetry of handles and typed names is used in safety runs only. The constraint
`Undisturbed` cuts states in which a handler has taken another's object; `ptr` is
never reset, so nothing beyond such a state satisfies the premise of the
properties of that run. In *kick* the constraint `OwnClient` and in *pm*
`Undisturbed` keep the counterexample apart from the race of *ghost*.
Deadlock is not checked in *order* and the runs that expect a violation: with no
stop command the server waits for input that the bounds do not allow.

Fairness (`Fairness`): the acceptor, the console and each handler are strongly
fair in the steps they take on their own. Weak fairness would not do, because
`clients_mutex` is taken and released by others; strong fairness says that a
thread which finds the mutex free again and again gets it at last, which the
scheduler of the system provides in practice and `std::mutex` does not promise.
Peers and the operator owe nothing: they may never type, leave or read.
In `ServerLink` the caller's steps within a method and the network thread are
strongly fair for the same reason, each receive thread weakly, and
`RemotesSpeak` is the premise: `disconnect()` joins a thread that only the other
server can wake, so a silent one holds up the call, every other user of
`connections_mutex`, and the end of the process.
In `ChatSession` the client's two threads, which share no lock, are weakly fair in what
they do on their own, and the handler strongly, because it takes `clients_mutex`;
typing is the user's choice and `InputGoesOn` the premise of `LostEnds`, because the main
thread notices a lost connection only when `std::getline` returns. Others owe nothing, so
that `HandlerLeaves` has the premise `MutexFreed`: who holds the mutex gives it up again,
which in `ChatServer` needs `StallsEnd`.
`StallsEnd` is a premise of the liveness properties of `ChatServer`: a peer that stays
connected and never reads holds up whoever sends to it, and `clients_mutex` with it. It may
read again (`PeerResumes`) or leave. `RemoteAnswers` is the second premise of
`ShutdownCompletes`: the exit joins the receive thread of a link, which only the other
server can wake.

What *link* says about the end of the program: if another server has closed its
connection before main returns, the destructor of a connection meets a thread
that was not joined and the process is terminated; `TerminatedByRemote` says that
this is the only way to it. If the other server is alive and silent, main waits
for it. A message from a server that was found inactive is what completes its
removal, since it ends the `recv` that `disconnect()` waits for.

What *session* says about framing: there is none but the reader's pace.
`PacedLinesAreMessages` holds because the handler takes whatever one `recv` returns
for a message, so that lines stay apart just when one
`recv` reads each of them whole before the next is sent; otherwise only the
text's order is kept (`HeardInOrder`). *messages* says the same of the
link: a message is read as it was sent when it arrives alone; glued or cut it may be
accepted with another type, time or payload, but never with another server's id as
the sender, as long as ids and payloads contain no `|`. It may have an empty sender:
when a `recv` begins inside an id that has a digit there, the rest of the id is read
as the type, and the empty target after it as the sender (`SenderNeverForged`).

### What the violated runs show

* **limit**: the size is checked when a connection is accepted, the client is
  inserted after its name was read. `README.md:7` promises "up to 50 clients".
* **ghost**: `clients.back()` is read after the mutex was released (line 266).
  Two handlers adopt the same object; the other object is never served, never
  deactivated, never erased. `WORKING.md:83`: "The server handles graceful
  shutdown and client disconnections."
* **shutdown**: while `stop()` runs, the handler of a client that was accepted registers it
  and takes `clients.back()`; `clients.clear()` (line 143) destroys
  the object, and the handler goes on to send the instructions through it (line 278),
  against the same sentence.
* **kick**: the socket of a kicked client is closed twice (lines 459 and 305); the
  second close can cut off a connection accepted in between. `WORKING.md:22`:
  "`kick <username>`: Disconnects a specific client."
* **pm**: between the test of `active` and the send (lines 365-367) the socket may
  be closed and given to a new connection, which then reads somebody else's
  private message. `README.md:9`: "Private messaging between clients".

## 4. The theorems

In `ChatServerProofs.tla`, for any sets of connections, handles and names, any
sign of `max_clients` and any number of lines and commands, under the two named
assumptions of `ChatServer` (the special values differ from the connections; the
bounds are numbers and the options are from their lists):

| Theorem | Statement |
|---|---|
| `TypeCorrect` | `Spec => []TypeOK` |
| `UniqueNames` | `Spec => []UniqueActiveNames` |
| `TableIsSound` | `Spec => []TableSound` |
| `RemovedInactive` | `Spec => RemovedWhenInactive` |
| `KickComplete` | `Spec => KickIsComplete` |
| `ImplementsRoster` | `Spec => RefinesRoster` |

The inductive invariant of `ChatServerProofs` is `IInv`:

* `TypeInv`: `TypeOK`, and that a handler beyond `clients.back()` has a
  `client_ptr`, that an accepted connection is at hand when it is admitted, and
  that `stop()` has a call left while it runs.
* `PhaseInv`: an object that is idle, at the name prompt or about to register is
  neither in the vector nor destroyed, and no handler works on such an object.
  Without it a second `Register` or a destruction of a table entry could not be
  excluded.
* `LoopInv`: what the owner of the mutex knows of the elements it passed: none of
  them is active in the loop of `stop()`, none of them has the name in the loop of
  `kickUser`. `RemovedWhenInactive` and `KickIsComplete` follow at the loops' ends,
  although sockets and flags change under the loops.
* `EraseInv`: a handler about to erase has an inactive object, even when that
  object is another's.
* `NameInv`: a client has a username before it is registered.
* `EndInv`: no thread outlives the process, so that nothing but a peer moves after
  its end, as `Roster` demands.
* `TableSound` and `UniqueActiveNames` themselves.

Each part has a lemma that every step preserves it (`TypeStep`, `PhaseStep`,
`TableStep`, `UniqueStep`, `LoopInvStep`, `EraseInvStep`, `NameInvStep`,
`EndInvStep`), by cases
over the actions; frame lemmas dispose of the steps that do not touch what a
part speaks of. `RosterStep` maps every step to a step of `Roster` or a stutter; that
`Register` is a `ComeOnline` rests on the scan having found nobody active under the name.
The lemmas on `RemoveAt` and `Append` are about the community module's operators.

In `ChatServerHandleProofs.tla`, under the same assumptions:

| Theorem | Statement |
|---|---|
| `HandlesAreOwn` | `Spec => []UndisturbedHandles` |
| `ActiveStayConnected` | `Spec => []UndisturbedConnected` |
| `SendersAreRight` | `Spec => []UndisturbedSender` |

`HInv` is `IInv`, `PtrInv` (no `client_ptr` before `back()` is read), `StopInv` (what
`stop()` has done so far, and that without the command nobody kicks) and, as long as
`Undisturbed` holds, `OwnInv`. The three properties need the two directions of `InStep`
together: an open handle belongs to a connection that somebody still holds
(`OpenHeld`), and who holds a connection has a handle that is its own, or closed once
the listener is (`HeldOwn`). Neither is inductive alone, because `accept` may give out a
handle that was closed. `SourceOwn` and `RightSender` carry this from the handle to the
bytes read from it and to the messages sent. `Undisturbed` never becomes true again,
so the induction is under it.

In `ChatServerOrderProofs.tla`, under the same assumptions:

| Theorem | Statement |
|---|---|
| `ReachesAll` | `"chat" \in Observed` gives `Spec => []BroadcastReachesAll` |
| `OrderIsConsistent` | `Observed \subseteq {"chat", "server"}` gives `Spec => []ConsistentOrder` |

`Observed` says which messages the model records, so the hypotheses say what is
looked at and nothing about the server: a message that is not recorded cannot be found
in an inbox, and the kinds besides these two are not numbered. Both theorems hold
in spite of the races, and rest on `OwnerKeeps`: while a thread owns the mutex, the vector,
its place in `processMessage` and its message stay as they are, whoever else moves.
For the order, chat and operator messages are numbered; a message is new
when its loop starts, because no message anybody heard is one that a thread has still to
broadcast (`HeardPast`); and a client that was sent the one being broadcast was sent
nothing else after it (`TailInv`), although two objects on one handle may get it there
twice. So a loop only adds the newest message at the ends of inboxes.

In `ServerLinkProofs.tla`, for any set of servers, any selection of public methods
and any number of messages:

| Theorem | Statement |
|---|---|
| `TypeCorrect` | `Spec => []TypeOK` |
| `LinksAreSound` | `Spec => []LinkSound` |
| `NetworkThreadIsOne` | `Spec => []OneNetworkThread` |
| `TerminatedOnlyByRemote` | `Spec => []TerminatedByRemote` |
| `EveryLinkIsSent` | `Spec => EveryLinkSent` |

There `IInv` adds to these invariants `LockInv` (who closes connections holds
`connections_mutex`, or is the destructor when the network thread is over, hence
`OneCloses`), `ThreadInv` (an open socket has a thread to join, and a connection
that is not connected although nobody waits for its thread was closed by the other
server), `SendInv` (what the loop of `sendMessage` left behind was sent to) and
`EndInv`. `LockInv` needs `OneNetworkThread`: the destructor takes no mutex for the
map.

In `ChatSessionProofs.tla`, for any lines, any length of buffer and any number of
lines and messages:

| Theorem | Statement |
|---|---|
| `HandleClosed` | `Spec => []NothingLeftOpen` |
| `FlagsMeanOpen` | `Spec => []FlagsBeforeClose` |
| `ControlTyped` | `Spec => []ControlOK`, the part of `TypeOK` about the threads and the socket |

`NothingLeftOpen` is not inductive: that main returns with the handle closed rests
on who is where in `disconnect()`. `IInv` adds `SocketInv` (a thread past the
flags sees both cleared, and one that is about to forget the handle finds it closed,
by itself or by the other thread) and `OrderInv` (main comes to the destructor only
with the receive thread over, and each call of `disconnect()` returns where it
should). The handler's steps leave all of this unchanged.

In `ChatSessionTextProofs.tla`, for the same instances:

| Theorem | Statement |
|---|---|
| `SessionTyped` | `Spec => []TypeOK` |
| `LinesAreShown` | `Spec => []ShownKeepsLines` |
| `HeardAsTyped` | `Spec => []HeardInOrder` |
| `PacedLinesTaken` | `Spec => []PacedLinesAreMessages` |

`TextOK` is the part of `TypeOK` about texts. `Moves` reduces the many actions to what
they do to the typed text: they send a line, take what one `recv` returns, lose what is
on its way, or none of it. `HeardInv` says that what was taken, followed by what is on
its way, begins what was typed, and is all that was sent as long as a line sent now
would arrive. The second half is what keeps the first when a line is sent: after a
reset lost something, nothing more may come. `PaceInv` says for `paced` that at most one
line is on its way and that those before it were taken one by one.

In `ServerMessagingProofs.tla`, for any characters, random ids, settings, files,
payloads and number of acts:

| Theorem | Statement |
|---|---|
| `MessagingTyped` | `Spec => []TypeOK` |
| `InfoIsFaithful` | `Spec => []InfoSurvives` |
| `FramedMessagesAreRead` | `Spec => []FramedIsFaithful` |
| `SenderIsKnown` | `Spec => []SenderNeverForged` |
| `SavedFilesLoad` | `Spec => []StartsAfterSave` |
| `LoadingRestores` | `Spec => LoadRestores` |

* `SaneInv`: the port of the configuration is a number as it is printed, the flag `True`
  or `False`.
* `FramedInv`: under `framed` only the last message can be on its way, and it is whole;
  what was accepted is what was read of those before it.
* `PhaseInv`: without bars in ids and payloads, what is on its way begins somewhere in a
  message, and from there on every fourth piece between bars is the id of a server that
  sent and the piece after it is empty. A parser that starts inside a message finds
  the pieces shifted. It needs numbers as the type and as the time, three pieces later,
  so that neither can be the empty target; the two shifts that remain give an id that
  was sent, or the empty target, as the sender (`GotInv`).
* `SaveInv`: after a save began and until the file is edited, the lines of the file are
  the first ones of the configuration that was being saved, only the last may be cut,
  and `unwritten` holds those that follow, or nothing. That such a file loads
  (`StartsAfterSave`) rests on two things: a line with nothing after its `=` is passed
  over before `std::stoi` sees it, and what a cut leaves of a number that is not negative
  is a number. After a negative port the file may end in `port=-`, of which the next
  start dies; the property excludes it.

The proof of `SenderIsKnown` found an error in an earlier form of its property, which
promised a known sender for ids that are no numbers. TLC had agreed, because the ids
of the instance had one character. The end of a longer id can be a number although
the id is none, and then the sender is empty. The property now says so, and the
instance has such an id.

`TextsProofs.tla` proves what `Split`, `Without`, `Number`, `Trim` and the community
module's `FlattenSeq` do to every text: how they act on an appended character, on a
concatenation, on joined fields. This is induction over data. The library's theorems for
it take an operator as a parameter, which the installed provers cannot instantiate;
`Induction` and `SeqInduction` say the same of a set and are derived from the
well-foundedness of `<` on the natural numbers, so that an induction here defines the set
of the cases for which the claim holds.

Only model-checked is the liveness: `ShutdownCompletes`, `RequestsReturn`,
`OwnersRemoved`, `CallsReturn`, `QuitEnds`, `LostEnds` and `HandlerLeaves`. TLAPS does not
reason about `ENABLED`, hence not about fairness. Every invariant and action property of
the passing runs is proved. The five violated runs are counterexamples on the instances
they name.

## 5. Not modelled, and the plan

What is left to do, in order:

1. `RightSender` and `OwnHandle` outside `Undisturbed`: how far the damage of one
   adopted object or one kick goes (which connections it can reach), as a property and
   then a theorem.
2. An abstract specification of the link (a set of connected servers, each lost or
   closed once) that `ServerLink` implements, in the way of `Roster`.
3. An abstract specification of the session: a text typed and a beginning of it taken,
   of which `HeardInOrder` is the safety part.

Left out for good: formatting, logging and help texts, option parsing, `bind` and
`listen`, the build files; `status`, `servers` and `network`, which only print;
`processMessage` of the link and its handlers, `getNetworkStatus`,
`discoverServers` and the other stubs, `isServerAllowed`, `getConfigSummary`,
`getCurrentTimestamp` and `isServerTimeout`, which nothing calls and which change
nothing that is read.
