------------------------ MODULE ChatServerOrderProofs ------------------------
(***************************************************************************)
(* Proofs about what broadcastMessage delivers, for any connections,        *)
(* handles and bounds, whatever the threads do to each other's objects and  *)
(* sockets.  Both rest on what the owner of clients_mutex may rely on:      *)
(* until it gives the mutex back, the vector, its own position in           *)
(* processMessage and its message stay as they are (OwnerKeeps).            *)
(***************************************************************************)
EXTENDS ChatServerProofs

USE DEF serverVars, lockVars, tableVars, netVars, acceptorVars, handlerVars,
        consoleVars, outsideHandlers, outsideConsole, outsideAcceptor

Threads == Conns \cup {Console}

\* Where a handler can be while it owns the mutex across steps.
Owning == {"join", "chat", "leave", "pm", "list"}
OwnerInv == mutex \in Conns => pc[mutex] \in Owning

\* Whoever was accepted has a handle.
SockInv == \A c \in Conns : peer[c] # "away" => sock[c] \in Handles

-----------------------------------------------------------------------------
(* The owner of the mutex.                                                  *)

LEMMA ThreadsType == Console \notin Conns /\ Unlocked \notin Threads /\ Console # Unlocked
BY ConnsAssumption DEF Threads, Console, Unlocked

\* What a thread that owns the mutex relies on.
OwnerStays ==
  /\ clients' = clients
  /\ mutex \in Conns => pc'[mutex] = pc[mutex] /\ ptr'[mutex] = ptr[mutex]
                        /\ line'[mutex] = line[mutex]
  /\ mutex = Console => cpc' = cpc /\ issued' = issued

\* A handler that does not own the mutex leaves the owner alone.
LEMMA OthersStay ==
  ASSUME TypeInv, OwnerInv, NEW c \in Conns, NEW l, pc[c] \notin Owning,
         pc' = [pc EXCEPT ![c] = l],
         ptr' = ptr \/ \E o : ptr' = [ptr EXCEPT ![c] = o],
         line' = line \/ \E x : line' = [line EXCEPT ![c] = x],
         UNCHANGED <<clients, cpc, issued>>
  PROVE  OwnerStays
<1>1. mutex # c
  BY DEF OwnerInv
<1>2. \A d \in Conns \ {c} : pc'[d] = pc[d] /\ ptr'[d] = ptr[d] /\ line'[d] = line[d]
  BY DEF TypeInv, TypeOK
<1>3. QED
  BY <1>1, <1>2 DEF OwnerStays

LEMMA OwnerKeeps ==
  ASSUME TypeInv, PhaseInv, LoopInv, OwnerInv, Next, mutex # Unlocked, mutex' = mutex
  PROVE  OwnerStays
<1>1. CASE UNCHANGED <<clients, pc, ptr, line, cpc, issued>>
  BY <1>1 DEF OwnerStays
<1>2. CASE Admit
  BY <1>2 DEF Admit
<1>3. ASSUME NEW c \in Conns,
             \/ NoUsername(c) \/ AdoptBack(c) \/ \E t \in Typed : ReadUsername(c, t)
      PROVE  OwnerStays
  BY <1>3, OthersStay DEF NoUsername, AdoptBack, ReadUsername, Owning
<1>4. ASSUME NEW c \in Conns,
             LoopCheck(c) \/ Disconnected(c) \/ ReadQuit(c) \/ Depart(c)
      PROVE  OwnerStays
  BY <1>4, OthersStay DEF LoopCheck, Disconnected, ReadQuit, Depart, Owning
<1>5. ASSUME NEW c \in Conns, NEW kind, NEW to, ReadLine(c, kind, to)
      PROVE  OwnerStays
  BY <1>5, OthersStay DEF ReadLine, Owning
<1>6. ASSUME NEW c \in Conns,
             RejectName(c) \/ Register(c) \/ Erase(c)
      PROVE  FALSE
  BY <1>6 DEF RejectName, Register, Erase
<1>7. ASSUME mutex \in Threads, Unlock PROVE FALSE
  BY <1>7, ThreadsType DEF Unlock
<1>8. mutex \in Threads
  BY DEF TypeInv, TypeOK, Threads
<1>9. CASE cpc \in {"prompt", "flag", "listener"} /\ UNCHANGED <<clients, pc, ptr, line>>
  BY <1>9, ThreadsType DEF LoopInv, OwnerStays
<1>10. CASE \/ BroadcastCommand \/ \E n \in Usernames : KickCommand(n)
            \/ \E k \in 1..2 : StopCommand(k)
            \/ ClearRunning \/ CloseListener
  BY <1>9, <1>10
     DEF BroadcastCommand, KickCommand, StopCommand, ClearRunning, CloseListener
<1>11. CASE LinkWork
  BY <1>1, <1>9, <1>11, LinkFrame, ThreadsType DEF LoopInv, OwnerStays
<1>12. QED
  BY <1>1, <1>2, <1>3, <1>4, <1>5, <1>6, <1>7, <1>8, <1>10, <1>11
     DEF Next, Environment, Server, Operator, AcceptorWork, HandlerWork, HandlerReads,
         ConsoleWork, LoopStep, ReadChat, ReadPm, ReadList, Halted, vars,
         PeerLeaves, PeerStalls, PeerResumes, AcceptLoop, Accept, AcceptFails, Refuse,
         Lock, LoopTest, BroadcastSend, BroadcastEnd, UserList, PmEnd, KickEnd,
         SweepClient, SweepEnd, LinkWork, TerminateAtLinks, Exit, Crash, EndOfProcess

\* Only Lock makes a thread the owner.
LEMMA OwnerComes ==
  ASSUME TypeInv, Next, mutex' # mutex, mutex' # Unlocked
  PROVE  \E t \in Threads : Lock(t) /\ mutex' = t
BY ZenonT(40) DEF Next, Environment, Server, Operator, AcceptorWork, HandlerWork, HandlerReads,
       ConsoleWork, LoopStep, ReadChat, ReadPm, ReadList, Halted, vars, Threads,
       PeerLeaves, PeerStalls, PeerResumes, AcceptLoop, Accept, AcceptFails, Refuse, Admit,
       NoUsername, ReadUsername, RejectName, Register, AdoptBack, Lock, LoopTest,
       BroadcastSend, BroadcastEnd, LoopCheck, Disconnected, ReadLine, ReadQuit,
       UserList, PmEnd, Depart, Erase, BroadcastCommand, KickCommand, KickEnd,
       StopCommand, ClearRunning, CloseListener, SweepClient, SweepEnd, ConnectCommand,
         RemoteSpeaks, RemoteCloses, JoinLinks, TerminateAtLinks, Exit, Crash,
       EndOfProcess, Unlock, NextElement

LEMMA OwnerStep ==
  ASSUME TypeInv, PhaseInv, LoopInv, OwnerInv, Next
  PROVE  OwnerInv'
<1>1. CASE mutex' = mutex /\ mutex # Unlocked
  BY <1>1, OwnerKeeps DEF OwnerInv, OwnerStays
<1>2. CASE mutex' = Unlocked
  BY <1>2, ThreadsType DEF OwnerInv, Threads
<1>3. CASE mutex' # mutex /\ mutex' # Unlocked
  <2>1. PICK t \in Threads : Lock(t) /\ mutex' = t
    BY <1>3, OwnerComes
  <2>2. CASE t \in Conns
    BY <2>1, <2>2, ThreadsType
       DEF Lock, Op, Broadcasts, OwnerInv, Owning, TypeInv, TypeOK, HandlerPcs
  <2>3. CASE t = Console
    BY <2>1, <2>3, ThreadsType DEF OwnerInv
  <2>4. QED
    BY <2>2, <2>3 DEF Threads
<1>4. QED
  BY <1>1, <1>2, <1>3

LEMMA SockStep ==
  ASSUME TypeInv, SockInv, Next
  PROVE  SockInv'
<1>1. ASSUME NEW c \in Conns, NEW h \in Handles, Accept(c, h) PROVE SockInv'
  BY <1>1 DEF Accept, SockInv, TypeInv, TypeOK
<1>2. ASSUME NEW c \in Conns, PeerLeaves(c) \/ PeerStalls(c) \/ PeerResumes(c) PROVE SockInv'
  BY <1>2 DEF PeerLeaves, PeerStalls, PeerResumes, SockInv, TypeInv, TypeOK
<1>3. CASE UNCHANGED <<peer, sock>>
  BY <1>3 DEF SockInv
<1>4. QED
  BY <1>1, <1>2, <1>3
     DEF Next, Environment, Server, Operator, AcceptorWork, HandlerWork, HandlerReads,
         ConsoleWork, LoopStep, ReadChat, ReadPm, ReadList, Halted, vars,
         AcceptLoop, AcceptFails, Refuse, Admit,
         NoUsername, ReadUsername, RejectName, Register, AdoptBack, Lock, LoopTest,
         BroadcastSend, BroadcastEnd, LoopCheck, Disconnected, ReadLine, ReadQuit,
         UserList, PmEnd, Depart, Erase, BroadcastCommand, KickCommand, KickEnd,
         StopCommand, ClearRunning, CloseListener, SweepClient, SweepEnd, ConnectCommand,
         RemoteSpeaks, RemoteCloses, JoinLinks, TerminateAtLinks, Exit, Crash,
         EndOfProcess
-----------------------------------------------------------------------------
(* What is sent.                                                            *)

\* The messages that go to one client only.
Replies == {"list", "full", "taken", "kicked", "shutdown", "pm"}

LEMMA InboxMoves ==
  ASSUME TypeInv, Next
  PROVE  \/ inbox' = inbox
         \/ \E t \in Threads : BroadcastSend(t)
         \/ \E h : \E m \in Messages : inbox' = Sent(h, m) /\ m.kind \in Replies
<1> DEFINE Goal == \/ inbox' = inbox
                   \/ \E t \in Threads : BroadcastSend(t)
                   \/ \E h : \E m \in Messages : inbox' = Sent(h, m) /\ m.kind \in Replies
<1>1. ASSUME NEW h, NEW k \in Replies \ {"pm"}, inbox' = Sent(h, [kind |-> k]) PROVE Goal
  <2>1. [kind |-> k] \in Messages /\ [kind |-> k].kind = k
    BY DEF Messages, Replies
  <2>2. QED
    BY <1>1, <2>1
<1>2. ASSUME NEW c \in Conns, PmEnd(c) PROVE Goal
  <2> DEFINE m == [kind |-> "pm", from |-> ptr[c], line |-> line[c]]
  <2>1. m \in Messages /\ m.kind \in Replies
    BY <1>2 DEF TypeInv, TypeOK, PmEnd, Working, Messages, Replies
  <2>2. inbox' = inbox \/ inbox' = Sent(sock[clients[pos]], m)
    BY <1>2 DEF PmEnd
  <2>3. QED
    BY <2>1, <2>2
<1>3. ASSUME NEW c \in Conns, UserList(c) \/ RejectName(c) PROVE Goal
  BY <1>1, <1>3 DEF UserList, RejectName, Replies
<1>4. CASE Refuse \/ SweepClient
  BY <1>1, <1>4 DEF Refuse, SweepClient, Replies
<1>5. CASE KickEnd
  BY <1>1, <1>5 DEF KickEnd, Replies
<1>6. QED
  BY <1>2, <1>3, <1>4, <1>5
     DEF Next, Environment, Server, Operator, AcceptorWork, HandlerWork, HandlerReads,
         ConsoleWork, LoopStep, ReadChat, ReadPm, ReadList, Halted, vars, Threads,
         PeerLeaves, PeerStalls, PeerResumes, AcceptLoop, Accept, AcceptFails, Admit,
         NoUsername, ReadUsername, Register, AdoptBack, Lock, LoopTest,
         BroadcastEnd, LoopCheck, Disconnected, ReadLine, ReadQuit, Depart, Erase,
         BroadcastCommand, KickCommand, StopCommand, ClearRunning, CloseListener,
         SweepEnd, ConnectCommand,
         RemoteSpeaks, RemoteCloses, JoinLinks, TerminateAtLinks, Exit, Crash, EndOfProcess

LEMMA BroadcastText ==
  ASSUME TypeInv, NEW t, BroadcastSend(t)
  PROVE  /\ t \in Threads => Text(t) \in Messages
         /\ inbox' = Sent(sock[clients[pos]], Text(t))
BY TextType DEF BroadcastSend, Threads

\* Nothing that was sent is taken back.
LEMMA InboxGrows ==
  ASSUME TypeInv, Next, NEW d \in Conns, NEW i \in DOMAIN inbox[d]
  PROVE  i \in DOMAIN inbox'[d] /\ inbox'[d][i] = inbox[d][i]
<1>1. TypeOK
  BY DEF TypeInv
<1>2. ASSUME NEW h, NEW m \in Messages, inbox' = Sent(h, m)
      PROVE  i \in DOMAIN inbox'[d] /\ inbox'[d][i] = inbox[d][i]
  BY <1>1, <1>2, SentElements
<1>3. QED
  BY <1>2, InboxMoves, BroadcastText

\* What the owner broadcasts stays what it is.
LEMMA TextStays ==
  ASSUME TypeInv, OwnerStays, NEW t \in Threads, mutex = t
  PROVE  Op(t)' = Op(t) /\ (Op(t) \in Broadcasts => Text(t)' = Text(t))
<1>1. CASE t = Console
  BY <1>1, ThreadsType DEF OwnerStays, Op, Text, TypeInv, TypeOK
<1>2. CASE t \in Conns
  <2>1. Op(t)' = Op(t) /\ ptr'[t] = ptr[t] /\ line'[t] = line[t] /\ Op(t) = pc[t]
    BY <1>2, ThreadsType DEF OwnerStays, Op
  <2>2. Op(t) \in Broadcasts => pc[t] \in {"join", "chat", "leave"}
    BY <1>2, <2>1 DEF Broadcasts, TypeInv, TypeOK, HandlerPcs
  <2>3. QED
    BY <2>1, <2>2 DEF Text
<1>3. QED
  BY <1>1, <1>2 DEF Threads
-----------------------------------------------------------------------------
(* A chat message reaches everybody the loop has passed.                    *)

\* What was sent to a client is still in its inbox.
LEMMA StillContains ==
  ASSUME TypeInv, Next, NEW d \in Conns, NEW m, Contains(inbox[d], m)
  PROVE  Contains(inbox'[d], m)
<1>1. inbox[d] \in Seq(Messages) /\ inbox'[d] \in Seq(Messages)
  BY TypeStep DEF TypeInv, TypeOK
<1>2. PICK i \in DOMAIN inbox[d] : inbox[d][i] = m
  BY <1>1, LenProperties DEF Contains
<1>3. i \in DOMAIN inbox'[d] /\ inbox'[d][i] = m
  BY <1>2, InboxGrows
<1>4. QED
  BY <1>1, <1>3, LenProperties DEF Contains

\* The members of the vector keep their handles, and none comes back to life.
LEMMA MembersKeep ==
  ASSUME TypeInv, PhaseInv, SockInv, Next, NEW o \in Members
  PROVE  /\ active'[o] => active[o]
         /\ sock'[o] = sock[o] /\ sock[o] \in Handles
         /\ fd'[sock[o]] = o => fd[sock[o]] = o
<1>1. o \in Conns /\ pc[o] \notin Early /\ peer[o] # "away" /\ sock[o] \in Handles
  BY MembersType DEF TypeInv, PhaseInv, SockInv, Early
<1>2. o # None
  BY <1>1, ConnsAssumption
<1> DEFINE Connection == sock'[o] = sock[o] /\ (fd'[sock[o]] = o => fd[sock[o]] = o)
           Inactive == active'[o] => active[o]
<1>3. ASSUME NEW c \in Conns, NEW h \in Handles, Accept(c, h)
      PROVE  Connection /\ Inactive
  BY <1>1, <1>3 DEF Accept, TypeInv, TypeOK
<1>4. ASSUME sock' = sock, \E h : fd' = Closed(h) PROVE Connection
  BY <1>1, <1>2, <1>4 DEF Closed
<1>5. ASSUME UNCHANGED <<sock, fd>> PROVE Connection
  BY <1>5
<1>6. ASSUME Admit PROVE Inactive
  BY <1>1, <1>6 DEF Admit, TypeInv, TypeOK, PhaseInv, Early
<1>7. ASSUME active' = active \/ \E x : active' = [active EXCEPT ![x] = FALSE]
      PROVE  Inactive
  BY <1>1, <1>7 DEF TypeInv, TypeOK
<1>8. ASSUME \E how : EndOfProcess(how) PROVE Connection /\ Inactive
  BY <1>1, <1>2, <1>8 DEF EndOfProcess
<1> HIDE DEF Connection, Inactive
<1>9. Connection
  BY <1>3, <1>4, <1>5, <1>8, ZenonT(40)
     DEF Next, Environment, Server, Operator, AcceptorWork, HandlerWork, HandlerReads,
         ConsoleWork, LoopStep, ReadChat, ReadPm, ReadList, Halted, vars,
         PeerLeaves, PeerStalls, PeerResumes, AcceptLoop, AcceptFails, Refuse, Admit,
         NoUsername, ReadUsername, RejectName, Register, AdoptBack, Lock, LoopTest,
         BroadcastSend, BroadcastEnd, LoopCheck, Disconnected, ReadLine, ReadQuit,
         UserList, PmEnd, Depart, Erase, BroadcastCommand, KickCommand, KickEnd,
         StopCommand, ClearRunning, CloseListener, SweepClient, SweepEnd, ConnectCommand,
         RemoteSpeaks, RemoteCloses, JoinLinks, TerminateAtLinks, Exit, Crash
<1>10. Inactive
  BY <1>3, <1>6, <1>7, <1>8
     DEF Next, Environment, Server, Operator, AcceptorWork, HandlerWork, HandlerReads,
         ConsoleWork, LoopStep, ReadChat, ReadPm, ReadList, Halted, vars,
         PeerLeaves, PeerStalls, PeerResumes, AcceptLoop, AcceptFails, Refuse,
         NoUsername, ReadUsername, RejectName, Register, AdoptBack, Lock, LoopTest,
         BroadcastSend, BroadcastEnd, LoopCheck, Disconnected, ReadLine, ReadQuit,
         UserList, PmEnd, Depart, Erase, BroadcastCommand, KickCommand, KickEnd,
         StopCommand, ClearRunning, CloseListener, SweepClient, SweepEnd, ConnectCommand,
         RemoteSpeaks, RemoteCloses, JoinLinks, TerminateAtLinks, Exit, Crash,
         EndOfProcess
<1>11. QED
  BY <1>1, <1>9, <1>10 DEF Connection, Inactive

LEMMA ReachStep ==
  ASSUME "chat" \in Observed, IInv, OwnerInv, SockInv, BroadcastReachesAll, Next
  PROVE  BroadcastReachesAll'
<1>1. TypeInv /\ TypeOK /\ PhaseInv /\ LoopInv
  BY DEF IInv, TypeInv
<1> SUFFICES ASSUME NEW c \in Conns, mutex' = c, pc'[c] = "chat",
                    NEW i \in DOMAIN clients', i < pos', active'[clients'[i]],
                    clients'[i] # ptr'[c], fd'[sock'[clients'[i]]] = clients'[i]
             PROVE  Contains(inbox'[clients'[i]], Text(c)')
  BY DEF BroadcastReachesAll
<1> DEFINE o == clients'[i]
<1>2. c # Console /\ c # Unlocked /\ c \in Threads
  BY ThreadsType DEF Threads
<1>3. CASE mutex # c
  <2>1. PICK t \in Threads : Lock(t)
    BY <1>1, <1>2, <1>3, OwnerComes
  <2>2. pos' = 1 /\ DOMAIN clients' = 1..Len(clients)
    BY <1>1, <2>1, MembersType DEF Lock, LoopInv
  <2>3. QED
    BY <1>1, <2>2, MembersType
<1>4. CASE mutex = c
  <2>1. OwnerStays
    BY <1>1, <1>2, <1>4, OwnerKeeps
  <2>2. clients' = clients /\ pc[c] = "chat" /\ ptr'[c] = ptr[c]
    BY <1>4, <2>1 DEF OwnerStays
  <2>3. Op(c) = "chat" /\ Text(c)' = Text(c) /\ Text(c).kind = "chat"
    BY <1>1, <1>2, <1>4, <2>1, <2>2, TextStays DEF Op, Broadcasts, Text
  <2>4. i \in DOMAIN clients /\ o = clients[i] /\ o \in Members /\ o \in Conns /\ i \in Nat
    BY <1>1, <2>2, MembersType, ElementOfSeq DEF Members, ToSet
  <2>5. /\ active[o] /\ o # ptr[c]
        /\ sock[o] \in Handles /\ fd[sock[o]] = o
    BY <1>1, <2>2, <2>4, MembersKeep
  <2>6. CASE i < pos
    BY <1>1, <1>4, <2>2, <2>3, <2>4, <2>5, <2>6, StillContains DEF BroadcastReachesAll
  <2>7. CASE ~(i < pos)
    <3>1. pos' # pos
      BY <2>7
    <3>2. LoopTest(c) \/ BroadcastSend(c)
      <4>1. mutex' # Unlocked /\ mutex = c /\ mutex' = mutex
        BY <1>2, <1>4
      <4>2. ASSUME NEW t \in Threads, LoopTest(t) \/ BroadcastSend(t) PROVE t = c
        BY <4>1, <4>2 DEF LoopTest, BroadcastSend
      <4>3. QED
        BY <1>2, <3>1, <4>1, <4>2, ZenonT(40)
           DEF Next, Environment, Server, Operator, AcceptorWork, HandlerWork,
               HandlerReads, ConsoleWork, LoopStep, ReadChat, ReadPm, ReadList, Halted,
               vars, Threads, PeerLeaves, PeerStalls, PeerResumes, AcceptLoop, Accept, AcceptFails,
               Refuse, Admit, NoUsername, ReadUsername, RejectName, Register, AdoptBack,
               Lock, BroadcastEnd, LoopCheck, Disconnected, ReadLine,
               ReadQuit, UserList, PmEnd, Depart, Erase, BroadcastCommand, KickCommand,
               KickEnd, StopCommand, ClearRunning, CloseListener, SweepClient, SweepEnd,
               ConnectCommand,
         RemoteSpeaks, RemoteCloses, JoinLinks, TerminateAtLinks, Exit, Crash, EndOfProcess, Unlock
    <3>3. CASE LoopTest(c)
      <4>1. PICK k \in Ahead(c) : (\A j \in Ahead(c) : k <= j) /\ pos' = k
        BY <3>3 DEF LoopTest
      <4>2. i \notin Ahead(c)
        BY <1>1, <2>4, <4>1, MembersType DEF Ahead
      <4>3. ~Selects(c, o)
        BY <1>1, <2>4, <2>7, <4>2 DEF Ahead, TypeOK
      <4>4. Selects(c, o)
        BY <1>2, <2>3, <2>5 DEF Selects, Traceless, Excluded
      <4>5. QED
        BY <4>3, <4>4
    <3>4. CASE BroadcastSend(c)
      <4>1. pos' = pos + 1 /\ i = pos
        BY <1>1, <2>4, <2>7, <3>4 DEF BroadcastSend, NextElement, TypeOK
      <4>2. inbox' = [inbox EXCEPT ![o] = Append(@, Text(c))]
        BY <1>2, <2>3, <2>4, <2>5, <3>4, <4>1, ConnsAssumption
           DEF BroadcastSend, Sent, Connected
      <4>3. inbox'[o] = Append(inbox[o], Text(c)) /\ inbox[o] \in Seq(Messages)
        BY <1>1, <2>4, <4>2 DEF TypeOK
      <4>4. Text(c) \in Messages
        BY <1>1, <1>2, <3>4, BroadcastText
      <4>5. Contains(inbox'[o], Text(c))
        BY <4>3, <4>4, AppendProperties, LenProperties DEF Contains
      <4>6. QED
        BY <2>3, <4>5
    <3>5. QED
      BY <3>2, <3>3, <3>4
  <2>8. QED
    BY <2>6, <2>7
<1>5. QED
  BY <1>3, <1>4
-----------------------------------------------------------------------------
(* Chat and operator messages are numbered, and new when their loop starts.  *)

\* Only the messages the order is about are recorded.
Ordered == Observed \subseteq {"chat", "server"}

Recorded == \A d \in Conns : \A i \in DOMAIN inbox[d] : inbox[d][i].kind \in Observed

\* Each line was numbered when it was read, and no two handlers have the same.
LineNumbers ==
  /\ \A c \in Conns : line[c].n <= said
  /\ \A c, d \in Conns : pc[c] = "chat" /\ pc[d] = "chat" /\ line[c].n = line[d].n => c = d

\* The message is not one that a thread has still to broadcast.
Past(m) ==
  /\ m.kind = "chat" =>
       /\ m.line.n <= said
       /\ \A c \in Conns : pc[c] = "chat" /\ mutex # c => m.line.n # line[c].n
  /\ m.kind = "server" =>
       /\ m.n <= issued
       /\ cpc = "broadcast" /\ mutex # Console => m.n < issued

Heard(m) == \E d \in Conns : \E i \in DOMAIN inbox[d] : inbox[d][i] = m
HeardPast == \A m \in Messages : Heard(m) => Past(m)

\* Once a client got the message that is being broadcast it gets nothing else.
TailInv ==
  \A t \in Threads : mutex = t /\ Op(t) \in Broadcasts =>
    \A d \in Conns : \A i, j \in DOMAIN inbox[d] :
      inbox[d][i] = Text(t) /\ i < j => inbox[d][j] = Text(t)

LEMMA HeardTypes ==
  ASSUME TypeInv
  PROVE  \A d \in Conns : \A i \in DOMAIN inbox[d] :
           inbox[d][i] \in Messages /\ i \in Nat
<1>1. SUFFICES ASSUME NEW d \in Conns, NEW i \in DOMAIN inbox[d]
               PROVE  inbox[d][i] \in Messages /\ i \in Nat
  OBVIOUS
<1>2. inbox[d] \in Seq(Messages)
  BY DEF TypeInv, TypeOK
<1>3. i \in 1..Len(inbox[d]) /\ Len(inbox[d]) \in Nat
  BY <1>2, LenProperties
<1>4. QED
  BY <1>2, <1>3, ElementOfSeq

\* With nothing else recorded, only broadcastMessage fills the inboxes.
LEMMA OnlyBroadcasts ==
  ASSUME TypeInv, Ordered, Next
  PROVE  inbox' = inbox \/ \E t \in Threads : BroadcastSend(t)
BY InboxMoves DEF Sent, Ordered, Replies

LEMMA RecordedStep ==
  ASSUME TypeInv, Ordered, Recorded, Next
  PROVE  Recorded'
<1>1. CASE inbox' = inbox
  BY <1>1 DEF Recorded
<1>2. ASSUME NEW t \in Threads, BroadcastSend(t) PROVE Recorded'
  <2>1. ASSUME NEW d \in Conns, NEW i \in DOMAIN inbox'[d]
        PROVE  inbox'[d][i].kind \in Observed
    BY <1>2, <2>1, BroadcastText, SentElements DEF TypeInv, Recorded
  <2>2. QED
    BY <2>1 DEF Recorded
<1>3. QED
  BY <1>1, <1>2, OnlyBroadcasts

\* How a handler comes to have a line to broadcast.
LEMMA ChatMoves ==
  ASSUME TypeInv, PhaseInv, LoopInv, OwnerInv, Next
  PROVE  /\ said' \in {said, said + 1}
         /\ \/ /\ said' = said
               /\ \A c \in Conns : pc'[c] = "chat" =>
                    pc[c] = "chat" /\ line'[c] = line[c] /\ (mutex' # c => mutex # c)
               /\ \A c \in Conns : line'[c] \in {line[c], NoLine}
            \/ \E c \in Conns :
                 /\ said' = said + 1 /\ line'[c].n = said' /\ mutex' = mutex
                 /\ \A d \in Conns \ {c} : pc'[d] = pc[d] /\ line'[d] = line[d]
<1> DEFINE Keeps ==
             /\ said' = said
             /\ \A c \in Conns : pc'[c] = "chat" =>
                  pc[c] = "chat" /\ line'[c] = line[c] /\ (mutex' # c => mutex # c)
             /\ \A c \in Conns : line'[c] \in {line[c], NoLine}
           Reads == \E c \in Conns :
                      /\ said' = said + 1 /\ line'[c].n = said' /\ mutex' = mutex
                      /\ \A d \in Conns \ {c} : pc'[d] = pc[d] /\ line'[d] = line[d]
<1>1. ASSUME NEW c \in Conns, NEW l, l # "chat", pc' = [pc EXCEPT ![c] = l],
             line' = line \/ line' = [line EXCEPT ![c] = NoLine],
             mutex' = mutex \/ mutex = c, said' = said
      PROVE  Keeps
  BY <1>1 DEF TypeInv, TypeOK
<1>2. ASSUME UNCHANGED <<pc, line, said>>,
             mutex' = mutex \/ mutex = Unlocked \/ mutex = Console
      PROVE  Keeps
  BY <1>2, ThreadsType DEF Threads
<1>3. ASSUME NEW c \in Conns, NEW kind, NEW to, ReadLine(c, kind, to) PROVE Reads
  <2>1. /\ said' = said + 1 /\ mutex' = mutex /\ pc' = [pc EXCEPT ![c] = kind]
        /\ \E x : line' = [line EXCEPT ![c] = [to |-> to, src |-> x, n |-> said']]
    BY <1>3 DEF ReadLine
  <2>2. QED
    BY <2>1 DEF TypeInv, TypeOK
<1>4. ASSUME NEW t \in Threads, BroadcastEnd(t) PROVE Keeps
  <2>1. CASE t = Console
    BY <1>2, <1>4, <2>1 DEF BroadcastEnd, AtLoopEnd
  <2>2. CASE t \in Conns
    <3> DEFINE l == IF pc[t] = "leave" THEN "depart" ELSE "loop"
    <3>1. /\ pc' = [pc EXCEPT ![t] = l] /\ line' = [line EXCEPT ![t] = NoLine]
          /\ mutex = t /\ said' = said
      BY <1>4, <2>2, ThreadsType DEF BroadcastEnd, AtLoopEnd
    <3>2. l # "chat"
      OBVIOUS
    <3> HIDE DEF l
    <3>3. QED
      BY <1>1, <2>2, <3>1, <3>2
  <2>3. QED
    BY <2>1, <2>2 DEF Threads
<1>5. ASSUME Admit PROVE Keeps
  BY <1>1, <1>5 DEF Admit, TypeInv
<1>6. ASSUME NEW c \in Conns,
             \/ NoUsername(c) \/ RejectName(c) \/ Register(c) \/ AdoptBack(c)
             \/ \E t \in Typed : ReadUsername(c, t)
      PROVE  Keeps
  BY <1>1, <1>6 DEF NoUsername, RejectName, Register, AdoptBack, ReadUsername
<1>7. ASSUME NEW c \in Conns,
             LoopCheck(c) \/ Disconnected(c) \/ ReadQuit(c) \/ Depart(c) \/ Erase(c)
      PROVE  Keeps
  BY <1>1, <1>7 DEF LoopCheck, Disconnected, ReadQuit, Depart, Erase
<1>8. ASSUME NEW c \in Conns, UserList(c) \/ PmEnd(c) PROVE Keeps
  BY <1>1, <1>8 DEF UserList, PmEnd, AtLoopEnd
<1>9. ASSUME NEW how, EndOfProcess(how) PROVE Keeps
  BY <1>9 DEF EndOfProcess
<1>10. ASSUME NEW t, Lock(t) \/ LoopTest(t) \/ BroadcastSend(t) PROVE Keeps
  BY <1>2, <1>10 DEF Lock, LoopTest, BroadcastSend, NextElement
<1>11. ASSUME KickEnd \/ SweepEnd \/ SweepClient PROVE Keeps
  BY <1>2, <1>11 DEF KickEnd, SweepEnd, SweepClient, AtLoopEnd, NextElement
<1>12. ASSUME LinkWork PROVE Keeps
  BY <1>2, <1>12, LinkFrame
<1> HIDE DEF Keeps, Reads
<1>13. Keeps \/ Reads
  BY <1>2, <1>3, <1>4, <1>5, <1>6, <1>7, <1>8, <1>9, <1>10, <1>11, <1>12
     DEF Next, Environment, Server, Operator, AcceptorWork, HandlerWork, HandlerReads,
         ConsoleWork, LoopStep, ReadChat, ReadPm, ReadList, Halted, vars, Threads,
         PeerLeaves, PeerStalls, PeerResumes, AcceptLoop, Accept, AcceptFails, Refuse,
         BroadcastCommand, KickCommand, StopCommand, ClearRunning, CloseListener,
         LinkWork, TerminateAtLinks, Exit, Crash
<1>14. QED
  BY <1>13 DEF Keeps, Reads

\* How the console comes to have a message to broadcast.
LEMMA ServerMoves ==
  ASSUME TypeInv, LoopInv, Next
  PROVE  \/ issued' = issued + 1
         \/ /\ issued' = issued
            /\ cpc' = "broadcast" /\ mutex' # Console =>
                 cpc = "broadcast" /\ mutex # Console
<1> DEFINE Goal == \/ issued' = issued + 1
                   \/ /\ issued' = issued
                      /\ cpc' = "broadcast" /\ mutex' # Console =>
                           cpc = "broadcast" /\ mutex # Console
<1>1. ASSUME issued' = issued, cpc' = cpc, mutex' = mutex \/ mutex # Console PROVE Goal
  BY <1>1
<1>2. ASSUME issued' = issued, cpc' # "broadcast" PROVE Goal
  BY <1>2
<1>3. ASSUME NEW t \in Threads, BroadcastEnd(t) PROVE Goal
  BY <1>1, <1>2, <1>3 DEF BroadcastEnd, AtLoopEnd
<1>4. ASSUME NEW c \in Conns, PmEnd(c) PROVE Goal
  BY <1>1, <1>4, ThreadsType DEF PmEnd
<1>5. ASSUME NEW how, EndOfProcess(how) PROVE Goal
  BY <1>2, <1>5 DEF EndOfProcess
<1>6. ASSUME KickEnd \/ SweepClient \/ ClearRunning \/ CloseListener PROVE Goal
  BY <1>1, <1>2, <1>6 DEF KickEnd, SweepClient, ClearRunning, CloseListener, NextElement
<1>7. ASSUME SweepEnd PROVE Goal
  <2>1. cpc' \in {"flag", "links"} /\ issued' = issued
    BY <1>7 DEF SweepEnd
  <2>2. QED
    BY <1>2, <2>1
<1>8. ASSUME NEW t, Lock(t) \/ LoopTest(t) \/ BroadcastSend(t) PROVE Goal
  BY <1>1, <1>8, ThreadsType DEF Lock, LoopTest, BroadcastSend, NextElement
<1>9. ASSUME NEW k, StopCommand(k) PROVE Goal
  BY <1>2, <1>9 DEF StopCommand
<1>10. ASSUME BroadcastCommand \/ \E n : KickCommand(n) PROVE Goal
  BY <1>10 DEF BroadcastCommand, KickCommand
<1>11. ASSUME LinkWork PROVE Goal
  BY <1>1, <1>2, <1>11, LinkFrame
<1>12. ASSUME NEW c \in Conns, UserList(c) PROVE Goal
  BY <1>1, <1>12, ThreadsType DEF UserList, AtLoopEnd
<1> HIDE DEF Goal
<1>13. Goal
  <2>1. ASSUME UNCHANGED <<issued, cpc, mutex>> PROVE Goal
    BY <1>1, <2>1
  <2>2. QED
    BY <1>3, <1>4, <1>5, <1>6, <1>7, <1>8, <1>9, <1>10, <1>11, <1>12, <2>1
       DEF Next, Environment, Server, Operator, AcceptorWork, HandlerWork, HandlerReads,
           ConsoleWork, LoopStep, ReadChat, ReadPm, ReadList, Halted, vars, Threads,
           PeerLeaves, PeerStalls, PeerResumes, AcceptLoop, Accept, AcceptFails, Refuse, Admit,
           NoUsername, ReadUsername, RejectName, Register, AdoptBack, LoopCheck,
           Disconnected, ReadLine, ReadQuit, Depart, Erase, LinkWork,
           TerminateAtLinks, Exit, Crash
<1>14. QED
  BY <1>13 DEF Goal

LEMMA NumberTypes ==
  ASSUME TypeInv
  PROVE  /\ said \in Nat /\ issued \in Nat
         /\ \A c \in Conns : line[c] \in Lines /\ line[c].n \in Nat
BY BoundsAssumption DEF TypeInv, TypeOK, Lines

LEMMA LineNumbersStep ==
  ASSUME TypeInv, PhaseInv, LoopInv, OwnerInv, LineNumbers, Next
  PROVE  LineNumbers'
<1>1. CASE /\ said' = said
           /\ \A c \in Conns : pc'[c] = "chat" => pc[c] = "chat" /\ line'[c] = line[c]
           /\ \A c \in Conns : line'[c] \in {line[c], NoLine}
  BY <1>1, NumberTypes DEF LineNumbers, NoLine
<1>2. CASE \E c \in Conns :
             /\ said' = said + 1 /\ line'[c].n = said'
             /\ \A d \in Conns \ {c} : pc'[d] = pc[d] /\ line'[d] = line[d]
  <2>1. PICK c \in Conns :
             /\ said' = said + 1 /\ line'[c].n = said'
             /\ \A d \in Conns \ {c} : pc'[d] = pc[d] /\ line'[d] = line[d]
    BY <1>2
  <2>2. \A d \in Conns \ {c} : line'[d].n < said' /\ line[d].n <= said
    BY <2>1, NumberTypes DEF LineNumbers
  <2>3. QED
    BY <2>1, <2>2, NumberTypes DEF LineNumbers
<1>3. QED
  BY <1>1, <1>2, ChatMoves

\* What is past stays past: new numbers are larger.
LEMMA PastStays ==
  ASSUME TypeInv, PhaseInv, LoopInv, OwnerInv, Next, NEW m \in Messages, Past(m)
  PROVE  Past(m)'
<1>1. CASE m.kind = "chat"
  <2>1. m.line.n \in Nat /\ said \in Nat
    BY <1>1, NumberTypes, BoundsAssumption DEF Messages, Lines
  <2>2. m.line.n <= said
    BY <1>1 DEF Past
  <2>3. m.line.n <= said' /\ \A c \in Conns : pc'[c] = "chat" /\ mutex' # c => m.line.n # line'[c].n
    <3>1. CASE /\ said' = said
               /\ \A c \in Conns : pc'[c] = "chat" =>
                    pc[c] = "chat" /\ line'[c] = line[c] /\ (mutex' # c => mutex # c)
      BY <1>1, <2>1, <3>1 DEF Past
    <3>2. CASE \E c \in Conns :
                 /\ said' = said + 1 /\ line'[c].n = said' /\ mutex' = mutex
                 /\ \A d \in Conns \ {c} : pc'[d] = pc[d] /\ line'[d] = line[d]
      BY <1>1, <2>1, <3>2 DEF Past
    <3>3. QED
      BY <3>1, <3>2, ChatMoves
  <2>4. QED
    BY <1>1, <2>3 DEF Past
<1>2. CASE m.kind = "server"
  <2>1. m.n \in Nat /\ issued \in Nat
    BY <1>2, NumberTypes, BoundsAssumption DEF Messages
  <2>2. m.n <= issued' /\ (cpc' = "broadcast" /\ mutex' # Console => m.n < issued')
    BY <1>2, <2>1, ServerMoves DEF Past
  <2>3. QED
    BY <1>2, <2>2 DEF Past
<1>3. CASE m.kind \notin {"chat", "server"}
  BY <1>3 DEF Past
<1>4. QED
  BY <1>1, <1>2, <1>3

\* A message is past as soon as its broadcast has begun.
LEMMA BroadcastPast ==
  ASSUME TypeInv, LineNumbers, NEW t \in Threads, mutex = t, Op(t) \in Broadcasts
  PROVE  Past(Text(t))
<1>1. CASE t \in Conns
  <2>1. Op(t) = pc[t] /\ pc[t] \in {"join", "chat", "leave"} /\ mutex # Console
    BY <1>1, ThreadsType DEF Op, Broadcasts, TypeInv, TypeOK, HandlerPcs
  <2>2. CASE pc[t] = "chat"
    <3>1. Text(t) = [kind |-> "chat", from |-> ptr[t], line |-> line[t]]
      BY <2>1, <2>2 DEF Text
    <3>2. QED
      BY <1>1, <2>2, <3>1 DEF Past, LineNumbers
  <2>3. CASE pc[t] # "chat"
    BY <2>1, <2>3 DEF Past, Text
  <2>4. QED
    BY <2>2, <2>3
<1>2. CASE t = Console
  <2>1. Text(t) = [kind |-> "server", n |-> issued]
    BY <1>2 DEF Text, Op, TypeInv, TypeOK
  <2>2. QED
    BY <1>2, <2>1, NumberTypes DEF Past
<1>3. QED
  BY <1>1, <1>2 DEF Threads

\* What the clients have afterwards is what they had, or what was sent.
LEMMA HeardMoves ==
  ASSUME TypeInv, NEW t \in Threads, BroadcastSend(t), NEW m
  PROVE  Heard(m)' => Heard(m) \/ m = Text(t)
<1>1. TypeOK /\ Text(t) \in Messages /\ inbox' = Sent(sock[clients[pos]], Text(t))
  BY BroadcastText DEF TypeInv
<1>2. ASSUME NEW d \in Conns, NEW i \in DOMAIN inbox'[d], inbox'[d][i] = m
      PROVE  Heard(m) \/ m = Text(t)
  BY <1>1, <1>2, SentElements DEF Heard
<1>3. QED
  BY <1>2 DEF Heard

LEMMA HeardPastStep ==
  ASSUME TypeInv, PhaseInv, LoopInv, OwnerInv, Ordered, LineNumbers, HeardPast, Next
  PROVE  HeardPast'
<1>1. SUFFICES ASSUME NEW m \in Messages, Heard(m)' PROVE Past(m)'
  BY DEF HeardPast
<1>2. CASE Heard(m)
  BY <1>2, PastStays DEF HeardPast
<1>3. CASE ~Heard(m)
  <2>1. PICK t \in Threads : BroadcastSend(t)
    BY <1>1, <1>3, OnlyBroadcasts DEF Heard
  <2>2. m = Text(t)
    BY <1>1, <1>3, <2>1, HeardMoves
  <2>3. Past(m)
    BY <2>1, <2>2, BroadcastPast DEF BroadcastSend
  <2>4. QED
    BY <2>3, PastStays
<1>4. QED
  BY <1>2, <1>3
-----------------------------------------------------------------------------
(* The order of the messages.                                               *)

\* What a thread is about to broadcast has not been sent to anybody.
LEMMA NewText ==
  ASSUME TypeInv, Ordered, Recorded, HeardPast, NEW t \in Threads, mutex = Unlocked,
         Op(t) \in Broadcasts
  PROVE  ~Heard(Text(t))
<1>1. SUFFICES ASSUME Heard(Text(t)) PROVE FALSE
  OBVIOUS
<1>2. Text(t) \in Messages
  BY TextType DEF Threads
<1>3. Past(Text(t)) /\ Text(t).kind \in {"chat", "server"}
  BY <1>1, <1>2 DEF HeardPast, Recorded, Ordered, Heard
<1>4. CASE t \in Conns
  <2>1. Op(t) = pc[t] /\ pc[t] \in {"join", "chat", "leave"} /\ mutex # t
    BY <1>4, ThreadsType DEF Op, Broadcasts, TypeInv, TypeOK, HandlerPcs
  <2>2. pc[t] = "chat" /\ Text(t) = [kind |-> "chat", from |-> ptr[t], line |-> line[t]]
    BY <1>3, <2>1 DEF Text
  <2>3. QED
    BY <1>3, <1>4, <2>1, <2>2 DEF Past
<1>5. CASE t = Console
  <2>1. cpc = "broadcast" /\ mutex # Console /\ Text(t) = [kind |-> "server", n |-> issued]
    BY <1>5, ThreadsType DEF Op, Broadcasts, Text, TypeInv, TypeOK
  <2>2. QED
    BY <1>3, <2>1, NumberTypes DEF Past
<1>6. QED
  BY <1>4, <1>5 DEF Threads

\* A send puts the message last, where it comes after nothing but itself.
LEMMA TailGrows ==
  ASSUME TypeInv, TailInv, NEW t \in Threads, BroadcastSend(t),
         NEW d \in Conns, NEW i \in DOMAIN inbox'[d], NEW j \in DOMAIN inbox'[d],
         inbox'[d][i] = Text(t), i < j
  PROVE  inbox'[d][j] = Text(t)
<1>1. TypeOK /\ Text(t) \in Messages /\ inbox' = Sent(sock[clients[pos]], Text(t))
  BY BroadcastText DEF TypeInv
<1>2. mutex = t /\ Op(t) \in Broadcasts
  BY DEF BroadcastSend
<1>3. inbox'[d] \in Seq(Messages)
  BY <1>1, SentType DEF TypeOK
<1>4. i \in Nat /\ j \in Nat
  BY <1>3, LenProperties
<1>5. CASE j \in DOMAIN inbox[d]
  <2>1. i \in DOMAIN inbox[d]
    BY <1>1, <1>4, SentElements
  <2>2. inbox'[d][i] = inbox[d][i] /\ inbox'[d][j] = inbox[d][j]
    BY <1>1, <1>5, <2>1, SentElements
  <2>3. QED
    BY <1>2, <1>5, <2>1, <2>2 DEF TailInv
<1>6. CASE j \notin DOMAIN inbox[d]
  BY <1>1, <1>6, SentElements
<1>7. QED
  BY <1>5, <1>6

LEMMA TailStep ==
  ASSUME TypeInv, PhaseInv, LoopInv, OwnerInv, Ordered, Recorded, HeardPast, TailInv,
         Next
  PROVE  TailInv'
<1>1. SUFFICES ASSUME NEW t \in Threads, mutex' = t, Op(t)' \in Broadcasts,
                      NEW d \in Conns, NEW i \in DOMAIN inbox'[d],
                      NEW j \in DOMAIN inbox'[d], inbox'[d][i] = Text(t)', i < j
               PROVE  inbox'[d][j] = Text(t)'
  BY DEF TailInv, Broadcasts
<1>2. t # Unlocked
  BY ThreadsType
<1>3. CASE mutex = t
  <2>1. Op(t) \in Broadcasts /\ Text(t)' = Text(t)
    BY <1>1, <1>2, <1>3, OwnerKeeps, TextStays
  <2>2. CASE inbox' = inbox
    BY <1>1, <1>3, <2>1, <2>2 DEF TailInv
  <2>3. ASSUME NEW u \in Threads, BroadcastSend(u) PROVE inbox'[d][j] = Text(t)'
    <3>1. u = t
      BY <1>3, <2>3 DEF BroadcastSend
    <3>2. QED
      BY <1>1, <2>1, <2>3, <3>1, TailGrows
  <2>4. QED
    BY <2>2, <2>3, OnlyBroadcasts
<1>4. CASE mutex # t
  <2>1. Lock(t)
    <3>1. PICK u \in Threads : Lock(u) /\ mutex' = u
      BY <1>1, <1>2, <1>4, OwnerComes
    <3>2. QED
      BY <1>1, <3>1
  <2>2. mutex = Unlocked /\ inbox' = inbox /\ UNCHANGED <<pc, cpc, ptr, line, issued>>
    BY <2>1 DEF Lock
  <2>3. Op(t)' = Op(t) /\ Text(t)' = Text(t)
    BY <2>2 DEF Op, Text
  <2>4. ~Heard(Text(t))
    BY <1>1, <2>2, <2>3, NewText
  <2>5. QED
    BY <1>1, <2>2, <2>3, <2>4 DEF Heard
<1>5. QED
  BY <1>3, <1>4

LEMMA ConsistentStep ==
  ASSUME TypeInv, TailInv, Ordered, ConsistentOrder, Next
  PROVE  ConsistentOrder'
<1>1. CASE inbox' = inbox
  BY <1>1 DEF ConsistentOrder
<1>2. ASSUME NEW t \in Threads, BroadcastSend(t) PROVE ConsistentOrder'
  <2>1. SUFFICES ASSUME NEW d \in Conns, NEW e \in Conns,
                        NEW i \in DOMAIN inbox'[d], NEW j \in DOMAIN inbox'[d],
                        NEW k \in DOMAIN inbox'[e], NEW l \in DOMAIN inbox'[e],
                        i < j, l < k,
                        inbox'[d][i] = inbox'[e][k], inbox'[d][j] = inbox'[e][l]
                 PROVE  inbox'[d][i] = inbox'[d][j]
    BY DEF ConsistentOrder
  <2>2. TypeOK /\ Text(t) \in Messages /\ inbox' = Sent(sock[clients[pos]], Text(t))
    BY <1>2, BroadcastText DEF TypeInv
  <2>3. CASE inbox'[d][j] = Text(t)
    BY <1>2, <2>1, <2>3, TailGrows
  <2>4. CASE inbox'[e][k] = Text(t)
    BY <1>2, <2>1, <2>4, TailGrows
  <2>5. CASE inbox'[d][j] # Text(t) /\ inbox'[e][k] # Text(t)
    <3>1. inbox'[d][i] # Text(t) /\ inbox'[e][l] # Text(t)
      BY <2>1, <2>5
    <3>2. /\ i \in DOMAIN inbox[d] /\ j \in DOMAIN inbox[d]
          /\ k \in DOMAIN inbox[e] /\ l \in DOMAIN inbox[e]
      BY <2>2, <2>5, <3>1, SentElements
    <3>3. /\ inbox'[d][i] = inbox[d][i] /\ inbox'[d][j] = inbox[d][j]
          /\ inbox'[e][k] = inbox[e][k] /\ inbox'[e][l] = inbox[e][l]
      BY <2>2, <3>2, SentElements
    <3>4. inbox[d][i] = inbox[e][k] /\ inbox[d][j] = inbox[e][l]
      BY <2>1, <3>3
    <3>5. inbox[d][i] = inbox[d][j]
      BY <2>1, <3>2, <3>4 DEF ConsistentOrder
    <3>6. QED
      BY <3>3, <3>5
  <2>6. QED
    BY <2>3, <2>4, <2>5
<1>3. QED
  BY <1>1, <1>2, OnlyBroadcasts
-----------------------------------------------------------------------------
(* The properties.                                                          *)

ReachInv == IInv /\ OwnerInv /\ SockInv /\ BroadcastReachesAll

OrderInv ==
  /\ IInv /\ OwnerInv
  /\ Recorded /\ LineNumbers /\ HeardPast /\ TailInv
  /\ ConsistentOrder

LEMMA OwnerInit == Init => OwnerInv /\ SockInv
BY ThreadsType DEF Init, OwnerInv, SockInv, Threads

\* For any connections and handles: once the loop of broadcastMessage has passed a
\* client that is still active and still has its own connection, that client was
\* sent the message, although others leave, are kicked or are accepted on freed
\* handles while the loop runs.  The hypothesis says that chat is recorded.
THEOREM ReachesAll ==
  ASSUME "chat" \in Observed
  PROVE  Spec => []BroadcastReachesAll
<1>1. Init => ReachInv
  <2>1. Init => BroadcastReachesAll
    BY ThreadsType DEF Init, BroadcastReachesAll, Threads
  <2>2. QED
    BY <2>1, OwnerInit, IInvInit DEF ReachInv
<1>2. ReachInv /\ [Next]_vars => ReachInv'
  <2>1. SUFFICES ASSUME ReachInv, [Next]_vars PROVE ReachInv'
    OBVIOUS
  <2>2. IInv'
    BY <2>1, IInvStep DEF ReachInv
  <2>3. CASE Next
    BY <2>1, <2>2, <2>3, OwnerStep, SockStep, ReachStep DEF ReachInv, IInv
  <2>4. CASE UNCHANGED vars
    BY <2>1, <2>2, <2>4 DEF vars, ReachInv, OwnerInv, SockInv, BroadcastReachesAll,
                            Text, Op
  <2>5. QED
    BY <2>1, <2>3, <2>4
<1>3. ReachInv => BroadcastReachesAll
  BY DEF ReachInv
<1>4. QED
  BY <1>1, <1>2, <1>3, PTL DEF Spec

\* For any connections, handles and bounds: no two clients get two chat or operator
\* messages in different orders, even when handles are reused in the middle of a
\* broadcast, because a message is new when its loop starts and the loop keeps the
\* mutex.  The hypothesis says that these are the messages recorded.
THEOREM OrderIsConsistent ==
  ASSUME Observed \subseteq {"chat", "server"}
  PROVE  Spec => []ConsistentOrder
<1>1. Ordered
  BY DEF Ordered
<1>2. Init => OrderInv
  <2>1. SUFFICES ASSUME Init PROVE OrderInv
    OBVIOUS
  <2>2. \A d \in Conns : DOMAIN inbox[d] = {}
    BY <2>1, EmptySeq DEF Init
  <2>3. Recorded /\ ConsistentOrder /\ HeardPast
    BY <2>2 DEF Recorded, ConsistentOrder, HeardPast, Heard
  <2>4. TailInv
    BY <2>1, ThreadsType DEF Init, TailInv
  <2>5. LineNumbers
    BY <2>1 DEF Init, LineNumbers, NoLine
  <2>6. QED
    BY <2>1, <2>3, <2>4, <2>5, OwnerInit, IInvInit DEF OrderInv
<1>3. OrderInv /\ [Next]_vars => OrderInv'
  <2>1. SUFFICES ASSUME OrderInv, [Next]_vars PROVE OrderInv'
    OBVIOUS
  <2>2. IInv'
    BY <2>1, IInvStep DEF OrderInv
  <2>3. CASE Next
    BY <1>1, <2>1, <2>2, <2>3, OwnerStep, RecordedStep, LineNumbersStep, HeardPastStep,
       TailStep, ConsistentStep DEF OrderInv, IInv
  <2>4. CASE UNCHANGED vars
    <3>1. OwnerInv' /\ Recorded' /\ LineNumbers' /\ HeardPast' /\ ConsistentOrder'
      BY <2>1, <2>4 DEF vars, OrderInv, OwnerInv, Recorded, LineNumbers, HeardPast, Heard,
                        Past, ConsistentOrder
    <3>2. TailInv'
      BY <2>1, <2>4 DEF vars, OrderInv, TailInv, Text, Op
    <3>3. QED
      BY <2>2, <3>1, <3>2 DEF OrderInv
  <2>5. QED
    BY <2>1, <2>3, <2>4
<1>4. OrderInv => ConsistentOrder
  BY DEF OrderInv
<1>5. QED
  BY <1>2, <1>3, <1>4, PTL DEF Spec
=============================================================================
