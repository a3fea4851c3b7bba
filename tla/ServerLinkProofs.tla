-------------------------- MODULE ServerLinkProofs --------------------------
(***************************************************************************)
(* Proofs about ServerLink for any set of servers, any of the public        *)
(* methods and any number of messages.  The inductive invariant IInv says   *)
(* who holds connections_mutex (LockInv), so that no two threads close      *)
(* connections at once, and what a connection whose thread nobody joins     *)
(* looks like (ThreadInv).                                                  *)
(***************************************************************************)
EXTENDS ServerLink, TLAPS

USE DEF mapVars, linkVars, remoteVars, threadVars, sendVars, Owner, Network, Unlocked,
        Threads

\* A thread that closes a connection holds the mutex, or is the destructor after
\* the network thread ended; and what a method found when it began still holds.
LockInv ==
  /\ op[Network] = "cleaning" => mutex = Network
  /\ op[Owner] \in {"connect", "send", "disconnect", "clear"} => mutex = Owner
  /\ op[Owner] \in {"stop", "clear", "destroy"} => ~running
  /\ \A t \in Threads : at[t] # "none" => op[t] \in Closing /\ cur[t] \in Servers
  /\ op[Owner] = "connect" => cur[Owner] \in Servers \ connections
  /\ op[Owner] = "send" => total_messages_sent < MaxSends

\* An open socket belongs to a thread that is still to be joined.  Unless a thread
\* is waiting for it, its connection is connected, or the other server has closed.
ThreadInv ==
  \A s \in Servers :
    /\ socket[s] = "open" => joinable[s]
    /\ joinable[s] /\ ~(\E t \in Threads : at[t] = "join" /\ cur[t] = s)
         => /\ connected[s] \/ remote[s] = "closed"
            /\ rpc[s] = "leave" => remote[s] = "closed"
            /\ \A t \in Threads :
                 at[t] = "delete" /\ cur[t] = s => remote[s] = "closed"

\* The loop of sendMessage has sent to what it left behind.
SendInv ==
  op[Owner] = "send" =>
    \A s \in connections \ todo[Owner] :
      connected[s] /\ remote[s] = "linked" => s \in took

\* No thread outlives the process.
EndInv == proc # "up" => \A t \in Threads : op[t] = "over"

IInv ==
  /\ TypeOK /\ LinkSound /\ OneNetworkThread /\ LockInv /\ ThreadInv /\ EndInv
  /\ TerminatedByRemote /\ SendInv

\* Unfolded once, for the leaves below.
LEMMA Actions ==
  ASSUME Next
  PROVE  \/ \E s \in Servers : RemoteSends(s) \/ RemoteCloses(s) \/ FiveMinutes(s)
         \/ \E s \in Servers :
              \/ ReceiveTest(s) \/ ReceiveFails(s) \/ ReceiveEnds(s)
              \/ \E ok \in BOOLEAN : Receive(s, ok)
         \/ \E s \in Servers : CallConnect(s) \/ CallDisconnect(s) \/ PassOver(s)
         \/ \E s \in Servers, ok \in BOOLEAN : Send(s, ok)
         \/ ConnectFails \/ Connect \/ CallSend \/ SendEnd \/ DisconnectEnd
         \/ CallStart \/ CallStop \/ JoinNetwork \/ ClearEnd
         \/ CallDestructor \/ DestructorEnd
         \/ NetworkTest \/ Clean \/ CleanEnd
         \/ \E t \in Threads :
              \/ Disconnect(t) \/ Join(t) \/ Delete(t) \/ Terminate(t)
              \/ \E s \in Servers : Close(t, s)
         \/ UNCHANGED vars
BY DEF Next, CallStep, OwnerStep, NetworkStep, RemoteStep, ReceiveStep, CloseStep, Halted

LEMMA TypeStep ==
  ASSUME IInv, Next
  PROVE  TypeOK'
<1> USE DEF IInv, TypeOK, OwnerOps, NetworkOps, Goes, Unlock
<1>1. ASSUME NEW s \in Servers, RemoteSends(s) \/ RemoteCloses(s) \/ FiveMinutes(s)
      PROVE  TypeOK'
  <2>1. unread' \in [Servers -> BOOLEAN] /\ recent' \in [Servers -> BOOLEAN]
    <3>1. CASE RemoteSends(s)
      BY <3>1 DEF RemoteSends
    <3>2. CASE RemoteCloses(s) \/ FiveMinutes(s)
      BY <3>2 DEF RemoteCloses, FiveMinutes
    <3>3. QED
      BY <1>1, <3>1, <3>2
  <2>2. QED
    BY <1>1, <2>1 DEF RemoteSends, RemoteCloses, FiveMinutes
<1>2. ASSUME NEW s \in Servers, ReceiveTest(s) \/ ReceiveFails(s) \/ ReceiveEnds(s)
      PROVE  TypeOK'
  <2>1. connected' \in [Servers -> BOOLEAN]
    BY <1>2 DEF ReceiveTest, ReceiveFails, ReceiveEnds
  <2>2. QED
    BY <1>2, <2>1 DEF ReceiveTest, ReceiveFails, ReceiveEnds
<1>3. ASSUME NEW s \in Servers, NEW ok \in BOOLEAN, Receive(s, ok) PROVE TypeOK'
  BY <1>3 DEF Receive
<1>4. ASSUME NEW s \in Servers, CallConnect(s) \/ CallDisconnect(s) \/ PassOver(s)
      PROVE  TypeOK'
  BY <1>4 DEF CallConnect, CallDisconnect, PassOver
<1>5. ASSUME NEW s \in Servers, NEW ok \in BOOLEAN, Send(s, ok) PROVE TypeOK'
  BY <1>5 DEF Send
<1>6. CASE ConnectFails \/ CallSend \/ DisconnectEnd
  BY <1>6 DEF ConnectFails, CallSend, DisconnectEnd
<1>7. CASE Connect
  BY <1>7 DEF Connect, LockInv
<1>8. CASE SendEnd
  BY <1>8, CallsAssumption DEF SendEnd, LockInv
<1>9. CASE CallStart \/ CallStop
  <2>1. running' \in BOOLEAN
    BY <1>9, Zenon DEF CallStart, CallStop
  <2>2. QED
    BY <1>9, <2>1 DEF CallStart, CallStop
<1>10. CASE JoinNetwork \/ ClearEnd
  BY <1>10 DEF JoinNetwork, ClearEnd
<1>11. CASE CallDestructor
  <2>1. running' \in BOOLEAN /\ ending' \in BOOLEAN
    BY <1>11, Zenon DEF CallDestructor
  <2>2. QED
    BY <1>11, <2>1 DEF CallDestructor
<1>12. CASE DestructorEnd \/ \E t \in Threads : Terminate(t)
  BY <1>12 DEF DestructorEnd, Terminate, EndOfProcess
<1>13. CASE NetworkTest \/ Clean \/ CleanEnd
  BY <1>13 DEF NetworkTest, Clean, CleanEnd
<1>14. ASSUME NEW t \in Threads, Disconnect(t) \/ Join(t) \/ Delete(t) PROVE TypeOK'
  <2>1. CASE Disconnect(t)
    <3>1. connected' \in [Servers -> BOOLEAN]
      BY <2>1 DEF Disconnect
    <3>2. QED
      BY <2>1, <3>1 DEF Disconnect
  <2>2. CASE Join(t)
    <3>1. joinable' \in [Servers -> BOOLEAN]
      BY <2>2 DEF Join
    <3>2. QED
      BY <2>2, <3>1 DEF Join
  <2>3. CASE Delete(t)
    <3>1. recent' \in [Servers -> BOOLEAN] /\ unread' \in [Servers -> BOOLEAN]
      BY <2>3 DEF Delete
    <3>2. QED
      BY <2>3, <3>1 DEF Delete
  <2>4. QED
    BY <1>14, <2>1, <2>2, <2>3
<1>15. ASSUME NEW t \in Threads, NEW s \in Servers, Close(t, s) PROVE TypeOK'
  BY <1>15 DEF Close
<1>16. CASE UNCHANGED vars
  BY <1>16 DEF vars
<1>17. QED
  BY Actions, <1>1, <1>2, <1>3, <1>4, <1>5, <1>6, <1>7, <1>8, <1>9, <1>10, <1>11, <1>12,
     <1>13, <1>14, <1>15, <1>16

LEMMA LinkStep ==
  ASSUME IInv, Next
  PROVE  LinkSound'
<1> USE DEF IInv, TypeOK, LinkSound
<1>1. CASE UNCHANGED <<rpc, socket, connections>>
  BY <1>1
<1>2. ASSUME NEW s \in Servers,
             \/ ReceiveTest(s) \/ ReceiveFails(s) \/ ReceiveEnds(s)
             \/ \E ok \in BOOLEAN : Receive(s, ok)
      PROVE  LinkSound'
  BY <1>2 DEF ReceiveTest, ReceiveFails, ReceiveEnds, Receive
<1>3. CASE Connect
  BY <1>3 DEF Connect, LockInv
<1>4. ASSUME NEW t \in Threads, Join(t) PROVE LinkSound'
  BY <1>4 DEF Join
<1>5. ASSUME NEW t \in Threads, Delete(t) PROVE LinkSound'
  <2>1. cur[t] \in Servers /\ socket[cur[t]] # "open"
    BY <1>5 DEF Delete, LockInv, ThreadInv
  <2>2. QED
    BY <1>5, <2>1 DEF Delete
<1>6. CASE \E how : EndOfProcess(how)
  BY <1>6 DEF EndOfProcess
<1>7. QED
  BY Actions, <1>1, <1>2, <1>3, <1>4, <1>5, <1>6
     DEF RemoteSends, RemoteCloses, FiveMinutes, CallConnect, CallDisconnect, PassOver,
         Send, ConnectFails, CallSend, SendEnd, DisconnectEnd, CallStart, CallStop,
         JoinNetwork, ClearEnd, CallDestructor, DestructorEnd, NetworkTest, Clean,
         CleanEnd, Disconnect, Terminate, Close, vars

LEMMA NetworkThreadStep ==
  ASSUME IInv, Next
  PROVE  OneNetworkThread'
<1> USE DEF IInv, TypeOK, OneNetworkThread, Goes
<1>1. CASE UNCHANGED <<op, running>>
  BY <1>1
<1>2. CASE ConnectFails \/ Connect \/ CallSend \/ SendEnd \/ DisconnectEnd
  BY <1>2 DEF ConnectFails, Connect, CallSend, SendEnd, DisconnectEnd
<1>3. CASE (\E s \in Servers : CallConnect(s) \/ CallDisconnect(s))
           \/ CallStart \/ CallStop
  BY <1>3 DEF CallConnect, CallDisconnect, CallStart, CallStop
<1>4. CASE JoinNetwork \/ ClearEnd \/ CallDestructor
  BY <1>4 DEF JoinNetwork, ClearEnd, CallDestructor
<1>5. CASE NetworkTest \/ Clean \/ CleanEnd
  BY <1>5 DEF NetworkTest, Clean, CleanEnd
<1>6. CASE \E how : EndOfProcess(how)
  BY <1>6 DEF EndOfProcess
<1>7. QED
  BY Actions, <1>1, <1>2, <1>3, <1>4, <1>5, <1>6
     DEF RemoteSends, RemoteCloses, FiveMinutes, ReceiveTest, ReceiveFails, ReceiveEnds,
         Receive, PassOver, Send, DestructorEnd, Disconnect, Join, Delete, Terminate,
         Close, vars

LEMMA LockStep ==
  ASSUME IInv, Next
  PROVE  LockInv'
<1> USE DEF IInv, TypeOK, LockInv, Closing, Goes, Unlock
<1>1. CASE UNCHANGED <<op, running, mutex, at, cur, connections, total_messages_sent>>
  BY <1>1
<1>2. ASSUME NEW s \in Servers, CallConnect(s) \/ CallDisconnect(s) PROVE LockInv'
  BY <1>2 DEF CallConnect, CallDisconnect
<1>3. CASE ConnectFails \/ Connect \/ CallSend
  BY <1>3 DEF ConnectFails, Connect, CallSend
<1>4. CASE SendEnd \/ DisconnectEnd \/ ClearEnd
  BY <1>4, ServersAssumption DEF SendEnd, DisconnectEnd, ClearEnd, LoopDone
<1>5. CASE CallStart \/ CallStop \/ JoinNetwork \/ CallDestructor
  <2>1. CASE CallStart
    <3>1. op[Owner] = "idle" /\ at[Network] = "none"
      BY <2>1 DEF CallStart, OneNetworkThread, NetworkOps
    <3>2. QED
      BY <2>1, <3>1 DEF CallStart
  <2>2. CASE CallStop
    BY <2>2 DEF CallStop
  <2>3. CASE JoinNetwork
    BY <2>3 DEF JoinNetwork
  <2>4. CASE CallDestructor
    BY <2>4 DEF CallDestructor
  <2>5. QED
    BY <1>5, <2>1, <2>2, <2>3, <2>4
<1>6. CASE NetworkTest \/ Clean \/ CleanEnd
  BY <1>6, ServersAssumption DEF NetworkTest, Clean, CleanEnd, LoopDone
<1>7. ASSUME NEW t \in Threads, NEW s \in Servers, Close(t, s) PROVE LockInv'
  BY <1>7 DEF Close
<1>8. ASSUME NEW t \in Threads, Disconnect(t) \/ Join(t) \/ Delete(t) PROVE LockInv'
  BY <1>8 DEF Disconnect, Join, Delete
<1>9. CASE \E how : EndOfProcess(how)
  BY <1>9 DEF EndOfProcess
<1>10. QED
  BY Actions, <1>1, <1>2, <1>3, <1>4, <1>5, <1>6, <1>7, <1>8, <1>9
     DEF RemoteSends, RemoteCloses, FiveMinutes, ReceiveTest, ReceiveFails, ReceiveEnds,
         Receive, PassOver, Send, DestructorEnd, Terminate, vars

\* Two threads never close connections at the same time.
LEMMA OneCloses ==
  ASSUME IInv, NEW t \in Threads, NEW u \in Threads, at[t] # "none", u # t
  PROVE  at[u] = "none"
BY DEF IInv, TypeOK, LockInv, OneNetworkThread, OwnerOps, NetworkOps, Closing

LEMMA ThreadStep ==
  ASSUME IInv, Next
  PROVE  ThreadInv'
<1> USE DEF IInv, TypeOK, ThreadInv
<1>1. CASE UNCHANGED <<socket, joinable, at, cur, connected, remote, rpc>>
  BY <1>1
<1>2. ASSUME NEW s \in Servers, RemoteCloses(s) PROVE ThreadInv'
  BY <1>2 DEF RemoteCloses
<1>3. ASSUME NEW s \in Servers,
             \/ ReceiveTest(s) \/ ReceiveFails(s) \/ ReceiveEnds(s)
             \/ \E ok \in BOOLEAN : Receive(s, ok)
      PROVE  ThreadInv'
  BY <1>3 DEF ReceiveTest, ReceiveFails, ReceiveEnds, Receive
<1>4. ASSUME NEW s \in Servers, CallConnect(s) PROVE ThreadInv'
  BY <1>4 DEF CallConnect, LockInv, Closing
<1>5. CASE ConnectFails
  BY <1>5 DEF ConnectFails, LockInv, Closing
<1>6. CASE Connect
  <2>1. at[Owner] = "none" /\ at[Network] = "none" /\ cur[Owner] \in Servers
    BY <1>6 DEF Connect, LockInv, Closing, NetworkOps
  <2>2. QED
    BY <1>6, <2>1 DEF Connect
<1>7. ASSUME NEW t \in Threads, NEW s \in Servers, Close(t, s) PROVE ThreadInv'
  <2>1. at[t] = "none"
    BY <1>7, ServersAssumption DEF Close, LockInv
  <2>2. QED
    BY <1>7, <2>1 DEF Close
<1>8. ASSUME NEW t \in Threads, Disconnect(t) PROVE ThreadInv'
  <2>1. /\ cur[t] \in Servers
        /\ \A u \in Threads : u # t => at[u] = "none"
    BY <1>8, OneCloses DEF Disconnect, LockInv
  <2>2. QED
    BY <1>8, <2>1 DEF Disconnect
<1>9. ASSUME NEW t \in Threads, Join(t) PROVE ThreadInv'
  <2>1. /\ cur[t] \in Servers
        /\ \A u \in Threads : u # t => at[u] = "none"
    BY <1>9, OneCloses DEF Join, LockInv
  <2>2. QED
    BY <1>9, <2>1 DEF Join
<1>10. ASSUME NEW t \in Threads, Delete(t) PROVE ThreadInv'
  BY <1>10 DEF Delete
<1>11. CASE \E how : EndOfProcess(how) /\ \A t \in Threads : at[t] # "join"
  BY <1>11 DEF EndOfProcess
<1>12. CASE DestructorEnd
  <2>1. at[Owner] = "none"
    BY <1>12, ServersAssumption DEF DestructorEnd, LoopDone, LockInv
  <2>2. op[Network] \notin Closing
    BY <1>12 DEF DestructorEnd, LockInv, OneNetworkThread, NetworkOps, Closing
  <2>3. at[Network] = "none"
    BY <2>2 DEF LockInv
  <2>4. QED
    BY <1>11, <1>12, <2>1, <2>3 DEF DestructorEnd
<1>13. ASSUME NEW t \in Threads, Terminate(t) PROVE ThreadInv'
  <2>1. \A u \in Threads : u # t => at[u] = "none"
    BY <1>13, OneCloses DEF Terminate
  <2>2. QED
    BY <1>11, <1>13, <2>1 DEF Terminate
<1>14. QED
  BY Actions, <1>1, <1>2, <1>3, <1>4, <1>5, <1>6, <1>7, <1>8, <1>9, <1>10, <1>12, <1>13
     DEF RemoteSends, FiveMinutes, CallDisconnect, PassOver, Send, CallSend, SendEnd,
         DisconnectEnd, CallStart, CallStop, JoinNetwork, ClearEnd, CallDestructor,
         NetworkTest, Clean, CleanEnd, vars


LEMMA EndStep ==
  ASSUME IInv, Next
  PROVE  EndInv'
<1> USE DEF IInv, TypeOK, EndInv, Goes
<1>1. CASE UNCHANGED <<proc, op>>
  BY <1>1
<1>2. CASE \/ \E s \in Servers : CallConnect(s) \/ CallDisconnect(s)
           \/ ConnectFails \/ Connect \/ CallSend \/ SendEnd \/ DisconnectEnd
           \/ CallStart \/ CallStop \/ JoinNetwork \/ ClearEnd \/ CallDestructor
  BY <1>2 DEF CallConnect, CallDisconnect, ConnectFails, Connect, CallSend, SendEnd,
              DisconnectEnd, CallStart, CallStop, JoinNetwork, ClearEnd, CallDestructor
<1>3. CASE NetworkTest \/ Clean \/ CleanEnd
  BY <1>3 DEF NetworkTest, Clean, CleanEnd
<1>4. CASE \E how : EndOfProcess(how)
  BY <1>4 DEF EndOfProcess
<1>5. QED
  BY Actions, <1>1, <1>2, <1>3, <1>4
     DEF RemoteSends, RemoteCloses, FiveMinutes, ReceiveTest, ReceiveFails, ReceiveEnds,
         Receive, PassOver, Send, DestructorEnd, Disconnect, Join, Delete, Terminate,
         Close, vars

LEMMA TerminatedStep ==
  ASSUME IInv, Next
  PROVE  TerminatedByRemote'
<1> USE DEF IInv, TypeOK, TerminatedByRemote
<1>1. ASSUME NEW t \in Threads, Terminate(t) PROVE TerminatedByRemote'
  <2>1. /\ cur[t] \in Servers /\ joinable[cur[t]]
        /\ \A u \in Threads : at[u] # "join"
    BY <1>1, OneCloses DEF Terminate, LockInv
  <2>2. remote[cur[t]] = "closed"
    BY <1>1, <2>1 DEF Terminate, ThreadInv
  <2>3. QED
    BY <1>1, <2>1, <2>2 DEF Terminate, EndOfProcess
<1>2. CASE DestructorEnd
  BY <1>2 DEF DestructorEnd, EndOfProcess
<1>3. CASE UNCHANGED <<proc, remote>>
  BY <1>3
<1>4. ASSUME NEW s \in Servers, RemoteCloses(s) PROVE TerminatedByRemote'
  BY <1>4 DEF RemoteCloses
<1>5. CASE Connect \/ \E t \in Threads : Join(t)
  <2>1. proc = "up"
    BY <1>5 DEF Connect, Join, LockInv, EndInv, Closing
  <2>2. QED
    BY <1>5, <2>1 DEF Connect, Join
<1>6. QED
  BY Actions, <1>1, <1>2, <1>3, <1>4, <1>5
     DEF RemoteSends, FiveMinutes, ReceiveTest, ReceiveFails, ReceiveEnds, Receive,
         CallConnect, CallDisconnect, PassOver, Send, ConnectFails, CallSend, SendEnd,
         DisconnectEnd, CallStart, CallStop, JoinNetwork, ClearEnd, CallDestructor,
         NetworkTest, Clean, CleanEnd, Disconnect, Delete, Close, vars

LEMMA SendStep ==
  ASSUME IInv, Next
  PROVE  SendInv'
<1> USE DEF IInv, TypeOK, SendInv, Goes
<1>1. CASE UNCHANGED <<op, todo, connections, connected, remote, took>>
  BY <1>1
<1>2. ASSUME NEW s \in Servers, RemoteCloses(s) \/ ReceiveEnds(s) PROVE SendInv'
  BY <1>2 DEF RemoteCloses, ReceiveEnds
<1>3. ASSUME NEW s \in Servers, NEW ok \in BOOLEAN, Send(s, ok) PROVE SendInv'
  BY <1>3 DEF Send
<1>4. CASE CallSend
  BY <1>4 DEF CallSend
<1>5. CASE \/ \E s \in Servers : CallConnect(s) \/ CallDisconnect(s)
           \/ ConnectFails \/ Connect \/ SendEnd \/ DisconnectEnd
           \/ CallStart \/ CallStop \/ JoinNetwork \/ ClearEnd \/ CallDestructor
  BY <1>5 DEF CallConnect, CallDisconnect, ConnectFails, Connect, SendEnd, DisconnectEnd,
              CallStart, CallStop, JoinNetwork, ClearEnd, CallDestructor
<1>6. CASE NetworkTest \/ Clean \/ CleanEnd \/ \E s \in Servers : PassOver(s)
  BY <1>6 DEF NetworkTest, Clean, CleanEnd, PassOver
<1>7. CASE \E how : EndOfProcess(how)
  BY <1>7 DEF EndOfProcess
<1>8. ASSUME NEW t \in Threads,
             \/ Disconnect(t) \/ Join(t) \/ Delete(t)
             \/ \E s \in Servers : Close(t, s)
      PROVE  SendInv'
  <2>1. op[Owner] # "send"
    BY <1>8 DEF Disconnect, Join, Delete, Close, LockInv, NetworkOps, Closing
  <2>2. QED
    BY <1>8, <2>1 DEF Disconnect, Join, Delete, Close
<1>9. QED
  BY Actions, <1>1, <1>2, <1>3, <1>4, <1>5, <1>6, <1>7, <1>8
     DEF RemoteSends, FiveMinutes, ReceiveTest, ReceiveFails, Receive, DestructorEnd,
         Terminate, vars

LEMMA IInvInit == Init => IInv
<1> SUFFICES ASSUME Init PROVE IInv
  OBVIOUS
<1>1. running \in BOOLEAN /\ ending \in BOOLEAN
  BY Zenon DEF Init
<1>2. /\ connected \in [Servers -> BOOLEAN] /\ joinable \in [Servers -> BOOLEAN]
      /\ recent \in [Servers -> BOOLEAN] /\ unread \in [Servers -> BOOLEAN]
  BY DEF Init
<1>3. TypeOK
  BY <1>1, <1>2, CallsAssumption DEF Init, TypeOK, OwnerOps, NetworkOps
<1>4. LinkSound /\ OneNetworkThread /\ TerminatedByRemote /\ EndInv
  BY DEF Init, LinkSound, OneNetworkThread, TerminatedByRemote, EndInv
<1>5. LockInv /\ SendInv
  BY DEF Init, LockInv, SendInv
<1>6. ThreadInv
  BY DEF Init, ThreadInv
<1>7. QED
  BY <1>3, <1>4, <1>5, <1>6 DEF IInv

LEMMA IInvStep == IInv /\ [Next]_vars => IInv'
<1> SUFFICES ASSUME IInv, [Next]_vars PROVE IInv'
  OBVIOUS
<1>1. CASE Next
  BY <1>1, TypeStep, LinkStep, NetworkThreadStep, LockStep, ThreadStep, EndStep,
     TerminatedStep, SendStep DEF IInv
<1>2. CASE UNCHANGED vars
  BY <1>2 DEF vars, IInv, TypeOK, LinkSound, OneNetworkThread, LockInv, ThreadInv, EndInv,
              TerminatedByRemote, SendInv
<1>3. QED
  BY <1>1, <1>2

LEMMA IInvAlways == Spec => []IInv
BY IInvInit, IInvStep, PTL DEF Spec

\* Whatever the caller does, every variable of the manager and its connections keeps
\* its type.
THEOREM TypeCorrect == Spec => []TypeOK
<1>1. IInv => TypeOK
  BY DEF IInv
<1>2. QED
  BY <1>1, IInvAlways, PTL

\* For any servers and any order of calls: disconnect() closes a socket after its
\* receive thread ended, so that none reads a closed handle or a destroyed object.
THEOREM LinksAreSound == Spec => []LinkSound
<1>1. IInv => LinkSound
  BY DEF IInv
<1>2. QED
  BY <1>1, IInvAlways, PTL

\* start() never meets a network thread that was not joined.
THEOREM NetworkThreadIsOne == Spec => []OneNetworkThread
<1>1. IInv => OneNetworkThread
  BY DEF IInv
<1>2. QED
  BY <1>1, IInvAlways, PTL

\* While no other server closes its connection, no destructor of the manager or of
\* a connection meets a thread that was not joined.
THEOREM TerminatedOnlyByRemote == Spec => []TerminatedByRemote
<1>1. IInv => TerminatedByRemote
  BY DEF IInv
<1>2. QED
  BY <1>1, IInvAlways, PTL

\* When sendMessage returns, no connected server was forgotten, for any number of
\* connections and although receive threads and remotes go on during its loop.
THEOREM EveryLinkIsSent == Spec => EveryLinkSent
<1>1. ASSUME IInv, [Next]_vars, op[Owner] = "send" /\ op'[Owner] = "idle"
      PROVE  \A s \in connections : connected[s] /\ remote[s] = "linked" => s \in took
  <2>1. SendEnd
    <3>1. ASSUME NEW t \in Threads, Terminate(t) PROVE op'[Owner] # "idle"
      BY <3>1 DEF Terminate, EndOfProcess
    <3>2. QED
      BY <1>1, <3>1, Actions
         DEF vars, RemoteSends, RemoteCloses, FiveMinutes, ReceiveTest, ReceiveFails,
             ReceiveEnds, Receive, CallConnect, CallDisconnect, PassOver, Send,
             ConnectFails, Connect, CallSend, DisconnectEnd, CallStart, CallStop,
             JoinNetwork, ClearEnd, CallDestructor, DestructorEnd, NetworkTest, Clean,
             CleanEnd, Disconnect, Join, Delete, Close, Goes, IInv, TypeOK
  <2>2. QED
    BY <1>1, <2>1 DEF SendEnd, LoopDone, IInv, SendInv
<1>2. QED
  BY <1>1, IInvAlways, PTL DEF Spec, EveryLinkSent
=============================================================================
