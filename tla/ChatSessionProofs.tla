------------------------- MODULE ChatSessionProofs -------------------------
(***************************************************************************)
(* Proofs about the client's socket in ChatSession: however its two threads   *)
(* meet in disconnect(), they close it, once, and forget it only then.        *)
(*                                                                         *)
(* The handler changes none of the variables that the invariant is about, so  *)
(* that only the client's actions matter.                                   *)
(***************************************************************************)
EXTENDS ChatSession, TLAPS

ControlVars == <<socketVars, pc, next>>

Disconnecting == {"disconnect", "check", "close", "forget"}
ReceiverOver == pc[Receiver] \in {"none", "end"}

\* Where the handle stands while a thread is in disconnect().
SocketInv ==
  /\ client_socket = "invalid" => ~open
  /\ (running \/ connected) => open
  /\ \A t \in Threads : pc[t] = "forget" => ~open
  /\ \A t \in Threads : pc[t] \in {"check", "close", "forget"} => ~running /\ ~connected

\* Where the two threads may be, and where disconnect() returns to.
OrderInv ==
  /\ pc[Main] = "connect" => ~open /\ pc[Receiver] = "none"
  /\ pc[Main] = "destroy" => ReceiverOver
  /\ pc[Main] \in {"send", "sending", "quit"} => next[Main] \in {"test", "quit"}
  /\ pc[Main] \in Disconnecting => next[Main] # "none"
  /\ pc[Receiver] \in Disconnecting => next[Receiver] = "end"
  /\ next[Main] = "end" => pc[Main] \in Closing /\ ReceiverOver
  /\ pc[Main] = "end" => ~open /\ next[Main] = "end"

IInv == ControlOK /\ SocketInv /\ OrderInv

\* The invariant holds when the client starts.
LEMMA InitIInv == Init => IInv
  BY DEF Init, ClientInit, IInv, ControlOK, SocketInv, OrderInv, ReceiverOver, Threads,
         Main, Receiver, MainLabels, ReceiverLabels, Closing, Disconnecting

\* A step of neither thread keeps it.
LEMMA QuietKeeps == IInv /\ UNCHANGED ControlVars => IInv'
  BY DEF IInv, ControlOK, SocketInv, OrderInv, ReceiverOver, ControlVars, socketVars

\* Connecting, and everything the main thread does outside disconnect(), keeps it.
LEMMA MainKeeps ==
  ASSUME IInv,
         \/ Connect \/ ConnectFails \/ Join \/ Destroy \/ InputTest \/ UserStep
         \/ SendTest \/ Send \/ SendFails \/ QuitDisconnect
  PROVE  IInv'
<1> USE DEF IInv, ControlOK, SocketInv, OrderInv, ReceiverOver, Threads, Main, Receiver,
            MainLabels, ReceiverLabels, Closing, Disconnecting, Goto, socketVars
<1>1. CASE Connect       BY <1>1 DEF Connect
<1>2. CASE ConnectFails  BY <1>2 DEF ConnectFails
<1>3. CASE Join          BY <1>3 DEF Join
<1>4. CASE Destroy       BY <1>4 DEF Destroy
<1>5. CASE InputTest     BY <1>5 DEF InputTest
<1>6. CASE UserStep
  <2>1. CASE TypeLocal   BY <2>1 DEF TypeLocal
  <2>2. CASE EndOfInput  BY <2>2 DEF EndOfInput
  <2>3. ASSUME NEW l \in Lines \cup {Quit}, Type(l)
        PROVE  IInv'
    BY <2>3 DEF Type
  <2> QED  BY <1>6, <2>1, <2>2, <2>3 DEF UserStep
<1>7. CASE SendTest        BY <1>7 DEF SendTest
<1>8. CASE Send            BY <1>8 DEF Send
<1>9. CASE SendFails       BY <1>9 DEF SendFails
<1>10. CASE QuitDisconnect BY <1>10 DEF QuitDisconnect
<1> QED
  BY <1>1, <1>2, <1>3, <1>4, <1>5, <1>6, <1>7, <1>8, <1>9, <1>10

\* So does what the receive thread does outside disconnect().
LEMMA ReceiverKeeps ==
  ASSUME IInv, ReceiveTest \/ ReceiveEnds \/ \E n \in 1..Len(down) : Receive(n)
  PROVE  IInv'
<1> USE DEF IInv, ControlOK, SocketInv, OrderInv, ReceiverOver, Threads, Main, Receiver,
            MainLabels, ReceiverLabels, Closing, Disconnecting, Goto, socketVars
<1>1. CASE ReceiveTest  BY <1>1 DEF ReceiveTest
<1>2. CASE ReceiveEnds  BY <1>2 DEF ReceiveEnds, RecvFails
<1>3. ASSUME NEW n \in 1..Len(down), Receive(n)
      PROVE  IInv'
  BY <1>3 DEF Receive
<1> QED  BY <1>1, <1>2, <1>3

\* And each step of disconnect(), in whichever thread.  The point is CloseSocket: the
\* handle it finds is open or was closed by the other thread, and either way it is
\* closed when the thread comes to forget it.
LEMMA DisconnectKeeps ==
  ASSUME IInv, NEW t \in Threads, DisconnectStep(t)
  PROVE  IInv'
<1> USE DEF IInv, ControlOK, SocketInv, OrderInv, ReceiverOver, Threads, Main, Receiver,
            MainLabels, ReceiverLabels, Closing, Disconnecting, Goto, socketVars
<1>1. CASE ClearFlags(t)   BY <1>1 DEF ClearFlags
<1>2. CASE CheckSocket(t)  BY <1>2 DEF CheckSocket
<1>3. CASE CloseSocket(t)  BY <1>3 DEF CloseSocket
<1>4. CASE ForgetSocket(t) BY <1>4 DEF ForgetSocket
<1> QED  BY <1>1, <1>2, <1>3, <1>4 DEF DisconnectStep

\* The invariant is inductive.
LEMMA NextKeeps == IInv /\ [Next]_vars => IInv'
<1> SUFFICES ASSUME IInv, [Next]_vars
             PROVE  IInv'
  OBVIOUS
<1>1. CASE ClientStep
  <2>1. CASE UserStep      BY <2>1, MainKeeps
  <2>2. CASE MainStep      BY <2>2, MainKeeps, DisconnectKeeps DEF MainStep, Threads
  <2>3. CASE ReceiverStep  BY <2>3, ReceiverKeeps, DisconnectKeeps DEF ReceiverStep, Threads
  <2> QED  BY <1>1, <2>1, <2>2, <2>3 DEF ClientStep
<1>2. CASE HandlerStep \/ OthersStep
  <2>1. UNCHANGED ControlVars
    BY <1>2 DEF HandlerStep, OthersStep, Accept, Refuse, ReadsName, NameTaken, Joins, Hears,
                Shares, PeerGone, Leave, Relay, Kick, ServerEnds, OthersLock, OthersUnlock,
                clientVars, ControlVars
  <2> QED  BY <2>1, QuietKeeps
<1>3. CASE Over \/ UNCHANGED vars
  <2>1. UNCHANGED ControlVars  BY <1>3 DEF Over, vars, clientVars, ControlVars
  <2> QED  BY <2>1, QuietKeeps
<1> QED  BY <1>1, <1>2, <1>3 DEF Next

\* It holds in every state.
THEOREM Invariance == Spec => []IInv
<1> QED  BY InitIInv, NextKeeps, PTL DEF Spec

\* Both threads and the socket always are where their types say.
THEOREM ControlTyped == Spec => []ControlOK
<1>1. IInv => ControlOK  BY DEF IInv
<1> QED  BY <1>1, Invariance, PTL

\* The client never forgets an open handle, and leaves none when main returns, which
\* it does only with the receive thread over.
THEOREM HandleClosed == Spec => []NothingLeftOpen
<1>1. IInv => NothingLeftOpen
  BY DEF IInv, SocketInv, OrderInv, NothingLeftOpen, ReceiverOver
<1> QED  BY <1>1, Invariance, PTL

\* A thread that finds connected or running set has an open handle at that moment.
THEOREM FlagsMeanOpen == Spec => []FlagsBeforeClose
<1>1. IInv => FlagsBeforeClose  BY DEF IInv, SocketInv, FlagsBeforeClose
<1> QED  BY <1>1, Invariance, PTL
=============================================================================
