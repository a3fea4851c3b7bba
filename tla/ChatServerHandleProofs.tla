----------------------- MODULE ChatServerHandleProofs -----------------------
(***************************************************************************)
(* Proofs about the socket handles of ChatServer, for any connections,      *)
(* handles and bounds.  As long as nobody closes a handle that is not its   *)
(* own (Undisturbed), handles and connections stay in step: every open      *)
(* handle belongs to a connection that somebody still holds (OpenHeld), and *)
(* whoever holds a connection has a handle that is its own or closed        *)
(* (HeldOwn), closed only once the listener is.                             *)
(***************************************************************************)
EXTENDS ChatServerProofs

USE DEF serverVars, lockVars, tableVars, netVars, acceptorVars, handlerVars,
        consoleVars, outsideHandlers, outsideConsole, outsideAcceptor

\* The acceptor, or the handler until it closed its socket, answers for c.
LetGo == {"idle", "erase", "done"}
Holds(c) == (apc = "admit" /\ fresh = c) \/ pc[c] \notin LetGo

\* client_ptr is null until clients.back() is read, and read only once.
PtrInv == \A c \in Conns : pc[c] \in Early \cup {"back"} => ptr[c] = None

\* How far the console is with stop(), and that it kicks on command only.
StopInv ==
  /\ "kick" \notin Commands => cpc # "kick"
  /\ running => listening
  /\ cpc \in {"listener", "sweep"} => ~running
  /\ cpc = "sweep" => ~listening

OpenHeld == \A c \in Conns, h \in Handles : fd[h] = c => sock[c] = h /\ Holds(c)

HeldOwn ==
  \A c \in Conns : Holds(c) =>
    /\ sock[c] \in Handles /\ fd[sock[c]] \in {c, None}
    /\ listening => fd[sock[c]] = c

\* A handler does not end before its object left the vector.
EndedErased == proc = "up" => \A o \in Members : pc[o] # "done"

\* The bytes a handler processes came over its own connection.
SourceOwn == \A c \in Conns : pc[c] \in {"chat", "pm", "list"} => line[c].src = c

InStep == OpenHeld /\ HeldOwn /\ EndedErased
OwnInv == InStep /\ SourceOwn /\ RightSender

HInv == IInv /\ PtrInv /\ StopInv /\ (Undisturbed => OwnInv)

-----------------------------------------------------------------------------
(* The pointers and the console.                                            *)

LEMMA PtrFrame ==
  ASSUME PtrInv, ptr' = ptr,
         \A c \in Conns :
           pc'[c] \in Early \cup {"back"} => pc[c] \in Early \cup {"back"}
  PROVE  PtrInv'
BY DEF PtrInv

LEMMA PtrStep ==
  ASSUME TypeInv, PhaseInv, PtrInv, Next
  PROVE  PtrInv'
<1> DEFINE Unset == Early \cup {"back"}
<1>1. ASSUME NEW c \in Conns, NEW l, pc' = [pc EXCEPT ![c] = l],
             l \in Unset => pc[c] \in Unset, ptr' = ptr
      PROVE  PtrInv'
  BY <1>1, PtrFrame DEF TypeInv, TypeOK
<1>2. CASE Admit
  BY <1>1, <1>2 DEF Admit, TypeInv, PhaseInv, Early
<1>3. ASSUME NEW c \in Conns, AdoptBack(c) PROVE PtrInv'
  BY <1>3 DEF AdoptBack, PtrInv, TypeInv, TypeOK, Early
<1>4. ASSUME NEW c \in Conns,
             \/ NoUsername(c) \/ RejectName(c) \/ Register(c)
             \/ \E t \in Typed : ReadUsername(c, t)
      PROVE  PtrInv'
  BY <1>1, <1>4 DEF NoUsername, RejectName, Register, ReadUsername, Early
<1>5. ASSUME NEW c \in Conns,
             \/ LoopCheck(c) \/ Disconnected(c) \/ ReadQuit(c)
             \/ UserList(c) \/ PmEnd(c) \/ Depart(c) \/ Erase(c)
      PROVE  PtrInv'
  BY <1>1, <1>5 DEF LoopCheck, Disconnected, ReadQuit, UserList, PmEnd, Depart, Erase,
                    Early
<1>6. ASSUME NEW c \in Conns, NEW kind, NEW to, ReadLine(c, kind, to)
      PROVE  PtrInv'
  BY <1>1, <1>6, BoundsAssumption DEF ReadLine, Early
<1>7. ASSUME NEW t \in Conns \cup {Console}, BroadcastEnd(t) PROVE PtrInv'
  <2>1. CASE t = Console
    BY <1>7, <2>1, PtrFrame DEF BroadcastEnd
  <2>2. CASE t \in Conns
    <3> DEFINE l == IF pc[t] = "leave" THEN "depart" ELSE "loop"
    <3>1. pc' = [pc EXCEPT ![t] = l] /\ ptr' = ptr
      BY <1>7, <2>2, ConnsAssumption DEF BroadcastEnd
    <3>2. l \notin Unset
      BY DEF Early
    <3> HIDE DEF l
    <3>3. QED
      BY <1>1, <2>2, <3>1, <3>2
  <2>3. QED
    BY <2>1, <2>2
<1>8. CASE \E how : EndOfProcess(how)
  BY <1>8, PtrFrame DEF EndOfProcess, Early
<1>9. CASE UNCHANGED <<pc, ptr>>
  BY <1>9, PtrFrame
<1>10. QED
  BY <1>2, <1>3, <1>4, <1>5, <1>6, <1>7, <1>8, <1>9
     DEF Next, Environment, Server, Operator, AcceptorWork, HandlerWork, HandlerReads,
         ConsoleWork, LoopStep, ReadChat, ReadPm, ReadList, Halted, vars,
         PeerLeaves, PeerStalls, PeerResumes, AcceptLoop, Accept, AcceptFails, Refuse,
         Lock, LoopTest, BroadcastSend, BroadcastCommand, KickCommand, KickEnd,
         StopCommand, ClearRunning, CloseListener, SweepClient, SweepEnd, ConnectCommand,
         RemoteSpeaks, RemoteCloses, JoinLinks, TerminateAtLinks, Exit, Crash

LEMMA StopStep ==
  ASSUME TypeInv, StopInv, Next
  PROVE  StopInv'
<1>1. CASE /\ UNCHANGED <<running, listening>>
           /\ cpc' = cpc \/ cpc' \notin {"kick", "listener", "sweep"}
  BY <1>1 DEF StopInv
<1>2. ASSUME NEW n \in Usernames, KickCommand(n) PROVE StopInv'
  BY <1>2 DEF KickCommand, StopInv
<1>3. CASE ClearRunning
  BY <1>3 DEF ClearRunning, StopInv
<1>4. CASE CloseListener
  BY <1>4 DEF CloseListener, StopInv
<1>5. CASE \E k \in 1..2 : StopCommand(k)
  BY <1>1, <1>5 DEF StopCommand
<1>6. CASE SweepEnd
  <2>1. cpc' \in {"flag", "links"}
    BY <1>6 DEF SweepEnd
  <2>2. QED
    BY <1>1, <1>6, <2>1 DEF SweepEnd
<1>7. CASE \E how : EndOfProcess(how)
  BY <1>1, <1>7 DEF EndOfProcess
<1>8. ASSUME NEW t \in Conns \cup {Console}, BroadcastEnd(t) PROVE StopInv'
  BY <1>1, <1>8 DEF BroadcastEnd
<1>9. QED
  BY <1>1, <1>2, <1>3, <1>4, <1>5, <1>6, <1>7, <1>8
     DEF Next, Environment, Server, Operator, AcceptorWork, HandlerWork, HandlerReads,
         ConsoleWork, LoopStep, ReadChat, ReadPm, ReadList, Halted, vars,
         PeerLeaves, PeerStalls, PeerResumes, AcceptLoop, Accept, AcceptFails, Refuse, Admit,
         NoUsername, ReadUsername, RejectName, Register, AdoptBack, Lock, LoopTest,
         BroadcastSend, LoopCheck, Disconnected, ReadLine, ReadQuit, UserList, PmEnd,
         Depart, Erase, BroadcastCommand, KickEnd, SweepClient, ConnectCommand,
         RemoteSpeaks, RemoteCloses, JoinLinks, TerminateAtLinks, Exit, Crash

\* A handler that took another's object keeps it: the races do not heal.
LEMMA DisturbedStays ==
  ASSUME TypeInv, PtrInv, [Next]_vars, OwnClient'
  PROVE  OwnClient
<1>1. CASE ptr' = ptr
  BY <1>1 DEF OwnClient
<1>2. ASSUME NEW c \in Conns, AdoptBack(c) PROVE OwnClient
  BY <1>2 DEF AdoptBack, PtrInv, OwnClient, TypeInv, TypeOK
<1>3. QED
  BY <1>1, <1>2
     DEF Next, Environment, Server, Operator, AcceptorWork, HandlerWork, HandlerReads,
         ConsoleWork, LoopStep, ReadChat, ReadPm, ReadList, Halted, vars,
         PeerLeaves, PeerStalls, PeerResumes, AcceptLoop, Accept, AcceptFails, Refuse, Admit,
         NoUsername, ReadUsername, RejectName, Register, Lock, LoopTest,
         BroadcastSend, BroadcastEnd, LoopCheck, Disconnected, ReadLine, ReadQuit,
         UserList, PmEnd, Depart, Erase, BroadcastCommand, KickCommand, KickEnd,
         StopCommand, ClearRunning, CloseListener, SweepClient, SweepEnd, ConnectCommand,
         RemoteSpeaks, RemoteCloses, JoinLinks, TerminateAtLinks, Exit, Crash,
         EndOfProcess

-----------------------------------------------------------------------------
(* The handles.                                                             *)

LEMMA StepFrame ==
  ASSUME TypeInv, InStep, UNCHANGED <<fd, sock, proc>>, listening' => listening,
         \A c \in Conns : Holds(c)' <=> Holds(c),
         \A o \in Members' : pc'[o] = "done" => o \in Members /\ pc[o] = "done"
  PROVE  InStep'
<1>1. OpenHeld'
  BY DEF InStep, OpenHeld, TypeInv, TypeOK
<1>2. HeldOwn'
  BY DEF InStep, HeldOwn
<1>3. EndedErased'
  BY DEF InStep, EndedErased
<1>4. QED
  BY <1>1, <1>2, <1>3 DEF InStep

\* A handler goes on with its connection.
LEMMA HandlerKeeps ==
  ASSUME TypeInv, InStep, NEW c \in Conns, NEW l, pc[c] \notin LetGo, l \notin LetGo,
         pc' = [pc EXCEPT ![c] = l], Members' \subseteq Members \cup {c},
         UNCHANGED <<fd, sock, proc, listening, apc, fresh>>
  PROVE  InStep'
<1>1. \A d \in Conns : pc'[d] = IF d = c THEN l ELSE pc[d]
  BY DEF TypeInv, TypeOK
<1>2. \A d \in Conns : Holds(d)' <=> Holds(d)
  BY <1>1 DEF Holds
<1>3. \A o \in Members' : pc'[o] = "done" => o \in Members /\ pc[o] = "done"
  <2>1. Members \subseteq Conns
    BY MembersType DEF TypeInv
  <2>2. QED
    BY <1>1, <2>1 DEF LetGo
<1>4. QED
  BY <1>2, <1>3, StepFrame

\* Whoever holds a connection closes its handle and lets go of it: no other
\* connection that is held loses its own.
LEMMA ClosesOwn ==
  ASSUME TypeInv, OpenHeld, HeldOwn, NEW c \in Conns, Holds(c),
         fd' = Closed(sock[c]), UNCHANGED <<sock, listening>>,
         \A d \in Conns : Holds(d)' <=> Holds(d) /\ d # c
  PROVE  OpenHeld' /\ HeldOwn'
<1>1. \A h \in Handles : fd'[h] = IF h = sock[c] THEN None ELSE fd[h]
  BY DEF Closed
<1>2. OpenHeld'
  <2>1. SUFFICES ASSUME NEW d \in Conns, NEW h \in Handles, fd'[h] = d
                 PROVE  sock[d] = h /\ Holds(d) /\ d # c
    BY DEF OpenHeld
  <2>2. h # sock[c] /\ fd[h] = d
    BY <1>1, <2>1, ConnsAssumption
  <2>3. QED
    BY <2>2 DEF OpenHeld
<1>3. HeldOwn'
  <2>1. SUFFICES ASSUME NEW d \in Conns, Holds(d), d # c
                 PROVE  /\ sock[d] \in Handles /\ fd'[sock[d]] \in {d, None}
                        /\ listening => fd'[sock[d]] = d
    BY DEF HeldOwn
  <2>2. /\ sock[d] \in Handles /\ fd[sock[d]] \in {d, None}
        /\ listening => fd[sock[d]] = d /\ fd[sock[c]] = c
    BY <2>1 DEF HeldOwn
  <2>3. listening => sock[d] # sock[c]
    BY <2>1, <2>2
  <2>4. QED
    BY <1>1, <2>2, <2>3
<1>4. QED
  BY <1>2, <1>3

LEMMA InStepStep ==
  ASSUME IInv, StopInv, Undisturbed, InStep, Next
  PROVE  InStep'
<1> USE DEF LetGo
<1>1. TypeInv /\ PhaseInv /\ TableSound
  BY DEF IInv
<1>2. \A c \in Conns : pc[c] \in Working => ptr[c] = c
  BY <1>1, ConnsAssumption DEF Undisturbed, OwnClient, TypeInv
<1>3. Members \subseteq Conns /\ \A c \in Conns : pc[c] \in Early => c \notin Members
  BY <1>1, MembersType DEF TypeInv, PhaseInv
<1>4. CASE /\ UNCHANGED <<fd, sock, proc, pc, fresh, clients>>
           /\ listening' => listening
           /\ apc' = "admit" <=> apc = "admit"
  <2>1. \A c \in Conns : Holds(c)' <=> Holds(c)
    BY <1>4 DEF Holds
  <2>2. \A o \in Members' : pc'[o] = "done" => o \in Members /\ pc[o] = "done"
    BY <1>4 DEF Members
  <2>3. UNCHANGED <<fd, sock, proc>> /\ (listening' => listening)
    BY <1>4
  <2>4. QED
    BY <1>1, <2>1, <2>2, <2>3, StepFrame
<1>5. ASSUME NEW c \in Conns, NEW h \in Handles, Accept(c, h) PROVE InStep'
  <2>1. /\ apc = "accept" /\ apc' = "admit" /\ fresh' = c /\ listening
        /\ peer[c] = "away" /\ fd[h] = None /\ Members' = Members
        /\ \A g \in Handles : fd'[g] = IF g = h THEN c ELSE fd[g]
        /\ \A d \in Conns : sock'[d] = IF d = c THEN h ELSE sock[d]
        /\ UNCHANGED <<pc, listening, proc>>
    BY <1>1, <1>5 DEF Accept, TypeInv, TypeOK, Members
  <2>2. pc[c] = "idle" /\ ~Holds(c)
    BY <1>1, <2>1 DEF PhaseInv, Holds
  <2>3. \A d \in Conns : Holds(d)' <=> Holds(d) \/ d = c
    BY <2>1 DEF Holds
  <2>4. OpenHeld'
    <3>1. SUFFICES ASSUME NEW d \in Conns, NEW g \in Handles, fd'[g] = d
                   PROVE  sock'[d] = g /\ (Holds(d) \/ d = c)
      BY <2>3 DEF OpenHeld
    <3>2. CASE g = h
      BY <2>1, <3>1, <3>2
    <3>3. CASE g # h
      <4>1. fd[g] = d /\ sock[d] = g /\ Holds(d)
        BY <2>1, <3>1, <3>3 DEF InStep, OpenHeld
      <4>2. QED
        BY <2>1, <2>2, <4>1
    <3>4. QED
      BY <3>2, <3>3
  <2>5. HeldOwn'
    <3>1. SUFFICES ASSUME NEW d \in Conns, Holds(d) \/ d = c
                   PROVE  sock'[d] \in Handles /\ fd'[sock'[d]] = d
      BY <2>3 DEF HeldOwn
    <3>2. CASE d = c
      BY <2>1, <3>2
    <3>3. CASE d # c
      <4>1. sock[d] \in Handles /\ fd[sock[d]] = d
        BY <2>1, <3>1, <3>3 DEF InStep, HeldOwn
      <4>2. sock[d] # h
        BY <2>1, <4>1, ConnsAssumption
      <4>3. QED
        BY <2>1, <3>3, <4>1, <4>2
    <3>4. QED
      BY <3>2, <3>3
  <2>6. EndedErased'
    BY <2>1 DEF InStep, EndedErased
  <2>7. QED
    BY <2>4, <2>5, <2>6 DEF InStep
<1>6. CASE Refuse
  <2>1. /\ apc = "admit" /\ apc' = "check" /\ fresh \in Conns /\ pc[fresh] = "idle"
        /\ fd' = Closed(sock[fresh]) /\ Members' = Members
        /\ UNCHANGED <<sock, listening, pc, proc>>
    BY <1>1, <1>6 DEF Refuse, TypeInv, PhaseInv, Members
  <2>2. Holds(fresh) /\ \A d \in Conns : Holds(d)' <=> Holds(d) /\ d # fresh
    BY <2>1 DEF Holds
  <2>3. OpenHeld' /\ HeldOwn'
    BY <1>1, <2>1, <2>2, ClosesOwn DEF InStep
  <2>4. QED
    BY <2>1, <2>3 DEF InStep, EndedErased
<1>7. CASE Admit
  <2>1. /\ apc = "admit" /\ apc' = "check" /\ fresh \in Conns /\ pc[fresh] = "idle"
        /\ \A d \in Conns : pc'[d] = IF d = fresh THEN "name" ELSE pc[d]
        /\ UNCHANGED <<fd, sock, proc, listening>> /\ Members' = Members
    BY <1>1, <1>7 DEF Admit, TypeInv, TypeOK, PhaseInv, Members
  <2>2. \A d \in Conns : Holds(d)' <=> Holds(d)
    BY <2>1 DEF Holds
  <2>3. \A o \in Members' : pc'[o] = "done" => o \in Members /\ pc[o] = "done"
    BY <1>3, <2>1
  <2>4. QED
    BY <1>1, <2>1, <2>2, <2>3, StepFrame
<1>8. ASSUME NEW c \in Conns, NoUsername(c) \/ RejectName(c) PROVE InStep'
  <2>1. /\ pc[c] \in {"name", "register"} /\ fd' = Closed(sock[c]) /\ Members' = Members
        /\ \A d \in Conns : pc'[d] = IF d = c THEN "done" ELSE pc[d]
        /\ UNCHANGED <<sock, proc, listening, apc, fresh>>
    BY <1>1, <1>8 DEF NoUsername, RejectName, TypeInv, TypeOK, Members
  <2>2. apc = "admit" => fresh # c
    BY <1>1, <2>1 DEF PhaseInv
  <2>3. Holds(c) /\ \A d \in Conns : Holds(d)' <=> Holds(d) /\ d # c
    BY <2>1, <2>2 DEF Holds
  <2>4. OpenHeld' /\ HeldOwn'
    BY <1>1, <2>1, <2>3, ClosesOwn DEF InStep
  <2>5. EndedErased'
    BY <1>3, <2>1 DEF InStep, EndedErased, Early
  <2>6. QED
    BY <2>4, <2>5 DEF InStep
<1>9. ASSUME NEW c \in Conns, Depart(c) PROVE InStep'
  <2>1. /\ pc[c] = "depart" /\ fd' = Closed(sock[c]) /\ Members' = Members
        /\ \A d \in Conns : pc'[d] = IF d = c THEN "erase" ELSE pc[d]
        /\ UNCHANGED <<sock, proc, listening, apc, fresh>>
    BY <1>1, <1>2, <1>9 DEF Depart, Working, TypeInv, TypeOK, Members
  <2>2. apc = "admit" => fresh # c
    BY <1>1, <2>1 DEF PhaseInv
  <2>3. Holds(c) /\ \A d \in Conns : Holds(d)' <=> Holds(d) /\ d # c
    BY <2>1, <2>2 DEF Holds
  <2>4. OpenHeld' /\ HeldOwn'
    BY <1>1, <2>1, <2>3, ClosesOwn DEF InStep
  <2>5. EndedErased'
    BY <1>3, <2>1 DEF InStep, EndedErased
  <2>6. QED
    BY <2>4, <2>5 DEF InStep
<1>10. ASSUME NEW c \in Conns, Erase(c) PROVE InStep'
  <2>1. /\ pc[c] = "erase" /\ ptr[c] = c
        /\ \A d \in Conns : pc'[d] = IF d = c THEN "done" ELSE pc[d]
        /\ UNCHANGED <<fd, sock, proc, listening, apc, fresh>>
    BY <1>1, <1>2, <1>10 DEF Erase, Working, TypeInv, TypeOK
  <2>2. Members' = Members \ {c}
    <3>1. CASE Contains(clients, c)
      BY <1>1, <1>10, <2>1, <3>1, MembersType, RemoveAtSet
         DEF Erase, Members, TableSound, Distinct, TypeInv
    <3>2. CASE ~Contains(clients, c)
      <4>1. c \notin Members
        BY <1>1, <3>2, MembersType DEF Members, ToSet, Contains, TypeInv
      <4>2. QED
        BY <1>10, <2>1, <3>2, <4>1 DEF Erase, Members
    <3>3. QED
      BY <3>1, <3>2
  <2>3. \A d \in Conns : Holds(d)' <=> Holds(d)
    BY <2>1 DEF Holds
  <2>4. \A o \in Members' : pc'[o] = "done" => o \in Members /\ pc[o] = "done"
    BY <1>3, <2>1, <2>2
  <2>5. QED
    BY <1>1, <2>1, <2>3, <2>4, StepFrame
<1>11. ASSUME NEW c \in Conns, Register(c) PROVE InStep'
  <2>1. Members' = Members \cup {c}
    BY <1>1, <1>11, AppendSet, MembersType DEF Register, Members, TypeInv
  <2>2. QED
    BY <1>1, <1>11, <2>1, HandlerKeeps DEF Register
<1>12. ASSUME NEW c \in Conns,
              \/ AdoptBack(c) \/ LoopCheck(c) \/ Disconnected(c) \/ ReadQuit(c)
              \/ UserList(c) \/ PmEnd(c) \/ \E t \in Typed : ReadUsername(c, t)
       PROVE  InStep'
  BY <1>1, <1>12, HandlerKeeps
     DEF AdoptBack, LoopCheck, Disconnected, ReadQuit, UserList, PmEnd, ReadUsername,
         Members
<1>13. ASSUME NEW c \in Conns, NEW kind, NEW to, ReadLine(c, kind, to) PROVE InStep'
  BY <1>1, <1>13, HandlerKeeps, BoundsAssumption DEF ReadLine, Members
<1>14. ASSUME NEW t \in Conns \cup {Console}, BroadcastEnd(t) PROVE InStep'
  <2>1. CASE t = Console
    BY <1>4, <1>14, <2>1 DEF BroadcastEnd
  <2>2. CASE t \in Conns
    <3> DEFINE l == IF pc[t] = "leave" THEN "depart" ELSE "loop"
    <3>1. /\ pc' = [pc EXCEPT ![t] = l] /\ Members' = Members
          /\ UNCHANGED <<fd, sock, proc, listening, apc, fresh>>
      BY <1>14, <2>2, ConnsAssumption DEF BroadcastEnd, Members
    <3>2. pc[t] \in {"join", "chat", "leave"}
      BY <1>1, <1>14, <2>2, ConnsAssumption
         DEF BroadcastEnd, Op, Broadcasts, TypeInv, TypeOK, HandlerPcs
    <3>3. l \notin LetGo
      OBVIOUS
    <3> HIDE DEF l
    <3>4. QED
      BY <1>1, <2>2, <3>1, <3>2, <3>3, HandlerKeeps
  <2>3. QED
    BY <2>1, <2>2
<1>15. CASE SweepClient
  <2>1. /\ ~listening /\ Members' = Members
        /\ UNCHANGED <<listening, sock, pc, proc, apc, fresh>>
        /\ \A h \in Handles : fd'[h] \in {fd[h], None}
    BY <1>15 DEF SweepClient, StopInv, Members, Closed
  <2>2. \A d \in Conns : Holds(d)' <=> Holds(d)
    BY <2>1 DEF Holds
  <2>3. OpenHeld'
    BY <2>1, <2>2, ConnsAssumption DEF InStep, OpenHeld
  <2>4. HeldOwn'
    BY <2>1, <2>2 DEF InStep, HeldOwn
  <2>5. QED
    BY <2>1, <2>3, <2>4 DEF InStep, EndedErased
<1>16. CASE SweepEnd
  <2>1. Members' = {} /\ UNCHANGED <<fd, sock, proc, listening, apc, fresh, pc>>
    BY <1>16, EmptySeq DEF SweepEnd, Members, ToSet
  <2>2. QED
    BY <1>1, <2>1, StepFrame DEF Holds
<1>17. CASE Exit \/ Crash \/ TerminateAtLinks
  <2>1. PICK how \in {"exited", "crashed"} : EndOfProcess(how)
    BY <1>17 DEF TerminateAtLinks, Exit, Crash
  <2>2. /\ \A d \in Conns : ~Holds(d)'
        /\ \A h \in Handles : fd'[h] = None
    BY <2>1 DEF EndOfProcess, Holds
  <2>3. proc' # "up"
    BY <2>1 DEF EndOfProcess
  <2>4. QED
    BY <2>2, <2>3, ConnsAssumption DEF InStep, OpenHeld, HeldOwn, EndedErased
<1>18. ~KickEnd
  BY DEF KickEnd, StopInv, Undisturbed
<1>19. CASE LinkWork
  BY <1>4, <1>19, LinkFrame
<1>20. QED
  BY <1>4, <1>5, <1>6, <1>7, <1>8, <1>9, <1>10, <1>11, <1>12, <1>13, <1>14, <1>15,
     <1>16, <1>17, <1>18, <1>19
     DEF Next, Environment, Server, Operator, AcceptorWork, HandlerWork, HandlerReads,
         ConsoleWork, LoopStep, ReadChat, ReadPm, ReadList, Halted, vars,
         PeerLeaves, PeerStalls, PeerResumes, AcceptLoop, AcceptFails, Lock, LoopTest,
         BroadcastSend, BroadcastCommand, KickCommand, StopCommand, ClearRunning,
         CloseListener, LinkWork
-----------------------------------------------------------------------------
(* The senders.                                                             *)

\* The handler processes a line.
Busy == {"chat", "pm", "list"}

LEMMA SourceFrame ==
  ASSUME SourceOwn,
         \A c \in Conns : pc'[c] \in Busy => pc[c] \in Busy /\ line'[c] = line[c]
  PROVE  SourceOwn'
BY DEF SourceOwn, Busy

LEMMA SourceStep ==
  ASSUME IInv, Undisturbed, InStep, SourceOwn, Next
  PROVE  SourceOwn'
<1> USE DEF Busy
<1>1. TypeInv /\ PhaseInv
  BY DEF IInv
<1>2. ASSUME NEW c \in Conns, NEW kind, NEW to, ReadLine(c, kind, to) PROVE SourceOwn'
  <2>1. ptr[c] = c /\ Holds(c)
    BY <1>1, <1>2, ConnsAssumption
       DEF ReadLine, Undisturbed, OwnClient, TypeInv, Working, Holds, LetGo
  <2>2. fd[sock[c]] = c
    BY <1>2, <2>1 DEF ReadLine, RecvGets, Connected, InStep, HeldOwn
  <2>3. /\ line' = [line EXCEPT ![c] = [to |-> to, src |-> c, n |-> said']]
        /\ pc' = [pc EXCEPT ![c] = kind]
    BY <1>2, <2>1, <2>2 DEF ReadLine
  <2>4. line'[c].src = c /\ \A d \in Conns \ {c} : line'[d] = line[d] /\ pc'[d] = pc[d]
    BY <1>1, <2>3 DEF TypeInv, TypeOK
  <2>5. QED
    BY <2>4 DEF SourceOwn
<1>3. ASSUME NEW c \in Conns, NEW l, l \notin Busy, pc' = [pc EXCEPT ![c] = l],
             line' = line \/ line' = [line EXCEPT ![c] = NoLine]
      PROVE  SourceOwn'
  BY <1>1, <1>3, SourceFrame DEF TypeInv, TypeOK
<1>4. CASE UNCHANGED <<pc, line>>
  BY <1>4, SourceFrame
<1>5. ASSUME NEW t \in Conns \cup {Console}, BroadcastEnd(t) PROVE SourceOwn'
  <2>1. CASE t = Console
    BY <1>4, <1>5, <2>1 DEF BroadcastEnd
  <2>2. CASE t \in Conns
    <3> DEFINE l == IF pc[t] = "leave" THEN "depart" ELSE "loop"
    <3>1. pc' = [pc EXCEPT ![t] = l] /\ line' = [line EXCEPT ![t] = NoLine]
      BY <1>5, <2>2, ConnsAssumption DEF BroadcastEnd
    <3>2. l \notin Busy
      OBVIOUS
    <3> HIDE DEF l
    <3>3. QED
      BY <1>3, <2>2, <3>1, <3>2
  <2>3. QED
    BY <2>1, <2>2
<1>6. CASE Admit
  BY <1>1, <1>3, <1>6 DEF Admit, TypeInv
<1>7. ASSUME NEW c \in Conns,
             \/ NoUsername(c) \/ RejectName(c) \/ Register(c) \/ AdoptBack(c)
             \/ \E t \in Typed : ReadUsername(c, t)
      PROVE  SourceOwn'
  BY <1>3, <1>7 DEF NoUsername, RejectName, Register, AdoptBack, ReadUsername
<1>8. ASSUME NEW c \in Conns,
             \/ LoopCheck(c) \/ Disconnected(c) \/ ReadQuit(c)
             \/ UserList(c) \/ PmEnd(c) \/ Depart(c) \/ Erase(c)
      PROVE  SourceOwn'
  BY <1>3, <1>8 DEF LoopCheck, Disconnected, ReadQuit, UserList, PmEnd, Depart, Erase
<1>9. CASE \E how : EndOfProcess(how)
  BY <1>9, SourceFrame DEF EndOfProcess
<1>10. QED
  BY <1>2, <1>4, <1>5, <1>6, <1>7, <1>8, <1>9
     DEF Next, Environment, Server, Operator, AcceptorWork, HandlerWork, HandlerReads,
         ConsoleWork, LoopStep, ReadChat, ReadPm, ReadList, Halted, vars,
         PeerLeaves, PeerStalls, PeerResumes, AcceptLoop, Accept, AcceptFails, Refuse,
         Lock, LoopTest, BroadcastSend, BroadcastCommand, KickCommand, KickEnd,
         StopCommand, ClearRunning, CloseListener, SweepClient, SweepEnd, ConnectCommand,
         RemoteSpeaks, RemoteCloses, JoinLinks, TerminateAtLinks, Exit, Crash

\* A send adds a chat message only under the name of the one who typed it.
LEMMA SenderFrame ==
  ASSUME TypeOK, RightSender, NEW h, NEW m \in Messages, inbox' = Sent(h, m),
         m.kind = "chat" => m.from = m.line.src
  PROVE  RightSender'
<1>1. ASSUME NEW d \in Conns, NEW i \in DOMAIN inbox'[d], inbox'[d][i].kind = "chat"
      PROVE  inbox'[d][i].from = inbox'[d][i].line.src
  BY <1>1, SentElements DEF RightSender
<1>2. QED
  BY <1>1 DEF RightSender

LEMMA SenderStep ==
  ASSUME IInv, Undisturbed, SourceOwn, RightSender, Next
  PROVE  RightSender'
<1>1. TypeInv /\ TypeOK
  BY DEF IInv, TypeInv
<1>2. ASSUME NEW t \in Conns \cup {Console}, BroadcastSend(t) PROVE RightSender'
  <2>1. Text(t) \in Messages /\ inbox' = Sent(sock[clients[pos]], Text(t))
    BY <1>1, <1>2, TextType DEF BroadcastSend
  <2>2. Text(t).kind = "chat" => t \in Conns /\ pc[t] = "chat"
    BY <1>1 DEF Text, Op, TypeOK
  <2>3. ASSUME t \in Conns, pc[t] = "chat" PROVE Text(t).from = Text(t).line.src
    <3>1. Text(t) = [kind |-> "chat", from |-> ptr[t], line |-> line[t]]
      BY <2>3, ConnsAssumption DEF Text, Op
    <3>2. ptr[t] = t /\ line[t].src = t
      BY <1>1, <2>3, ConnsAssumption
         DEF Undisturbed, OwnClient, TypeInv, Working, SourceOwn
    <3>3. QED
      BY <3>1, <3>2
  <2>4. QED
    BY <1>1, <2>1, <2>2, <2>3, SenderFrame
<1>3. ASSUME NEW c \in Conns, PmEnd(c) PROVE RightSender'
  <2> DEFINE m == [kind |-> "pm", from |-> ptr[c], line |-> line[c]]
  <2>1. m \in Messages
    BY <1>1, <1>3 DEF TypeInv, TypeOK, PmEnd, Working, Messages
  <2>2. inbox' = inbox \/ inbox' = Sent(sock[clients[pos]], m)
    BY <1>3 DEF PmEnd
  <2>3. QED
    BY <1>1, <2>1, <2>2, SenderFrame DEF RightSender
<1>4. ASSUME NEW h, NEW k \in {"list", "full", "taken", "kicked", "shutdown"},
             inbox' = Sent(h, [kind |-> k])
      PROVE  RightSender'
  <2>1. [kind |-> k] \in Messages
    BY DEF Messages
  <2>2. QED
    BY <1>1, <1>4, <2>1, SenderFrame
<1>5. CASE inbox' = inbox
  BY <1>5 DEF RightSender
<1>6. ASSUME NEW c \in Conns, UserList(c) \/ RejectName(c) PROVE RightSender'
  BY <1>4, <1>6 DEF UserList, RejectName
<1>7. CASE Refuse \/ SweepClient
  BY <1>4, <1>7 DEF Refuse, SweepClient
<1>8. CASE KickEnd
  BY <1>4, <1>5, <1>8 DEF KickEnd
<1>9. QED
  BY <1>2, <1>3, <1>5, <1>6, <1>7, <1>8
     DEF Next, Environment, Server, Operator, AcceptorWork, HandlerWork, HandlerReads,
         ConsoleWork, LoopStep, ReadChat, ReadPm, ReadList, Halted, vars,
         PeerLeaves, PeerStalls, PeerResumes, AcceptLoop, Accept, AcceptFails, Admit,
         NoUsername, ReadUsername, Register, AdoptBack, Lock, LoopTest,
         BroadcastEnd, LoopCheck, Disconnected, ReadLine, ReadQuit, Depart, Erase,
         BroadcastCommand, KickCommand, StopCommand, ClearRunning, CloseListener,
         SweepEnd, ConnectCommand,
         RemoteSpeaks, RemoteCloses, JoinLinks, TerminateAtLinks, Exit, Crash, EndOfProcess
-----------------------------------------------------------------------------
(* The properties.                                                          *)

LEMMA HInvInit == Init => HInv
<1> SUFFICES ASSUME Init PROVE HInv
  OBVIOUS
<1>1. PtrInv /\ StopInv
  BY DEF Init, PtrInv, StopInv
<1>2. \A c \in Conns : ~Holds(c)
  BY DEF Init, Holds, LetGo
<1>3. InStep
  <2>1. Members = {}
    BY EmptySeq DEF Init, Members, ToSet
  <2>2. OpenHeld
    BY ConnsAssumption DEF Init, OpenHeld
  <2>3. QED
    BY <1>2, <2>1, <2>2 DEF InStep, HeldOwn, EndedErased
<1>4. SourceOwn /\ RightSender
  BY EmptySeq DEF Init, SourceOwn, RightSender
<1>5. QED
  BY <1>1, <1>3, <1>4, IInvInit DEF HInv, OwnInv

LEMMA HInvStep == HInv /\ [Next]_vars => HInv'
<1> SUFFICES ASSUME HInv, [Next]_vars PROVE HInv'
  OBVIOUS
<1>1. IInv'
  BY IInvStep DEF HInv
<1>2. CASE Next
  <2>1. PtrInv' /\ StopInv'
    BY <1>2, PtrStep, StopStep DEF HInv, IInv
  <2>2. Undisturbed' => Undisturbed
    BY <1>2, DisturbedStays DEF HInv, IInv, Undisturbed
  <2>3. Undisturbed => OwnInv'
    BY <1>2, InStepStep, SourceStep, SenderStep DEF HInv, OwnInv
  <2>4. QED
    BY <1>1, <2>1, <2>2, <2>3 DEF HInv
<1>3. CASE UNCHANGED vars
  <2>1. PtrInv' /\ StopInv' /\ (Undisturbed' => Undisturbed)
    BY <1>3 DEF vars, HInv, PtrInv, StopInv, Undisturbed, OwnClient
  <2>2. OwnInv => OwnInv'
    BY <1>3 DEF vars, OwnInv, InStep, OpenHeld, HeldOwn, EndedErased, Members, Holds,
                SourceOwn, RightSender
  <2>3. QED
    BY <1>1, <2>1, <2>2 DEF HInv
<1>4. QED
  BY <1>2, <1>3

\* For any connections, handles and bounds: unless a handler took another's object
\* or the operator kicked, the handle in a Client is its own connection or closed
\* until its handler let go of it, however often handles are given out again.
THEOREM HandlesAreOwn == Spec => []UndisturbedHandles
<1>1. HInv => UndisturbedHandles
  BY DEF HInv, OwnInv, InStep, HeldOwn, Holds, LetGo, UndisturbedHandles, OwnHandle
<1>2. QED
  BY <1>1, HInvInit, HInvStep, PTL DEF Spec

\* Without those two races no active client loses its connection before stop():
\* an active client in the vector has a handler that still holds it, and the
\* listener is open as long as running is set.
THEOREM ActiveStayConnected == Spec => []UndisturbedConnected
<1>1. HInv => UndisturbedConnected
  <2>1. SUFFICES ASSUME HInv, Undisturbed, proc = "up", running,
                        NEW o \in Members, active[o]
                 PROVE  \E h \in Handles : fd[h] = o
    BY DEF UndisturbedConnected, ActiveIsConnected
  <2>2. o \in Conns /\ pc[o] \notin Early /\ TypeInv
    <3>1. TypeInv /\ TypeOK /\ PhaseInv
      BY <2>1 DEF HInv, IInv, TypeInv
    <3>2. QED
      BY <2>1, <3>1, MembersType DEF PhaseInv
  <2>3. pc[o] # "erase"
    <3>1. pc[o] = "erase" => ptr[o] = o /\ ~active[ptr[o]]
      BY <2>1, <2>2, ConnsAssumption
         DEF HInv, IInv, EraseInv, TypeInv, Working, Undisturbed, OwnClient
    <3>2. QED
      BY <2>1, <3>1
  <2>4. Holds(o)
    BY <2>1, <2>2, <2>3 DEF HInv, OwnInv, InStep, EndedErased, Holds, LetGo, Early
  <2>5. listening
    BY <2>1 DEF HInv, StopInv
  <2>6. QED
    BY <2>1, <2>2, <2>4, <2>5 DEF HInv, OwnInv, InStep, HeldOwn
<1>2. QED
  BY <1>1, HInvInit, HInvStep, PTL DEF Spec

\* Without those two races processMessage never relays one user's text under the
\* name of another, because a handler only ever reads its own connection.
THEOREM SendersAreRight == Spec => []UndisturbedSender
<1>1. HInv => UndisturbedSender
  BY DEF HInv, OwnInv, UndisturbedSender
<1>2. QED
  BY <1>1, HInvInit, HInvStep, PTL DEF Spec
=============================================================================
