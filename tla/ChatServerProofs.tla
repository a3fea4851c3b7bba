-------------------------- MODULE ChatServerProofs --------------------------
(***************************************************************************)
(* Proofs about ChatServer for any connections, handles, names and bounds.  *)
(* The inductive invariant IInv says where each Client object is (PhaseInv),*)
(* what the owner of clients_mutex knows of the elements its loop passed    *)
(* (LoopInv), that an object is inactive when its handler erases it         *)
(* (EraseInv) and that no thread outlives the process (EndInv), beside the  *)
(* two invariants of the table that are wanted.                             *)
(***************************************************************************)
EXTENDS ChatServer, TLAPS, SequenceTheorems

LEMMA RemoveAtFacts ==
  ASSUME NEW S, NEW s \in Seq(S), NEW i \in 1..Len(s)
  PROVE  /\ RemoveAt(s, i) \in Seq(S)
         /\ Len(RemoveAt(s, i)) = Len(s) - 1
         /\ \A j \in 1..(Len(s) - 1) :
              RemoveAt(s, i)[j] = IF j < i THEN s[j] ELSE s[j + 1]
<1> DEFINE front == SubSeq(s, 1, i - 1)
           rear == SubSeq(s, i + 1, Len(s))
<1>1. /\ front \in Seq(S) /\ Len(front) = i - 1
      /\ \A j \in 1..(i - 1) : front[j] = s[j]
  BY SubSeqProperties
<1>2. /\ rear \in Seq(S) /\ Len(rear) = Len(s) - i
      /\ \A j \in 1..(Len(s) - i) : rear[j] = s[i + j]
  BY SubSeqProperties
<1>3. RemoveAt(s, i) = front \o rear
  BY DEF RemoveAt
<1> HIDE DEF front, rear
<1>4. /\ front \o rear \in Seq(S)
      /\ Len(front \o rear) = Len(front) + Len(rear)
      /\ \A j \in 1..(Len(front) + Len(rear)) :
           (front \o rear)[j] = IF j <= Len(front) THEN front[j] ELSE rear[j - Len(front)]
  BY <1>1, <1>2, ConcatProperties
<1>5. Len(s) \in Nat
  BY LenProperties
<1>6. ASSUME NEW j \in 1..(Len(s) - 1)
      PROVE  (front \o rear)[j] = IF j < i THEN s[j] ELSE s[j + 1]
  <2>1. CASE j < i
    BY <1>1, <1>2, <1>4, <1>5, <2>1
  <2>2. CASE ~(j < i)
    <3>1. (front \o rear)[j] = rear[j - (i - 1)]
      BY <1>1, <1>2, <1>4, <1>5, <2>2
    <3>2. j - (i - 1) \in 1..(Len(s) - i) /\ i + (j - (i - 1)) = j + 1
      BY <1>5, <2>2
    <3>3. QED
      BY <1>2, <2>2, <3>1, <3>2
  <2>3. QED
    BY <2>1, <2>2
<1>7. QED
  BY <1>1, <1>2, <1>3, <1>4, <1>5, <1>6

LEMMA AppendSet ==
  ASSUME NEW S, NEW s \in Seq(S), NEW e \in S
  PROVE  ToSet(Append(s, e)) = ToSet(s) \cup {e}
<1>1. /\ Len(Append(s, e)) = Len(s) + 1 /\ Append(s, e)[Len(s) + 1] = e
      /\ \A i \in 1..Len(s) : Append(s, e)[i] = s[i]
      /\ DOMAIN Append(s, e) = 1..(Len(s) + 1)
      /\ Len(s) \in Nat /\ DOMAIN s = 1..Len(s)
  BY AppendProperties, LenProperties
<1>2. 1..(Len(s) + 1) = 1..Len(s) \cup {Len(s) + 1}
  BY <1>1
<1>3. QED
  BY <1>1, <1>2 DEF ToSet

\* A sequence that holds each element once.
Distinct(s) == \A i, j \in DOMAIN s : s[i] = s[j] => i = j

LEMMA AppendDistinct ==
  ASSUME NEW S, NEW s \in Seq(S), NEW e \in S, Distinct(s), e \notin ToSet(s)
  PROVE  Distinct(Append(s, e))
<1>1. /\ Len(Append(s, e)) = Len(s) + 1 /\ Append(s, e)[Len(s) + 1] = e
      /\ \A i \in 1..Len(s) : Append(s, e)[i] = s[i]
      /\ DOMAIN Append(s, e) = 1..(Len(s) + 1)
      /\ Len(s) \in Nat /\ DOMAIN s = 1..Len(s)
  BY AppendProperties, LenProperties
<1>2. \A i \in 1..Len(s) : s[i] # e
  BY <1>1 DEF ToSet
<1>3. QED
  BY <1>1, <1>2 DEF Distinct

LEMMA RemoveAtSet ==
  ASSUME NEW S, NEW s \in Seq(S), NEW i \in 1..Len(s), Distinct(s)
  PROVE  /\ Distinct(RemoveAt(s, i))
         /\ ToSet(RemoveAt(s, i)) = ToSet(s) \ {s[i]}
<1> DEFINE r == RemoveAt(s, i)
<1>1. /\ Len(s) \in Nat /\ DOMAIN s = 1..Len(s)
      /\ r \in Seq(S) /\ DOMAIN r = 1..(Len(s) - 1)
      /\ \A j \in 1..(Len(s) - 1) : r[j] = IF j < i THEN s[j] ELSE s[j + 1]
  BY RemoveAtFacts, LenProperties
<1> HIDE DEF r
<1>2. Distinct(r)
  <2> DEFINE from(j) == IF j < i THEN j ELSE j + 1
  <2>1. \A j \in DOMAIN r : from(j) \in DOMAIN s /\ r[j] = s[from(j)]
    BY <1>1
  <2>2. \A j, k \in DOMAIN r : from(j) = from(k) => j = k
    BY <1>1
  <2> HIDE DEF from
  <2>3. QED
    BY <2>1, <2>2 DEF Distinct
<1>3. ASSUME NEW e \in ToSet(r) PROVE e \in ToSet(s) \ {s[i]}
  BY <1>1, <1>3, SMTT(30) DEF ToSet, Distinct
<1>4. ASSUME NEW e \in ToSet(s) \ {s[i]} PROVE e \in ToSet(r)
  <2>1. PICK j \in 1..Len(s) : s[j] = e /\ j # i
    BY <1>1, <1>4 DEF ToSet
  <2>2. CASE j < i
    BY <1>1, <2>1, <2>2, SMTT(30) DEF ToSet
  <2>3. CASE i < j
    <3>1. j - 1 \in 1..(Len(s) - 1) /\ r[j - 1] = s[j]
      BY <1>1, <2>1, <2>3
    <3>2. QED
      BY <1>1, <2>1, <3>1 DEF ToSet
  <2>4. QED
    BY <2>1, <2>2, <2>3, <1>1
<1>5. QED
  BY <1>2, <1>3, <1>4 DEF r

-----------------------------------------------------------------------------
(* Types.                                                                   *)

\* The handler is past clients.back(): its client_ptr is set.
Working ==
  {"join", "loop", "recv", "chat", "pm", "list", "leave", "depart", "erase"}

TypeInv ==
  /\ TypeOK
  /\ \A c \in Conns : pc[c] \in Working => ptr[c] \in Conns
  /\ apc = "admit" => fresh \in Conns
  /\ cpc \in {"flag", "listener", "sweep"} => stops \in 1..2

USE DEF serverVars, lockVars, tableVars, netVars, acceptorVars, handlerVars,
        consoleVars, outsideHandlers, outsideConsole, outsideAcceptor

LEMMA SentType ==
  ASSUME TypeOK, NEW h, NEW m \in Messages
  PROVE  Sent(h, m) \in [Conns -> Seq(Messages)]
  BY DEF Sent, TypeOK, Connected

\* What a send does to the inboxes: they keep what they hold, and at most the
\* message comes last in the one of the connection behind the handle.
LEMMA SentElements ==
  ASSUME TypeOK, NEW h, NEW m \in Messages, inbox' = Sent(h, m), NEW d \in Conns
  PROVE  /\ \A i \in DOMAIN inbox[d] :
              i \in DOMAIN inbox'[d] /\ inbox'[d][i] = inbox[d][i]
         /\ \A i \in DOMAIN inbox'[d] :
              \/ i \in DOMAIN inbox[d]
              \/ /\ inbox'[d][i] = m /\ m.kind \in Observed
                 /\ \A j \in DOMAIN inbox'[d] : j <= i
<1>1. inbox[d] \in Seq(Messages)
  BY DEF TypeOK
<1>2. CASE inbox'[d] = inbox[d]
  BY <1>2
<1>3. CASE inbox'[d] = Append(inbox[d], m) /\ m.kind \in Observed
  <2>1. /\ DOMAIN inbox[d] = 1..Len(inbox[d]) /\ Len(inbox[d]) \in Nat
        /\ DOMAIN inbox'[d] = 1..(Len(inbox[d]) + 1)
        /\ inbox'[d][Len(inbox[d]) + 1] = m
        /\ \A i \in 1..Len(inbox[d]) : inbox'[d][i] = inbox[d][i]
    BY <1>1, <1>3, AppendProperties, LenProperties
  <2>2. \A i \in 1..(Len(inbox[d]) + 1) :
          /\ i \in 1..Len(inbox[d]) \/ i = Len(inbox[d]) + 1
          /\ i <= Len(inbox[d]) + 1
    BY <2>1
  <2>3. QED
    BY <1>3, <2>1, <2>2
<1>4. QED
  BY <1>2, <1>3 DEF Sent, Connected, TypeOK

LEMMA ClosedType ==
  ASSUME TypeOK, NEW h
  PROVE  Closed(h) \in [Handles -> Conns \cup {None}]
  BY DEF Closed, TypeOK

LEMMA UnlockType ==
  ASSUME Unlock
  PROVE  /\ mutex' \in Conns \cup {Console, Unlocked}
         /\ pos' \in Nat \ {0}
         /\ hit' \in BOOLEAN
<1>1. hit' \in BOOLEAN
  BY Zenon DEF Unlock
<1>2. QED
  BY <1>1 DEF Unlock

LEMMA NextElementType ==
  ASSUME TypeOK, NextElement
  PROVE  /\ mutex' \in Conns \cup {Console, Unlocked}
         /\ pos' \in Nat \ {0}
         /\ hit' \in BOOLEAN
<1>1. hit' \in BOOLEAN
  BY Zenon DEF NextElement
<1>2. QED
  BY <1>1 DEF NextElement, TypeOK

LEMMA NoLineType == NoLine \in Lines
  BY BoundsAssumption DEF NoLine, Lines

LEMMA TextType ==
  ASSUME TypeInv, NEW t \in Conns \cup {Console}, Op(t) \in Broadcasts
  PROVE  Text(t) \in Messages
<1>1. CASE t = Console
  BY <1>1 DEF TypeInv, TypeOK, Op, Broadcasts, Text, Messages
<1>2. CASE t \in Conns
  <2>1. Op(t) = pc[t] /\ pc[t] \in {"join", "chat", "leave"}
    BY <1>2, ConnsAssumption DEF TypeInv, TypeOK, Op, Broadcasts, HandlerPcs
  <2>2. ptr[t] \in Conns /\ line[t] \in Lines
    BY <1>2, <2>1 DEF TypeInv, TypeOK, Working
  <2>3. QED
    BY <2>1, <2>2 DEF Text, Messages
<1>3. QED
  BY <1>1, <1>2

\* What becomes of the connection to another server.
LinkWork == ConnectCommand \/ RemoteSpeaks \/ RemoteCloses \/ JoinLinks

\* It touches nothing but that connection and the console's way to its end.
LEMMA LinkFrame ==
  ASSUME LinkWork
  PROVE  /\ UNCHANGED <<proc, running, listening, lockVars, tableVars, netVars,
                        acceptorVars, handlerVars, target, issued, stops>>
         /\ (cpc' = cpc \/ (cpc = "links" /\ cpc' = "destroyed"))
BY DEF LinkWork, ConnectCommand, RemoteSpeaks, RemoteCloses, JoinLinks

LEMMA TypeStep ==
  ASSUME TypeInv, Next
  PROVE  TypeInv'
<1>1. ASSUME NEW c \in Conns, PeerLeaves(c) PROVE TypeInv'
  BY <1>1 DEF TypeInv, TypeOK, PeerLeaves, Working
<1>2. ASSUME NEW c \in Conns, PeerStalls(c) PROVE TypeInv'
  BY <1>2 DEF TypeInv, TypeOK, PeerStalls, Working
<1>3. CASE AcceptLoop
  BY <1>3 DEF TypeInv, TypeOK, AcceptLoop, Working
<1>4. ASSUME NEW c \in Conns, NEW h \in Handles, Accept(c, h) PROVE TypeInv'
  BY <1>4 DEF TypeInv, TypeOK, Accept, Working
<1>5. CASE AcceptFails
  BY <1>5 DEF TypeInv, TypeOK, AcceptFails, Working
<1>6. CASE Refuse
  BY <1>6, SentType, ClosedType DEF TypeInv, TypeOK, Refuse, Working, Messages
<1>7. CASE Admit
  BY <1>7 DEF TypeInv, TypeOK, Admit, Working, HandlerPcs
<1>8. ASSUME NEW c \in Conns, NoUsername(c) PROVE TypeInv'
  BY <1>8, ClosedType DEF TypeInv, TypeOK, NoUsername, Working, HandlerPcs
<1>9. ASSUME NEW c \in Conns, NEW t \in Typed, ReadUsername(c, t) PROVE TypeInv'
  BY <1>9 DEF TypeInv, TypeOK, ReadUsername, Working, HandlerPcs, RecvGets, Connected,
     Usernames
<1>10. ASSUME NEW c \in Conns, RejectName(c) PROVE TypeInv'
  BY <1>10, SentType, ClosedType
     DEF TypeInv, TypeOK, RejectName, Working, HandlerPcs, Messages
<1>11. ASSUME NEW c \in Conns, Register(c) PROVE TypeInv'
  BY <1>11 DEF TypeInv, TypeOK, Register, Working, HandlerPcs
<1>12. ASSUME NEW c \in Conns, AdoptBack(c) PROVE TypeInv'
  BY <1>12 DEF TypeInv, TypeOK, AdoptBack, Working, HandlerPcs, Last
<1>13. ASSUME NEW t \in Conns \cup {Console}, Lock(t) PROVE TypeInv'
  BY <1>13 DEF TypeInv, TypeOK, Lock, Working
<1>14. ASSUME NEW t, LoopTest(t) PROVE TypeInv'
  BY <1>14 DEF TypeInv, TypeOK, LoopTest, Ahead, Working
<1>15. ASSUME NEW t \in Conns \cup {Console}, BroadcastSend(t) PROVE TypeInv'
  BY <1>15, SentType, TextType, NextElementType DEF TypeInv, TypeOK, BroadcastSend, Working
<1>16. ASSUME NEW t \in Conns \cup {Console}, BroadcastEnd(t) PROVE TypeInv'
  <2>1. CASE t = Console
    BY <1>16, <2>1, UnlockType DEF TypeInv, TypeOK, BroadcastEnd, Working
  <2>2. CASE t \in Conns
    <3>1. t # Console /\ Unlock /\ pc[t] \in {"join", "chat", "leave"}
      BY <1>16, <2>2, ConnsAssumption
         DEF TypeInv, TypeOK, BroadcastEnd, HandlerPcs, Op, Broadcasts
    <3> DEFINE l == IF pc[t] = "leave" THEN "depart" ELSE "loop"
    <3>2. /\ pc' = [pc EXCEPT ![t] = l]
          /\ line' = [line EXCEPT ![t] = NoLine]
      BY <1>16, <3>1 DEF BroadcastEnd
    <3>3. /\ pc' \in [Conns -> HandlerPcs]
          /\ line' \in [Conns -> Lines]
          /\ \A c \in Conns : pc'[c] \in Working => pc[c] \in Working
      BY <2>2, <3>1, <3>2, NoLineType DEF TypeInv, TypeOK, HandlerPcs, Working
    <3>4. QED
      BY <1>16, <2>2, <3>1, <3>3, UnlockType DEF TypeInv, TypeOK, BroadcastEnd
  <2>3. QED
    BY <2>1, <2>2
<1>17. ASSUME NEW c \in Conns, LoopCheck(c) PROVE TypeInv'
  BY <1>17 DEF TypeInv, TypeOK, LoopCheck, Working, HandlerPcs
<1>18. ASSUME NEW c \in Conns, Disconnected(c) PROVE TypeInv'
  BY <1>18 DEF TypeInv, TypeOK, Disconnected, Working, HandlerPcs
<1>19. ASSUME NEW c \in Conns, NEW kind, NEW to \in Usernames \cup {Blank},
              ReadLine(c, kind, to)
       PROVE  TypeInv'
  <2>1. kind \in {"chat", "pm", "list"} /\ fd[sock[ptr[c]]] \in Conns /\ said' \in 0..MaxLines
    BY <1>19, BoundsAssumption DEF TypeInv, TypeOK, ReadLine, RecvGets, Connected
  <2>2. line' \in [Conns -> Lines]
    BY <1>19, <2>1 DEF TypeInv, TypeOK, ReadLine, Lines
  <2>3. QED
    BY <1>19, <2>1, <2>2 DEF TypeInv, TypeOK, ReadLine, Working, HandlerPcs
<1>20. ASSUME NEW c \in Conns, ReadQuit(c) PROVE TypeInv'
  BY <1>20 DEF TypeInv, TypeOK, ReadQuit, Working, HandlerPcs
<1>21. ASSUME NEW c \in Conns, UserList(c) PROVE TypeInv'
  <2>1. inbox' \in [Conns -> Seq(Messages)]
    BY <1>21, SentType DEF TypeInv, UserList, Messages
  <2>2. Unlock
    BY <1>21 DEF UserList
  <2>3. QED
    BY <1>21, <2>1, <2>2, UnlockType, NoLineType
       DEF TypeInv, TypeOK, UserList, Working, HandlerPcs
<1>22. ASSUME NEW c \in Conns, PmEnd(c) PROVE TypeInv'
  <2>1. [kind |-> "pm", from |-> ptr[c], line |-> line[c]] \in Messages
    BY <1>22 DEF TypeInv, TypeOK, PmEnd, Working, Messages
  <2>2. inbox' \in [Conns -> Seq(Messages)]
    BY <1>22, <2>1, SentType DEF TypeInv, TypeOK, PmEnd
  <2>3. QED
    <3>1. /\ pc' \in [Conns -> HandlerPcs]
          /\ line' \in [Conns -> Lines]
          /\ \A d \in Conns : pc'[d] \in Working => pc[d] \in Working
      BY <1>22, NoLineType DEF TypeInv, TypeOK, PmEnd, HandlerPcs, Working
    <3>2. Unlock
      BY <1>22 DEF PmEnd
    <3>3. QED
      BY <1>22, <2>2, <3>1, <3>2, UnlockType DEF TypeInv, TypeOK, PmEnd
<1>23. ASSUME NEW c \in Conns, Depart(c) PROVE TypeInv'
  BY <1>23, ClosedType DEF TypeInv, TypeOK, Depart, Working, HandlerPcs
<1>24. ASSUME NEW c \in Conns, Erase(c) PROVE TypeInv'
  <2>1. clients' \in Seq(Conns) /\ freed' \subseteq Conns
    BY <1>24, RemoveAtFacts, LenProperties DEF TypeInv, TypeOK, Erase, Working
  <2>2. QED
    BY <1>24, <2>1 DEF TypeInv, TypeOK, Erase, Working, HandlerPcs
<1>25. CASE BroadcastCommand
  BY <1>25, BoundsAssumption DEF TypeInv, TypeOK, BroadcastCommand, Working
<1>26. ASSUME NEW n \in Usernames, KickCommand(n) PROVE TypeInv'
  BY <1>26, BoundsAssumption DEF TypeInv, TypeOK, KickCommand, Working
<1>27. CASE KickEnd
  <2>1. [kind |-> "kicked"] \in Messages
    BY DEF Messages
  <2>2. /\ inbox' \in [Conns -> Seq(Messages)]
        /\ active' \in [Conns -> BOOLEAN]
        /\ fd' \in [Handles -> Conns \cup {None}]
    <3>1. CASE hit
      <4> DEFINE o == clients[pos]
      <4>1. /\ inbox' = Sent(sock[o], [kind |-> "kicked"])
            /\ active' = [active EXCEPT ![o] = FALSE]
            /\ fd' = Closed(sock[o])
        BY <1>27, <3>1 DEF KickEnd, AtLoopEnd
      <4>2. active' \in [Conns -> BOOLEAN]
        BY <4>1 DEF TypeInv, TypeOK
      <4>3. QED
        BY <2>1, <4>1, <4>2, SentType, ClosedType DEF TypeInv
    <3>2. CASE ~hit
      BY <1>27, <3>2 DEF TypeInv, TypeOK, KickEnd
    <3>3. QED
      BY <3>1, <3>2
  <2>3. Unlock
    BY <1>27 DEF KickEnd
  <2>4. QED
    BY <1>27, <2>2, <2>3, UnlockType DEF TypeInv, TypeOK, KickEnd
<1>28. ASSUME NEW k \in 1..2, StopCommand(k) PROVE TypeInv'
  BY <1>28 DEF TypeInv, TypeOK, StopCommand, Working
<1>29. CASE ClearRunning
  BY <1>29, ZenonT(40) DEF TypeInv, TypeOK, ClearRunning, Working
<1>30. CASE CloseListener
  BY <1>30, ZenonT(40) DEF TypeInv, TypeOK, CloseListener, Working
<1>31. CASE SweepClient
  BY <1>31, SentType, ClosedType, NextElementType, ZenonT(40)
     DEF TypeInv, TypeOK, SweepClient, Working, Messages
<1>32. CASE SweepEnd
  BY <1>32, EmptySeq, UnlockType DEF TypeInv, TypeOK, SweepEnd, Working, ToSet
<1>33. CASE Exit \/ Crash \/ TerminateAtLinks
  <2>1. \E how \in {"exited", "crashed"} : EndOfProcess(how)
    BY <1>33 DEF Exit, Crash, TerminateAtLinks
  <2>2. Unlock
    BY <2>1 DEF EndOfProcess
  <2>3. QED
    BY <2>1, <2>2, UnlockType DEF TypeInv, TypeOK, EndOfProcess, Working, HandlerPcs
<1>34. CASE UNCHANGED vars
  BY <1>34 DEF TypeInv, TypeOK, vars, Working
<1>35. CASE LinkWork
  <2>1. link' \in {"none", "silent", "spoke", "closed"}
    BY <1>35 DEF LinkWork, ConnectCommand, RemoteSpeaks, RemoteCloses, JoinLinks,
                 TypeInv, TypeOK
  <2>2. QED
    BY <1>35, <2>1, LinkFrame DEF TypeInv, TypeOK, Working
<1>36. ASSUME NEW c \in Conns, PeerResumes(c) PROVE TypeInv'
  BY <1>36 DEF TypeInv, TypeOK, PeerResumes, Working
<1>37. QED
  BY <1>1, <1>2, <1>3, <1>4, <1>5, <1>6, <1>7, <1>8, <1>9, <1>10, <1>11, <1>12, <1>13,
     <1>14, <1>15, <1>16, <1>17, <1>18, <1>19, <1>20, <1>21, <1>22, <1>23, <1>24, <1>25,
     <1>26, <1>27, <1>28, <1>29, <1>30, <1>31, <1>32, <1>33, <1>34, <1>35, <1>36
     DEF Next, Environment, Server, Operator, AcceptorWork, HandlerWork, HandlerReads,
         ConsoleWork, LoopStep, ReadChat, ReadPm, ReadList, Halted, LinkWork

\* Whatever the constants are, the variables of the server keep their types: in
\* particular stop() runs at most twice and the vector only holds Clients.
THEOREM TypeCorrect == Spec => []TypeOK
<1>1. Init => TypeInv
  <2>1. Init => /\ running \in BOOLEAN /\ listening \in BOOLEAN /\ hit \in BOOLEAN
    BY Zenon DEF Init
  <2>2. Init => active \in [Conns -> BOOLEAN]
    BY DEF Init
  <2>3. QED
    BY <2>1, <2>2, EmptySeq, NoLineType, BoundsAssumption
       DEF Init, TypeInv, TypeOK, Working, HandlerPcs
<1>2. TypeInv /\ [Next]_vars => TypeInv'
  <2>1. CASE UNCHANGED vars
    BY <2>1 DEF TypeInv, TypeOK, vars, Working
  <2>2. QED
    BY <2>1, TypeStep
<1>3. TypeInv => TypeOK
  BY DEF TypeInv
<1>4. QED
  BY <1>1, <1>2, <1>3, PTL DEF Spec
-----------------------------------------------------------------------------
(* The table.                                                               *)

\* The object belongs to the acceptor or to its handler alone.
Early == {"idle", "name", "register"}

\* Where the objects are: only one that is not in anybody's hands is accepted,
\* and until it is registered nothing else refers to it.
PhaseInv ==
  /\ apc = "admit" => pc[fresh] = "idle" /\ peer[fresh] # "away"
  /\ \A c \in Conns : peer[c] = "away" => pc[c] = "idle"
  /\ \A c \in Conns : pc[c] \in Early => c \notin Members /\ c \notin freed
  /\ \A c \in Conns : pc[c] \in Working => pc[ptr[c]] \notin Early

\* What the loops know of the elements they passed, and of the one they are at.
LoopInv ==
  /\ mutex = Unlocked => pos = 1 /\ ~hit
  /\ hit => pos \in DOMAIN clients
  /\ mutex = Console => cpc \in {"broadcast", "kick", "sweep"}
  /\ cpc = "sweep" /\ mutex = Console =>
       \A i \in DOMAIN clients : i < pos => ~active[clients[i]]
  /\ cpc = "kick" /\ mutex = Console =>
       \A i \in DOMAIN clients :
         active[clients[i]] /\ name[clients[i]] = target
           => IF hit THEN i = pos ELSE i >= pos

\* A handler erases what was deactivated.
EraseInv == \A c \in Conns : pc[c] = "erase" => ~active[ptr[c]]

\* A client has its name when it is registered.
NameInv ==
  \A c \in Conns : pc[c] = "register" \/ c \in Members => name[c] \in Usernames

\* No thread outlives the process.
EndInv ==
  proc # "up" =>
    /\ apc = "exit" /\ cpc = "exited" /\ mutex = Unlocked
    /\ \A c \in Conns : pc[c] \in {"idle", "done"}

IInv ==
  /\ TypeInv /\ PhaseInv /\ LoopInv /\ EraseInv /\ NameInv /\ EndInv
  /\ TableSound /\ UniqueActiveNames

LEMMA MembersType ==
  ASSUME TypeOK
  PROVE  /\ clients \in Seq(Conns) /\ Len(clients) \in Nat
         /\ DOMAIN clients = 1..Len(clients)
         /\ Members \subseteq Conns
BY LenProperties, ElementOfSeq DEF TypeOK, Members, ToSet

\* A handler whose object is known to others goes on.
LEMMA HandlerMoves ==
  ASSUME TypeInv, PhaseInv, NEW c \in Conns, NEW l, pc' = [pc EXCEPT ![c] = l],
         pc[c] \notin Early, l \notin Early, l \in Working => pc[c] \in Working,
         UNCHANGED <<apc, fresh, peer, ptr, clients, freed>>
  PROVE  PhaseInv'
<1>1. \A d \in Conns : pc'[d] = IF d = c THEN l ELSE pc[d]
  BY DEF TypeInv, TypeOK
<1>2. \A d \in Conns : pc'[d] \in Early => pc[d] \in Early
  BY <1>1
<1>3. \A d \in Conns : pc[d] = "idle" => pc'[d] = "idle"
  BY <1>1 DEF Early
<1>4. \A d \in Conns : pc[d] \notin Early => pc'[d] \notin Early
  BY <1>1
<1>5. Members' = Members
  BY DEF Members
<1>6. \A d \in Conns : pc'[d] \in Working => pc'[ptr'[d]] \notin Early
  <2>1. TAKE d \in Conns
  <2>2. HAVE pc'[d] \in Working
  <2>3. pc[d] \in Working
    BY <1>1, <2>2
  <2>4. ptr[d] \in Conns /\ pc[ptr[d]] \notin Early
    BY <2>3 DEF TypeInv, PhaseInv
  <2>5. QED
    BY <1>4, <2>4
<1>7. QED
  BY <1>2, <1>3, <1>5, <1>6 DEF TypeInv, PhaseInv

LEMMA PhaseFrame ==
  ASSUME TypeInv, PhaseInv, UNCHANGED <<pc, ptr, clients, freed>>,
         \A c \in Conns : peer'[c] = "away" => peer[c] = "away",
         apc' = "admit" => apc = "admit" /\ fresh' = fresh
  PROVE  PhaseInv'
BY DEF TypeInv, PhaseInv, Members

LEMMA PhaseStep ==
  ASSUME TypeInv, PhaseInv, TableSound, Next
  PROVE  PhaseInv'
<1> USE DEF Early
<1>1. ASSUME NEW c \in Conns, PeerLeaves(c) \/ PeerStalls(c) \/ PeerResumes(c) PROVE PhaseInv'
  BY <1>1, PhaseFrame DEF PeerLeaves, PeerStalls, PeerResumes, TypeInv, TypeOK
<1>2. CASE AcceptLoop \/ AcceptFails \/ Refuse \/ LinkWork
  BY <1>2, PhaseFrame, LinkFrame DEF AcceptLoop, AcceptFails, Refuse
<1>3. ASSUME NEW c \in Conns, NEW h \in Handles, Accept(c, h) PROVE PhaseInv'
  BY <1>3 DEF Accept, TypeInv, TypeOK, PhaseInv, Members
<1>4. CASE Admit
  BY <1>4 DEF Admit, TypeInv, TypeOK, PhaseInv, Members, Working
<1>5. ASSUME NEW c \in Conns, NoUsername(c) \/ RejectName(c) PROVE PhaseInv'
  <2>1. /\ pc[c] \in Early /\ pc[c] # "idle" /\ pc' = [pc EXCEPT ![c] = "done"]
        /\ freed' = freed \cup {c}
        /\ UNCHANGED <<clients, ptr, peer, apc, fresh>>
    BY <1>5 DEF NoUsername, RejectName
  <2>2. Members' = Members
    BY <2>1 DEF Members
  <2>3. QED
    BY <2>1, <2>2 DEF TypeInv, TypeOK, PhaseInv, Working
<1>6. ASSUME NEW c \in Conns, NEW t \in Typed, ReadUsername(c, t) PROVE PhaseInv'
  BY <1>6 DEF ReadUsername, TypeInv, TypeOK, PhaseInv, Members, Working
<1>7. ASSUME NEW c \in Conns, Register(c) PROVE PhaseInv'
  <2>1. Members' = Members \cup {c}
    BY <1>7, AppendSet, MembersType DEF Register, Members, TypeInv
  <2>2. QED
    BY <1>7, <2>1 DEF Register, TypeInv, TypeOK, PhaseInv, Working
<1>8. ASSUME NEW c \in Conns, AdoptBack(c) PROVE PhaseInv'
  <2>1. Last(clients) \in Members
    BY <1>8, MembersType, EmptySeq DEF AdoptBack, Members, Last, ToSet, TypeInv
  <2>2. Last(clients) \in Conns /\ pc[Last(clients)] \notin Early
    BY <2>1, MembersType DEF TypeInv, PhaseInv
  <2>3. Members' = Members
    BY <1>8 DEF AdoptBack, Members
  <2>4. QED
    BY <1>8, <2>2, <2>3 DEF AdoptBack, TypeInv, TypeOK, PhaseInv, Working
<1>9. ASSUME NEW t \in Conns \cup {Console},
             Lock(t) \/ LoopTest(t) \/ BroadcastSend(t)
      PROVE  PhaseInv'
  BY <1>9, PhaseFrame DEF Lock, LoopTest, BroadcastSend
<1>10. ASSUME NEW t \in Conns \cup {Console}, BroadcastEnd(t) PROVE PhaseInv'
  <2>1. CASE t = Console
    BY <1>10, <2>1, PhaseFrame DEF BroadcastEnd
  <2>2. CASE t \in Conns
    <3> DEFINE l == IF pc[t] = "leave" THEN "depart" ELSE "loop"
    <3>1. pc' = [pc EXCEPT ![t] = l] /\ UNCHANGED <<apc, fresh, peer, ptr, clients, freed>>
      BY <1>10, <2>2, ConnsAssumption DEF BroadcastEnd
    <3>2. pc[t] \in Working /\ pc[t] \notin Early
      BY <1>10, <2>2, ConnsAssumption
         DEF BroadcastEnd, Op, Broadcasts, TypeInv, TypeOK, HandlerPcs, Working
    <3>3. QED
      BY <2>2, <3>1, <3>2, HandlerMoves DEF Working
  <2>3. QED
    BY <2>1, <2>2
<1>11. ASSUME NEW c \in Conns,
              LoopCheck(c) \/ Disconnected(c) \/ ReadQuit(c) \/ UserList(c) \/ Depart(c)
       PROVE  PhaseInv'
  BY <1>11, HandlerMoves
     DEF LoopCheck, Disconnected, ReadQuit, UserList, Depart, Working
<1>12. ASSUME NEW c \in Conns, PmEnd(c) PROVE PhaseInv'
  BY <1>12, HandlerMoves DEF PmEnd, Working
<1>13. ASSUME NEW c \in Conns, NEW kind, NEW to, ReadLine(c, kind, to)
       PROVE  PhaseInv'
  BY <1>13, HandlerMoves, BoundsAssumption DEF ReadLine, Working
<1>14. ASSUME NEW c \in Conns, Erase(c) PROVE PhaseInv'
  <2>1. Members' \subseteq Members /\ freed' \subseteq freed \cup {ptr[c]}
    BY <1>14, MembersType, RemoveAtSet
       DEF Erase, Members, TableSound, Distinct, TypeInv
  <2>2. pc[c] \in Working /\ ptr[c] \in Conns /\ pc[ptr[c]] \notin Early
    BY <1>14 DEF Erase, TypeInv, PhaseInv, Working
  <2>3. QED
    BY <1>14, <2>1, <2>2 DEF Erase, TypeInv, TypeOK, PhaseInv, Working
<1>15. CASE BroadcastCommand \/ (\E n \in Usernames : KickCommand(n)) \/ KickEnd
  BY <1>15, PhaseFrame DEF BroadcastCommand, KickCommand, KickEnd
<1>16. CASE \/ \E k \in 1..2 : StopCommand(k)
            \/ ClearRunning \/ CloseListener \/ SweepClient
  BY <1>16, PhaseFrame DEF StopCommand, ClearRunning, CloseListener, SweepClient
<1>17. CASE SweepEnd
  <2>1. Members' = {} /\ freed' = freed \cup Members
    BY <1>17, EmptySeq DEF SweepEnd, Members, ToSet
  <2>2. QED
    BY <1>17, <2>1 DEF SweepEnd, TypeInv, TypeOK, PhaseInv
<1>18. CASE Exit \/ Crash \/ TerminateAtLinks \/ UNCHANGED vars
  <2>1. CASE UNCHANGED vars
    BY <2>1, PhaseFrame DEF vars
  <2>2. CASE \E how : EndOfProcess(how)
    BY <2>2 DEF EndOfProcess, TypeInv, PhaseInv, Members, Working
  <2>3. QED
    BY <1>18, <2>1, <2>2 DEF Exit, Crash, TerminateAtLinks
<1>19. QED
  BY <1>1, <1>2, <1>3, <1>4, <1>5, <1>6, <1>7, <1>8, <1>9, <1>10, <1>11, <1>12, <1>13,
     <1>14, <1>15, <1>16, <1>17, <1>18
     DEF Next, Environment, Server, Operator, AcceptorWork, HandlerWork, HandlerReads,
         ConsoleWork, LoopStep, ReadChat, ReadPm, ReadList, Halted, LinkWork

\* No step adds an object twice, or a destroyed one, or destroys one it leaves.
LEMMA TableStep ==
  ASSUME TypeInv, PhaseInv, TableSound, Next
  PROVE  TableSound'
<1>1. ASSUME NEW c \in Conns, Register(c) PROVE TableSound'
  <2>1. c \notin Members /\ c \notin freed
    BY <1>1 DEF Register, PhaseInv, Early
  <2>2. Members' = Members \cup {c} /\ Distinct(clients)'
    BY <1>1, <2>1, AppendSet, AppendDistinct, MembersType
       DEF Register, Members, TypeInv, TableSound, Distinct
  <2>3. QED
    BY <1>1, <2>1, <2>2 DEF Register, TableSound, Distinct
<1>2. ASSUME NEW c \in Conns, Erase(c) PROVE TableSound'
  <2>1. CASE Contains(clients, ptr[c])
    <3>1. PICK i \in 1..Len(clients) :
            clients[i] = ptr[c] /\ clients' = RemoveAt(clients, i)
      BY <1>2, <2>1, MembersType DEF Erase, TypeInv
    <3>2. Distinct(clients)' /\ Members' = Members \ {ptr[c]}
      BY <3>1, RemoveAtSet, MembersType DEF TypeInv, TableSound, Distinct, Members
    <3>3. QED
      BY <1>2, <2>1, <3>2 DEF Erase, TableSound, Distinct
  <2>2. CASE ~Contains(clients, ptr[c])
    BY <1>2, <2>2 DEF Erase, TableSound, Members
  <2>3. QED
    BY <2>1, <2>2
<1>3. ASSUME NEW c \in Conns, NoUsername(c) \/ RejectName(c) PROVE TableSound'
  <2>1. c \notin Members /\ freed' = freed \cup {c} /\ clients' = clients
    BY <1>3 DEF NoUsername, RejectName, PhaseInv, Early
  <2>2. QED
    BY <2>1 DEF TableSound, Members
<1>4. CASE SweepEnd
  BY <1>4 DEF SweepEnd, TableSound, Members, ToSet
<1>5. CASE UNCHANGED <<clients, freed>>
  BY <1>5 DEF TableSound, Members
<1>6. CASE LinkWork
  BY <1>5, <1>6, LinkFrame
<1>7. QED
  BY <1>1, <1>2, <1>3, <1>4, <1>5, <1>6
     DEF Next, Environment, Server, Operator, AcceptorWork, HandlerWork, HandlerReads,
         ConsoleWork, LoopStep, ReadChat, ReadPm, ReadList, Halted, vars,
         PeerLeaves, PeerStalls, PeerResumes, AcceptLoop, Accept, AcceptFails, Refuse, Admit,
         ReadUsername, AdoptBack, Lock, LoopTest, BroadcastSend, BroadcastEnd,
         LoopCheck, Disconnected, ReadLine, ReadQuit, UserList, PmEnd, Depart,
         BroadcastCommand, KickCommand, KickEnd, StopCommand, ClearRunning,
         CloseListener, SweepClient, LinkWork,
         TerminateAtLinks, Exit, Crash, EndOfProcess

\* Names in the table stay, and no client in it becomes active.
LEMMA UniqueFrame ==
  ASSUME TypeInv, UniqueActiveNames, clients' = clients,
         \A o \in Members : name'[o] = name[o] /\ (active'[o] => active[o])
  PROVE  UniqueActiveNames'
BY DEF UniqueActiveNames, Members, ToSet

LEMMA UniqueStep ==
  ASSUME TypeInv, PhaseInv, UniqueActiveNames, Next
  PROVE  UniqueActiveNames'
<1>1. CASE Admit
  <2>1. fresh \notin Members
    BY <1>1 DEF Admit, TypeInv, PhaseInv, Early
  <2>2. QED
    BY <1>1, <2>1, UniqueFrame, MembersType DEF Admit, TypeInv, TypeOK
<1>2. ASSUME NEW c \in Conns, NEW t \in Typed, ReadUsername(c, t) PROVE UniqueActiveNames'
  <2>1. c \notin Members
    BY <1>2 DEF ReadUsername, PhaseInv, Early
  <2>2. QED
    BY <1>2, <2>1, UniqueFrame, MembersType DEF ReadUsername, TypeInv, TypeOK
<1>3. ASSUME NEW c \in Conns, Register(c) PROVE UniqueActiveNames'
  <2>1. /\ clients' = Append(clients, c)
        /\ UNCHANGED <<name, active>>
        /\ \A i \in DOMAIN clients : active[clients[i]] => name[clients[i]] # name[c]
    BY <1>3 DEF Register, NameTaken
  <2>2. /\ DOMAIN clients' = DOMAIN clients \cup {Len(clients) + 1}
        /\ clients'[Len(clients) + 1] = c
        /\ \A i \in DOMAIN clients : clients'[i] = clients[i]
    BY <2>1, AppendProperties, LenProperties, MembersType DEF TypeInv
  <2>3. QED
    BY <2>1, <2>2 DEF UniqueActiveNames
<1>4. ASSUME NEW c \in Conns, Erase(c) PROVE UniqueActiveNames'
  <2>1. CASE Contains(clients, ptr[c])
    <3>1. PICK i \in 1..Len(clients) : clients' = RemoveAt(clients, i)
      BY <1>4, <2>1, MembersType DEF Erase, TypeInv
    <3> DEFINE from(j) == IF j < i THEN j ELSE j + 1
    <3>2. /\ \A j \in DOMAIN clients' : from(j) \in DOMAIN clients
                                      /\ clients'[j] = clients[from(j)]
          /\ \A j, k \in DOMAIN clients' : from(j) = from(k) => j = k
      <4>1. DOMAIN clients' = 1..(Len(clients) - 1)
        BY <3>1, RemoveAtFacts, LenProperties, MembersType DEF TypeInv
      <4>2. \A j \in 1..(Len(clients) - 1) :
              clients'[j] = IF j < i THEN clients[j] ELSE clients[j + 1]
        BY <3>1, RemoveAtFacts, MembersType DEF TypeInv
      <4>3. QED
        BY <4>1, <4>2, MembersType DEF TypeInv
    <3>3. UNCHANGED <<name, active>>
      BY <1>4 DEF Erase
    <3> HIDE DEF from
    <3>4. QED
      BY <3>2, <3>3 DEF UniqueActiveNames
  <2>2. CASE ~Contains(clients, ptr[c])
    BY <1>4, <2>2, UniqueFrame DEF Erase
  <2>3. QED
    BY <2>1, <2>2
<1>5. CASE SweepEnd
  BY <1>5, EmptySeq DEF SweepEnd, UniqueActiveNames
<1>6. CASE /\ UNCHANGED <<clients, name>>
           /\ \E o : active' = [active EXCEPT ![o] = FALSE]
  BY <1>6, UniqueFrame, MembersType DEF TypeInv, TypeOK
<1>7. CASE UNCHANGED <<clients, name, active>>
  BY <1>7, UniqueFrame
<1>8. CASE KickEnd
  BY <1>8, <1>6, <1>7 DEF KickEnd
<1>9. CASE LinkWork
  BY <1>7, <1>9, LinkFrame
<1>10. QED
  BY <1>1, <1>2, <1>3, <1>4, <1>5, <1>6, <1>7, <1>8, <1>9
     DEF Next, Environment, Server, Operator, AcceptorWork, HandlerWork, HandlerReads,
         ConsoleWork, LoopStep, ReadChat, ReadPm, ReadList, Halted, vars,
         PeerLeaves, PeerStalls, PeerResumes, AcceptLoop, Accept, AcceptFails, Refuse, NoUsername,
         RejectName, AdoptBack, Lock, LoopTest, BroadcastSend, BroadcastEnd,
         LoopCheck, Disconnected, ReadLine, ReadQuit, UserList, PmEnd, Depart,
         BroadcastCommand, KickCommand, StopCommand, ClearRunning, CloseListener,
         SweepClient, LinkWork, TerminateAtLinks, Exit, Crash, EndOfProcess

LEMMA LoopFrame ==
  ASSUME TypeInv, LoopInv, UNCHANGED <<mutex, pos, hit, clients>>,
         \A o \in Members : name'[o] = name[o] /\ (active'[o] => active[o]),
         mutex = Console => UNCHANGED <<cpc, target>>
  PROVE  LoopInv'
BY DEF LoopInv, Members, ToSet

LEMMA FreeFrame ==
  ASSUME LoopInv, mutex = Unlocked, UNCHANGED <<mutex, pos, hit>>
  PROVE  LoopInv'
BY DEF LoopInv, Console, Unlocked

LEMMA UnlockFrame ==
  ASSUME Unlock
  PROVE  LoopInv'
BY DEF LoopInv, Unlock, Console, Unlocked

LEMMA LoopInvStep ==
  ASSUME TypeInv, PhaseInv, UniqueActiveNames, LoopInv, Next
  PROVE  LoopInv'
<1>1. ASSUME NEW t \in Conns \cup {Console}, Lock(t) PROVE LoopInv'
  <2>1. /\ mutex' = t /\ pos' = 1 /\ ~hit' /\ t # Unlocked
        /\ UNCHANGED <<clients, name, active, cpc, target>>
    BY <1>1, ConnsAssumption DEF Lock, LoopInv, Console, Unlocked
  <2>2. t = Console => cpc \in {"broadcast", "kick", "sweep"}
    BY <1>1 DEF Lock, Op, Broadcasts, TypeInv, TypeOK
  <2>3. DOMAIN clients' = 1..Len(clients)
    BY <2>1, MembersType DEF TypeInv
  <2>4. QED
    BY <2>1, <2>2, <2>3 DEF LoopInv
<1>2. ASSUME NEW t \in Conns \cup {Console}, LoopTest(t) PROVE LoopInv'
  <2>1. PICK i \in Ahead(t) : (\A j \in Ahead(t) : i <= j) /\ pos' = i
    BY <1>2 DEF LoopTest
  <2>2. /\ mutex' = t /\ mutex = t /\ hit' /\ ~hit /\ t # Unlocked
        /\ UNCHANGED <<clients, name, active, cpc, target>>
    BY <1>2, ConnsAssumption DEF LoopTest, Console, Unlocked
  <2>3. i \in DOMAIN clients /\ i >= pos /\ Selects(t, clients[i])
    BY <2>1 DEF Ahead
  <2>4. \A j \in DOMAIN clients : pos <= j /\ j < i => ~Selects(t, clients[j])
    BY <2>1, <2>3, MembersType DEF Ahead, TypeInv, TypeOK
  <2>5. cpc = "sweep" /\ t = Console =>
          \A j \in DOMAIN clients : j < i => ~active[clients[j]]
    BY <2>2, <2>3, <2>4, MembersType
       DEF Selects, Traceless, Op, Broadcasts, LoopInv, TypeInv, TypeOK
  <2>6. cpc = "kick" /\ t = Console =>
          \A j \in DOMAIN clients :
            active[clients[j]] /\ name[clients[j]] = target => j = i
    BY <2>3 DEF Selects, Op, UniqueActiveNames
  <2>7. QED
    BY <2>1, <2>2, <2>3, <2>5, <2>6 DEF LoopInv
<1>3. ASSUME NEW t \in Conns \cup {Console}, BroadcastSend(t) PROVE LoopInv'
  <2>1. /\ mutex' = t /\ mutex = t /\ ~hit' /\ t # Unlocked
        /\ UNCHANGED <<clients, name, active, cpc, target>>
        /\ t = Console => cpc = "broadcast"
    BY <1>3, ConnsAssumption
       DEF BroadcastSend, NextElement, Console, Unlocked, Op, Broadcasts, LoopInv
  <2>2. QED
    BY <2>1 DEF LoopInv
<1>4. CASE SweepClient
  <2> DEFINE o == clients[pos]
  <2>1. /\ mutex' = Console /\ mutex = Console /\ ~hit' /\ hit /\ pos' = pos + 1
        /\ UNCHANGED <<clients, name, cpc, target>>
        /\ cpc = "sweep" /\ active' = [active EXCEPT ![o] = FALSE]
    BY <1>4 DEF SweepClient, NextElement
  <2>2. o \in Conns /\ pos \in DOMAIN clients
    BY <2>1, MembersType, ElementOfSeq DEF LoopInv, TypeInv
  <2>3. \A i \in DOMAIN clients : i < pos' => ~active'[clients[i]]
    <3>1. TAKE i \in DOMAIN clients
    <3>2. HAVE i < pos'
    <3>3. clients[i] \in Conns /\ i \in Nat
      BY MembersType, ElementOfSeq DEF TypeInv
    <3>4. CASE i = pos
      BY <2>1, <3>3, <3>4 DEF TypeInv, TypeOK
    <3>5. CASE i < pos
      BY <2>1, <3>3, <3>5 DEF LoopInv, TypeInv, TypeOK
    <3>6. QED
      BY <2>1, <2>2, <3>2, <3>3, <3>4, <3>5, MembersType DEF TypeInv
  <2>4. QED
    BY <2>1, <2>3 DEF LoopInv, Console, Unlocked
<1>5. CASE Unlock
  BY <1>5, UnlockFrame
<1>6. CASE mutex = Unlocked /\ UNCHANGED <<mutex, pos, hit>>
  BY <1>6, FreeFrame
<1>7. ASSUME NEW c \in Conns, NEW t \in Typed, ReadUsername(c, t) PROVE LoopInv'
  <2>1. c \notin Members
    BY <1>7 DEF ReadUsername, PhaseInv, Early
  <2>2. QED
    BY <1>7, <2>1, LoopFrame, MembersType DEF ReadUsername, TypeInv, TypeOK
<1>8. CASE /\ UNCHANGED <<mutex, pos, hit, clients, name, cpc, target>>
           /\ \E o : active' = [active EXCEPT ![o] = FALSE]
  BY <1>8, LoopFrame, MembersType DEF TypeInv, TypeOK
<1>9. CASE /\ UNCHANGED <<mutex, pos, hit, clients, name, active>>
           /\ mutex = Console => UNCHANGED <<cpc, target>>
  BY <1>9, LoopFrame
<1>10. CASE \/ BroadcastCommand \/ \E n \in Usernames : KickCommand(n)
            \/ \E k \in 1..2 : StopCommand(k)
            \/ ClearRunning \/ CloseListener
  BY <1>10, <1>9 DEF BroadcastCommand, KickCommand, StopCommand, ClearRunning,
                     CloseListener, LoopInv
<1>11. CASE LinkWork
  BY <1>9, <1>11, LinkFrame DEF LoopInv
<1>12. QED
  BY <1>1, <1>2, <1>3, <1>4, <1>5, <1>6, <1>7, <1>8, <1>9, <1>10, <1>11
     DEF Next, Environment, Server, Operator, AcceptorWork, HandlerWork, HandlerReads,
         ConsoleWork, LoopStep, ReadChat, ReadPm, ReadList, Halted, vars,
         PeerLeaves, PeerStalls, PeerResumes, AcceptLoop, Accept, AcceptFails, Refuse, Admit,
         NoUsername, RejectName, Register, AdoptBack, BroadcastEnd, LoopCheck,
         Disconnected, ReadLine, ReadQuit, UserList, PmEnd, Depart, Erase, KickEnd,
         SweepEnd, LinkWork, TerminateAtLinks, Exit, Crash, EndOfProcess

\* Nothing but a new connection makes an object active.
LEMMA EraseFrame ==
  ASSUME TypeInv, EraseInv, ptr' = ptr,
         \A c \in Conns : pc'[c] = "erase" => pc[c] = "erase",
         \A c \in Conns : pc[c] = "erase" => (active'[ptr[c]] => active[ptr[c]])
  PROVE  EraseInv'
BY DEF EraseInv

LEMMA EraseInvStep ==
  ASSUME TypeInv, PhaseInv, EraseInv, Next
  PROVE  EraseInv'
<1>1. CASE Admit
  <2>1. \A c \in Conns : pc[c] = "erase" => ptr[c] \in Conns /\ pc[ptr[c]] # "idle"
    BY DEF TypeInv, PhaseInv, Working, Early
  <2>2. fresh \in Conns /\ pc[fresh] = "idle"
    BY <1>1 DEF Admit, TypeInv, PhaseInv
  <2>3. QED
    BY <1>1, <2>1, <2>2, EraseFrame DEF Admit, TypeInv, TypeOK
<1>2. ASSUME NEW c \in Conns, AdoptBack(c) PROVE EraseInv'
  BY <1>2 DEF AdoptBack, EraseInv, TypeInv, TypeOK
<1>3. ASSUME NEW c \in Conns, Depart(c) PROVE EraseInv'
  <2>1. /\ ptr[c] \in Conns /\ ptr' = ptr
        /\ active' = [active EXCEPT ![ptr[c]] = FALSE]
        /\ pc' = [pc EXCEPT ![c] = "erase"]
    BY <1>3 DEF Depart, TypeInv, Working
  <2>2. \A d \in Conns : pc'[d] = "erase" => d = c \/ pc[d] = "erase"
    BY <2>1 DEF TypeInv, TypeOK
  <2>3. \A o \in Conns : active'[o] => active[o] /\ o # ptr[c]
    BY <2>1 DEF TypeInv, TypeOK
  <2>4. \A d \in Conns : pc[d] = "erase" => ptr[d] \in Conns
    BY DEF TypeInv, Working
  <2>5. QED
    BY <2>1, <2>2, <2>3, <2>4 DEF EraseInv
<1>4. CASE /\ UNCHANGED <<pc, ptr>>
           /\ \/ \E o : active' = [active EXCEPT ![o] = FALSE]
              \/ UNCHANGED active
  <2>1. \A o \in Conns : active'[o] => active[o]
    BY <1>4 DEF TypeInv, TypeOK
  <2>2. \A d \in Conns : pc[d] = "erase" => ptr[d] \in Conns
    BY DEF TypeInv, Working
  <2>3. QED
    BY <1>4, <2>1, <2>2, EraseFrame
<1>5. ASSUME NEW c \in Conns, NEW l, pc' = [pc EXCEPT ![c] = l], l # "erase",
             ptr' = ptr,
             active' = active \/ \E o : active' = [active EXCEPT ![o] = FALSE]
      PROVE  EraseInv'
  <2>1. \A o \in Conns : active'[o] => active[o]
    BY <1>5 DEF TypeInv, TypeOK
  <2>2. \A d \in Conns : pc[d] = "erase" => ptr[d] \in Conns
    BY DEF TypeInv, Working
  <2>3. \A d \in Conns : pc'[d] = "erase" => pc[d] = "erase"
    BY <1>5 DEF TypeInv, TypeOK
  <2>4. QED
    BY <1>5, <2>1, <2>2, <2>3, EraseFrame
<1>6. ASSUME NEW t \in Conns \cup {Console}, BroadcastEnd(t) PROVE EraseInv'
  <2>1. CASE t = Console
    BY <1>4, <1>6, <2>1 DEF BroadcastEnd
  <2>2. CASE t \in Conns
    <3> DEFINE l == IF pc[t] = "leave" THEN "depart" ELSE "loop"
    <3>1. pc' = [pc EXCEPT ![t] = l] /\ UNCHANGED <<ptr, active>>
      BY <1>6, <2>2, ConnsAssumption DEF BroadcastEnd
    <3>2. l # "erase"
      OBVIOUS
    <3> HIDE DEF l
    <3>3. QED
      BY <1>5, <2>2, <3>1, <3>2
  <2>3. QED
    BY <2>1, <2>2
<1>7. ASSUME NEW c \in Conns,
             \/ NoUsername(c) \/ RejectName(c) \/ Register(c)
             \/ \E t \in Typed : ReadUsername(c, t)
      PROVE  EraseInv'
  BY <1>5, <1>7 DEF NoUsername, RejectName, Register, ReadUsername
<1>8. ASSUME NEW c \in Conns,
             \/ LoopCheck(c) \/ Disconnected(c) \/ ReadQuit(c)
             \/ UserList(c) \/ PmEnd(c) \/ Erase(c)
      PROVE  EraseInv'
  BY <1>5, <1>8 DEF LoopCheck, Disconnected, ReadQuit, UserList, PmEnd, Erase
<1>9. ASSUME NEW c \in Conns, NEW kind, NEW to, ReadLine(c, kind, to)
      PROVE  EraseInv'
  BY <1>5, <1>9, BoundsAssumption DEF ReadLine
<1>10. CASE KickEnd \/ SweepClient
  BY <1>4, <1>10 DEF KickEnd, SweepClient
<1>11. CASE \E how : EndOfProcess(how)
  BY <1>11 DEF EndOfProcess, EraseInv
<1>12. CASE LinkWork
  BY <1>4, <1>12, LinkFrame
<1>13. QED
  BY <1>1, <1>2, <1>3, <1>4, <1>6, <1>7, <1>8, <1>9, <1>10, <1>11, <1>12
     DEF Next, Environment, Server, Operator, AcceptorWork, HandlerWork, HandlerReads,
         ConsoleWork, LoopStep, ReadChat, ReadPm, ReadList, Halted, vars,
         PeerLeaves, PeerStalls, PeerResumes, AcceptLoop, Accept, AcceptFails, Refuse,
         Lock, LoopTest, BroadcastSend, BroadcastCommand, KickCommand, StopCommand,
         ClearRunning, CloseListener, SweepEnd, LinkWork, TerminateAtLinks, Exit, Crash

LEMMA NameFrame ==
  ASSUME NameInv, name' = name, Members' \subseteq Members,
         \A c \in Conns : pc'[c] = "register" => pc[c] = "register"
  PROVE  NameInv'
BY DEF NameInv

LEMMA NameInvStep ==
  ASSUME TypeInv, TableSound, NameInv, Next
  PROVE  NameInv'
<1>1. ASSUME NEW c \in Conns, NEW t \in Typed, ReadUsername(c, t) PROVE NameInv'
  <2>1. name' = [name EXCEPT ![c] = UsernameOf(t, sock[c])] /\ sock[c] \in Handles
    BY <1>1 DEF ReadUsername, RecvGets, Connected
  <2>2. UsernameOf(t, sock[c]) \in Usernames
    BY <2>1 DEF Usernames
  <2>3. pc' = [pc EXCEPT ![c] = "register"] /\ Members' = Members
    BY <1>1 DEF ReadUsername, Members
  <2>4. QED
    BY <2>1, <2>2, <2>3 DEF NameInv, TypeInv, TypeOK
<1>2. ASSUME NEW c \in Conns, Register(c) PROVE NameInv'
  <2>1. Members' = Members \cup {c} /\ pc[c] = "register" /\ name' = name
    BY <1>2, AppendSet, MembersType DEF Register, Members, TypeInv
  <2>2. \A d \in Conns : pc'[d] = "register" => pc[d] = "register"
    BY <1>2 DEF Register, TypeInv, TypeOK
  <2>3. QED
    BY <2>1, <2>2 DEF NameInv
<1>3. ASSUME NEW c \in Conns, Erase(c) PROVE NameInv'
  <2>1. Members' \subseteq Members /\ name' = name
    BY <1>3, MembersType, RemoveAtSet
       DEF Erase, Members, TableSound, Distinct, TypeInv
  <2>2. \A d \in Conns : pc'[d] = "register" => pc[d] = "register"
    BY <1>3 DEF Erase, TypeInv, TypeOK
  <2>3. QED
    BY <2>1, <2>2, NameFrame
<1>4. CASE SweepEnd
  <2>1. Members' = {}
    BY <1>4, EmptySeq DEF SweepEnd, Members, ToSet
  <2>2. QED
    BY <1>4, <2>1, NameFrame DEF SweepEnd
<1>5. ASSUME NEW c \in Conns, NEW l, pc' = [pc EXCEPT ![c] = l], l # "register",
             UNCHANGED <<clients, name>>
      PROVE  NameInv'
  <2>1. \A d \in Conns : pc'[d] = "register" => pc[d] = "register"
    BY <1>5 DEF TypeInv, TypeOK
  <2>2. QED
    BY <1>5, <2>1, NameFrame DEF Members
<1>6. CASE UNCHANGED <<pc, clients, name>>
  BY <1>6, NameFrame DEF Members
<1>7. ASSUME NEW t \in Conns \cup {Console}, BroadcastEnd(t) PROVE NameInv'
  <2>1. CASE t = Console
    BY <1>6, <1>7, <2>1 DEF BroadcastEnd
  <2>2. CASE t \in Conns
    <3> DEFINE l == IF pc[t] = "leave" THEN "depart" ELSE "loop"
    <3>1. pc' = [pc EXCEPT ![t] = l] /\ UNCHANGED <<clients, name>>
      BY <1>7, <2>2, ConnsAssumption DEF BroadcastEnd
    <3>2. l # "register"
      OBVIOUS
    <3> HIDE DEF l
    <3>3. QED
      BY <1>5, <2>2, <3>1, <3>2
  <2>3. QED
    BY <2>1, <2>2
<1>8. CASE Admit
  BY <1>8, <1>5 DEF Admit, TypeInv
<1>9. ASSUME NEW c \in Conns,
             \/ NoUsername(c) \/ RejectName(c) \/ AdoptBack(c) \/ LoopCheck(c)
             \/ Disconnected(c) \/ ReadQuit(c) \/ UserList(c) \/ PmEnd(c) \/ Depart(c)
      PROVE  NameInv'
  BY <1>5, <1>9 DEF NoUsername, RejectName, AdoptBack, LoopCheck, Disconnected,
                    ReadQuit, UserList, PmEnd, Depart
<1>10. ASSUME NEW c \in Conns, NEW kind, NEW to, ReadLine(c, kind, to)
       PROVE  NameInv'
  BY <1>5, <1>10, BoundsAssumption DEF ReadLine
<1>11. CASE \E how : EndOfProcess(how)
  BY <1>11, NameFrame DEF EndOfProcess, Members
<1>12. CASE LinkWork
  BY <1>6, <1>12, LinkFrame
<1>13. QED
  BY <1>1, <1>2, <1>3, <1>4, <1>6, <1>7, <1>8, <1>9, <1>10, <1>11, <1>12
     DEF Next, Environment, Server, Operator, AcceptorWork, HandlerWork, HandlerReads,
         ConsoleWork, LoopStep, ReadChat, ReadPm, ReadList, Halted, vars,
         PeerLeaves, PeerStalls, PeerResumes, AcceptLoop, Accept, AcceptFails, Refuse,
         Lock, LoopTest, BroadcastSend, BroadcastCommand, KickCommand, KickEnd,
         StopCommand, ClearRunning, CloseListener, SweepClient, LinkWork,
         TerminateAtLinks, Exit, Crash

\* Once the process has ended only its peers may do something.
LEMMA EndedStep ==
  ASSUME TypeInv, EndInv, proc # "up", Next
  PROVE  UNCHANGED <<proc, mutex, clients, name, active, apc, cpc, pc>>
<1> DEFINE Same == UNCHANGED <<proc, mutex, clients, name, active, apc, cpc, pc>>
<1>1. /\ apc = "exit" /\ cpc = "exited" /\ mutex = Unlocked
      /\ \A c \in Conns : pc[c] \in {"idle", "done"}
  BY DEF EndInv
<1>2. ~AcceptorWork /\ ~Operator /\ ~RemoteSpeaks /\ ~RemoteCloses
  BY <1>1 DEF AcceptorWork, AcceptLoop, AcceptFails, Refuse, Admit, Operator,
              BroadcastCommand, ConnectCommand, KickCommand, StopCommand,
              RemoteSpeaks, RemoteCloses
<1>3. ASSUME NEW t \in Conns \cup {Console} PROVE ~LoopStep(t)
  <2>1. mutex # t
    BY <1>1, ConnsAssumption DEF Console, Unlocked
  <2>2. Op(t) \in {"idle", "done", "exited"}
    BY <1>1 DEF Op
  <2>3. QED
    BY <2>1, <2>2 DEF LoopStep, Lock, LoopTest, BroadcastSend, BroadcastEnd, AtLoopEnd,
                      Broadcasts
<1>4. ~ConsoleWork
  BY <1>1, <1>3 DEF ConsoleWork, KickEnd, ClearRunning, CloseListener, SweepClient,
                    SweepEnd, JoinLinks, TerminateAtLinks, Exit
<1>5. ASSUME NEW c \in Conns PROVE ~HandlerWork(c) /\ ~HandlerReads(c)
  BY <1>1, <1>3
     DEF HandlerWork, NoUsername, RejectName, Register, AdoptBack, LoopCheck,
         Disconnected, UserList, PmEnd, Depart, Erase, HandlerReads, ReadUsername,
         ReadChat, ReadPm, ReadList, ReadLine, ReadQuit
<1>6. ~Crash
  BY <1>1 DEF Crash, UsesDestroyedClient, OutlivesServer, UsesObject, UsesServer,
              ReadsBackUnsafely
<1>7. ASSUME NEW c \in Conns, PeerLeaves(c) \/ PeerStalls(c) \/ PeerResumes(c) PROVE Same
  BY <1>7 DEF PeerLeaves, PeerStalls, PeerResumes
<1>8. ASSUME NEW c \in Conns, NEW h \in Handles PROVE ~Accept(c, h)
  BY <1>1 DEF Accept
<1>9. QED
  BY <1>2, <1>4, <1>5, <1>6, <1>7, <1>8 DEF Next, Environment, Server, Halted, vars

\* The end of the process stops every thread and frees the mutex.
LEMMA EndInvStep ==
  ASSUME TypeInv, EndInv, Next
  PROVE  EndInv'
<1>1. CASE proc # "up"
  BY <1>1, EndedStep DEF EndInv
<1>2. CASE proc' = "up"
  BY <1>2 DEF EndInv
<1>3. CASE \E how : EndOfProcess(how)
  BY <1>3 DEF EndOfProcess, EndInv, Unlock
<1>4. CASE proc = "up" /\ proc' = proc
  BY <1>2, <1>4
<1>5. CASE LinkWork
  BY <1>1, <1>4, <1>5, LinkFrame
<1>6. QED
  BY <1>1, <1>3, <1>4, <1>5, ZenonT(40)
     DEF Next, Environment, Server, Operator, AcceptorWork, HandlerWork, HandlerReads,
         ConsoleWork, LoopStep, ReadChat, ReadPm, ReadList, Halted, vars,
         PeerLeaves, PeerStalls, PeerResumes, AcceptLoop, Accept, AcceptFails, Refuse, Admit,
         NoUsername, ReadUsername, RejectName, Register, AdoptBack, Lock, LoopTest,
         BroadcastSend, BroadcastEnd, LoopCheck, Disconnected, ReadLine, ReadQuit,
         UserList, PmEnd, Depart, Erase, BroadcastCommand, KickCommand, KickEnd,
         StopCommand, ClearRunning, CloseListener, SweepClient, SweepEnd, LinkWork,
         TerminateAtLinks, Exit, Crash
-----------------------------------------------------------------------------
(* The properties.                                                          *)

LEMMA IInvInit == Init => IInv
<1> SUFFICES ASSUME Init PROVE IInv
  OBVIOUS
<1>1. TypeInv
  <2>1. running \in BOOLEAN /\ listening \in BOOLEAN /\ hit \in BOOLEAN
    BY Zenon DEF Init
  <2>2. active \in [Conns -> BOOLEAN]
    BY DEF Init
  <2>3. QED
    BY <2>1, <2>2, EmptySeq, NoLineType, BoundsAssumption
       DEF Init, TypeInv, TypeOK, Working, HandlerPcs
<1>2. clients = <<>> /\ DOMAIN clients = {} /\ Members = {}
  BY EmptySeq DEF Init, Members, ToSet
<1>3. PhaseInv
  BY <1>2 DEF Init, PhaseInv, Working
<1>4. TableSound /\ UniqueActiveNames
  BY <1>2 DEF TableSound, UniqueActiveNames
<1>5. LoopInv
  BY <1>2 DEF Init, LoopInv, Console, Unlocked
<1>6. EraseInv /\ NameInv /\ EndInv
  BY <1>2 DEF Init, EraseInv, NameInv, EndInv
<1>7. QED
  BY <1>1, <1>3, <1>4, <1>5, <1>6 DEF IInv

LEMMA IInvStep == IInv /\ [Next]_vars => IInv'
<1> SUFFICES ASSUME IInv, [Next]_vars PROVE IInv'
  OBVIOUS
<1>1. CASE Next
  BY <1>1, TypeStep, PhaseStep, TableStep, UniqueStep, LoopInvStep, EraseInvStep,
     NameInvStep, EndInvStep DEF IInv
<1>2. CASE UNCHANGED vars
  BY <1>2 DEF vars, IInv, TypeInv, TypeOK, Working, PhaseInv, TableSound, Members,
              UniqueActiveNames, LoopInv, EraseInv, NameInv, EndInv
<1>3. QED
  BY <1>1, <1>2

\* For any number of connections, handles and commands: two active clients never
\* have the same username, because handleClient tests the name and inserts the
\* client without giving up clients_mutex in between.
THEOREM UniqueNames == Spec => []UniqueActiveNames
<1>1. IInv => UniqueActiveNames
  BY DEF IInv
<1>2. QED
  BY <1>1, IInvInit, IInvStep, PTL DEF Spec

\* The vector never holds an object twice or a destroyed one, even though two
\* handlers may erase the same object and stop() destroys them all.
THEOREM TableIsSound == Spec => []TableSound
<1>1. IInv => TableSound
  BY DEF IInv
<1>2. QED
  BY <1>1, IInvInit, IInvStep, PTL DEF Spec

LEMMA RemovedStep ==
  ASSUME IInv, [Next]_vars
  PROVE  \A o \in Members : o \in Members' \/ ~active[o]
<1> DEFINE Goal == \A o \in Members : o \in Members' \/ ~active[o]
<1>1. ASSUME NEW c \in Conns, Register(c) PROVE Goal
  <2>1. Members' = Members \cup {c}
    BY <1>1, AppendSet, MembersType DEF Register, Members, IInv, TypeInv
  <2>2. QED
    BY <2>1
<1>2. ASSUME NEW c \in Conns, Erase(c) PROVE Goal
  <2>1. CASE Contains(clients, ptr[c])
    <3>1. PICK i \in 1..Len(clients) :
            clients[i] = ptr[c] /\ clients' = RemoveAt(clients, i)
      BY <1>2, <2>1, MembersType DEF Erase, IInv, TypeInv
    <3>2. Members' = Members \ {ptr[c]}
      BY <3>1, RemoveAtSet, MembersType DEF IInv, TypeInv, TableSound, Distinct, Members
    <3>3. ~active[ptr[c]]
      BY <1>2 DEF Erase, IInv, EraseInv
    <3>4. QED
      BY <3>2, <3>3
  <2>2. CASE ~Contains(clients, ptr[c])
    BY <1>2, <2>2 DEF Erase, Members
  <2>3. QED
    BY <2>1, <2>2
<1>3. CASE SweepEnd
  <2>1. /\ cpc = "sweep" /\ mutex = Console /\ ~hit
        /\ \A i \in DOMAIN clients : i >= pos => ~Selects(Console, clients[i])
    BY <1>3 DEF SweepEnd, AtLoopEnd, Ahead
  <2>2. \A i \in DOMAIN clients : i < pos => ~active[clients[i]]
    BY <2>1 DEF IInv, LoopInv
  <2>3. \A i \in DOMAIN clients : i >= pos => ~active[clients[i]]
    BY <2>1 DEF Selects, Traceless, Op, Broadcasts
  <2>4. \A i \in DOMAIN clients : i < pos \/ i >= pos
    BY MembersType DEF IInv, TypeInv, TypeOK
  <2>5. QED
    BY <2>2, <2>3, <2>4 DEF Members, ToSet
<1>4. CASE UNCHANGED clients \/ LinkWork
  BY <1>4, LinkFrame DEF Members
<1>5. Goal
  BY <1>1, <1>2, <1>3, <1>4
     DEF Next, Environment, Server, Operator, AcceptorWork, HandlerWork, HandlerReads,
         ConsoleWork, LoopStep, ReadChat, ReadPm, ReadList, Halted, vars,
         PeerLeaves, PeerStalls, PeerResumes, AcceptLoop, Accept, AcceptFails, Refuse, Admit,
         NoUsername, ReadUsername, RejectName, AdoptBack, Lock, LoopTest,
         BroadcastSend, BroadcastEnd, LoopCheck, Disconnected, ReadLine, ReadQuit,
         UserList, PmEnd, Depart, BroadcastCommand, KickCommand, KickEnd, StopCommand,
         ClearRunning, CloseListener, SweepClient, LinkWork,
         TerminateAtLinks, Exit, Crash, EndOfProcess
<1>6. QED
  BY <1>5

\* No client leaves the vector while it is marked active: the handler that erases
\* an object deactivated it before, whoever else shares the object, and stop()
\* clears the vector only after its loop has passed every client.
THEOREM RemovedInactive == Spec => RemovedWhenInactive
BY RemovedStep, IInvInit, IInvStep, PTL DEF Spec, RemovedWhenInactive

LEMMA KickStep ==
  ASSUME IInv, [Next]_vars, cpc = "kick", cpc' = "prompt"
  PROVE  \A i \in DOMAIN clients : name[clients[i]] = target => ~active'[clients[i]]
<1>1. KickEnd
  <2>1. ASSUME NEW t \in Conns \cup {Console}, BroadcastEnd(t) PROVE cpc' = cpc
    BY <2>1 DEF BroadcastEnd, Op, Broadcasts
  <2>2. ~LinkWork
    BY LinkFrame
  <2>3. QED
    BY <2>1, <2>2 DEF Next, Environment, Server, Operator, AcceptorWork, HandlerWork,
         HandlerReads, ConsoleWork, LoopStep, ReadChat, ReadPm, ReadList, Halted, vars,
         PeerLeaves, PeerStalls, PeerResumes, AcceptLoop, Accept, AcceptFails, Refuse, Admit,
         NoUsername, ReadUsername, RejectName, Register, AdoptBack, Lock, LoopTest,
         BroadcastSend, LoopCheck, Disconnected, ReadLine, ReadQuit,
         UserList, PmEnd, Depart, Erase, BroadcastCommand, KickCommand, StopCommand,
         ClearRunning, CloseListener, SweepClient, SweepEnd, LinkWork,
         TerminateAtLinks, Exit, Crash, EndOfProcess
<1>2. /\ mutex = Console
      /\ \A i \in DOMAIN clients :
           active[clients[i]] /\ name[clients[i]] = target
             => IF hit THEN i = pos ELSE i >= pos
  BY <1>1 DEF KickEnd, IInv, LoopInv
<1>3. CASE hit
  <2>1. active' = [active EXCEPT ![clients[pos]] = FALSE]
    BY <1>1, <1>3 DEF KickEnd, AtLoopEnd
  <2>2. \A i \in DOMAIN clients : clients[i] \in Conns
    BY MembersType, ElementOfSeq DEF IInv, TypeInv
  <2>3. QED
    BY <1>2, <1>3, <2>1, <2>2 DEF IInv, TypeInv, TypeOK
<1>4. CASE ~hit
  <2>1. active' = active /\ Ahead(Console) = {}
    BY <1>1, <1>4 DEF KickEnd, AtLoopEnd
  <2>2. \A i \in DOMAIN clients :
          i >= pos => ~(active[clients[i]] /\ name[clients[i]] = target)
    BY <2>1 DEF Ahead, Selects, Traceless, Op, Broadcasts
  <2>3. QED
    BY <1>2, <1>4, <2>1, <2>2
<1>5. QED
  BY <1>3, <1>4

\* When kickUser returns nobody with the name is active, for any name and any
\* table: stopping at the first match is enough because names are unique.
THEOREM KickComplete == Spec => KickIsComplete
BY KickStep, IInvInit, IInvStep, PTL DEF Spec, KickIsComplete
-----------------------------------------------------------------------------
(* Who is online.                                                           *)

\* Nothing but the table and its flags matters.
LEMMA OnlineFrame ==
  ASSUME Members' = Members,
         \A o \in Members : name'[o] = name[o] /\ (active'[o] <=> active[o])
  PROVE  Online' = Online
<1>1. Online' = {<<o, name'[o]>> : o \in {m \in Members' : active'[m]}}
  BY DEF Online
<1>2. {m \in Members' : active'[m]} = {m \in Members : active[m]}
  OBVIOUS
<1>3. QED
  BY <1>1, <1>2 DEF Online

\* A client stops being active: it alone goes offline.
WentOffline ==
  \E c \in Conns, n \in Usernames : <<c, n>> \in Online /\ Online' = Online \ {<<c, n>>}

\* A client becomes active in the table under a name nobody has there.
CameOnline ==
  \E c \in Conns, n \in Usernames :
    /\ \A d \in Conns : <<d, n>> \notin Online
    /\ Online' = Online \cup {<<c, n>>}

LEMMA OnlineWithout ==
  ASSUME IInv, NEW o, active' = [active EXCEPT ![o] = FALSE],
         UNCHANGED <<clients, name>>
  PROVE  Online' = Online \/ WentOffline
<1>1. Members' = Members /\ Members \subseteq Conns
  BY MembersType DEF Members, IInv, TypeInv
<1>2. CASE o \notin Members \/ ~active[o]
  <2>1. \A m \in Members : active'[m] <=> active[m]
    BY <1>1, <1>2 DEF IInv, TypeInv, TypeOK
  <2>2. QED
    BY <1>1, <2>1, OnlineFrame
<1>3. CASE o \in Members /\ active[o]
  <2>1. o \in Conns /\ name[o] \in Usernames /\ <<o, name[o]>> \in Online
    BY <1>1, <1>3 DEF IInv, NameInv, Online
  <2>2. \A m \in Members : active'[m] <=> active[m] /\ m # o
    BY <1>1, <1>3 DEF IInv, TypeInv, TypeOK
  <2>3. Online' = {<<m, name[m]>> : m \in {m \in Members : active[m] /\ m # o}}
    <3>1. {m \in Members' : active'[m]} = {m \in Members : active[m] /\ m # o}
      BY <1>1, <2>2
    <3>2. Online' = {<<m, name'[m]>> : m \in {m \in Members' : active'[m]}}
      BY DEF Online
    <3>3. QED
      BY <3>1, <3>2
  <2>4. Online' = Online \ {<<o, name[o]>>}
    BY <2>3 DEF Online
  <2>5. QED
    BY <2>1, <2>4 DEF WentOffline
<1>4. QED
  BY <1>2, <1>3

\* What the roster makes of a step of the server.
RosterMove == [RosterSpec!Next]_(RosterSpec!vars)

LEMMA RosterMoves ==
  ASSUME \/ Online' = Online /\ proc' = proc
         \/ Online' = Online /\ proc = "up" /\ proc' # "up"
         \/ proc = "up" /\ proc' = "up" /\ (WentOffline \/ CameOnline)
  PROVE  RosterMove
<1>1. CASE Online' = Online /\ proc' = proc
  BY <1>1 DEF RosterMove, RosterSpec!vars
<1>2. CASE Online' = Online /\ proc = "up" /\ proc' # "up"
  BY <1>2 DEF RosterMove, RosterSpec!Next, RosterSpec!End
<1>3. CASE proc = "up" /\ proc' = "up" /\ WentOffline
  BY <1>3 DEF RosterMove, RosterSpec!Next, RosterSpec!GoOffline, WentOffline
<1>4. CASE proc = "up" /\ proc' = "up" /\ CameOnline
  BY <1>4 DEF RosterMove, RosterSpec!Next, RosterSpec!ComeOnline, RosterSpec!Holders,
              CameOnline
<1>5. QED
  BY <1>1, <1>2, <1>3, <1>4

LEMMA RosterStep ==
  ASSUME IInv, [Next]_vars
  PROVE  RosterMove
<1>1. CASE Online' = Online /\ proc' = proc
  BY <1>1, RosterMoves
<1>2. CASE proc = "up" /\ proc' # "up" /\ Online' = Online
  BY <1>2, RosterMoves
<1>3. CASE proc = "up" /\ proc' = "up" /\ WentOffline
  BY <1>3, RosterMoves
<1>4. CASE proc = "up" /\ proc' = "up" /\ CameOnline
  BY <1>4, RosterMoves
<1>5. CASE /\ proc = "up" /\ proc' = "up"
           /\ \E o : active' = [active EXCEPT ![o] = FALSE]
           /\ UNCHANGED <<clients, name>>
  BY <1>1, <1>3, <1>5, OnlineWithout
<1>6. CASE UNCHANGED <<proc, clients, name, active>>
  BY <1>1, <1>6, OnlineFrame DEF Members
<1>7. CASE proc' = proc /\ Members' = Members
           /\ \A o \in Members : name'[o] = name[o] /\ (active'[o] <=> active[o])
  BY <1>1, <1>7, OnlineFrame
<1>8. CASE Admit
  <2>1. fresh \notin Members
    BY <1>8 DEF Admit, IInv, TypeInv, PhaseInv, Early
  <2>2. QED
    BY <1>7, <1>8, <2>1, MembersType DEF Admit, IInv, TypeInv, TypeOK, Members
<1>9. ASSUME NEW c \in Conns, NEW t \in Typed, ReadUsername(c, t) PROVE RosterMove
  <2>1. c \notin Members
    BY <1>9 DEF ReadUsername, IInv, PhaseInv, Early
  <2>2. /\ \E n : name' = [name EXCEPT ![c] = n]
        /\ UNCHANGED <<proc, clients, active>>
    BY <1>9 DEF ReadUsername
  <2>3. \A o \in Members : name'[o] = name[o]
    BY <2>1, <2>2, MembersType DEF IInv, TypeInv, TypeOK
  <2>4. QED
    BY <1>7, <2>2, <2>3 DEF Members
<1>10. ASSUME NEW c \in Conns, Register(c), proc = "up" PROVE RosterMove
  <2>1. /\ Members' = Members \cup {c} /\ UNCHANGED <<proc, name, active>>
        /\ name[c] \in Usernames
        /\ \A i \in DOMAIN clients : ~(name[clients[i]] = name[c] /\ active[clients[i]])
    BY <1>10, AppendSet, MembersType
       DEF Register, Members, IInv, TypeInv, NameTaken, NameInv
  <2>2. \A d \in Conns : <<d, name[c]>> \notin Online
    <3>1. \A m \in Members : active[m] => name[m] # name[c]
      BY <2>1 DEF Members, ToSet
    <3>2. QED
      BY <3>1 DEF Online
  <2>3. Online' = {<<m, name[m]>> : m \in {m \in Members \cup {c} : active[m]}}
    <3>1. Online' = {<<m, name'[m]>> : m \in {m \in Members' : active'[m]}}
      BY DEF Online
    <3>2. {m \in Members' : active'[m]} = {m \in Members \cup {c} : active[m]}
      BY <2>1
    <3>3. QED
      BY <2>1, <3>1, <3>2
  <2>4. CASE active[c]
    <3>1. {m \in Members \cup {c} : active[m]} = {m \in Members : active[m]} \cup {c}
      BY <2>4
    <3>2. Online' = {<<m, name[m]>> : m \in {m \in Members : active[m]} \cup {c}}
      BY <2>3, <3>1
    <3>3. Online' = Online \cup {<<c, name[c]>>}
      BY <3>2 DEF Online
    <3>4. QED
      BY <1>4, <1>10, <2>1, <2>2, <3>3 DEF CameOnline
  <2>5. CASE ~active[c]
    <3>1. {m \in Members \cup {c} : active[m]} = {m \in Members : active[m]}
      BY <2>5
    <3>2. Online' = Online
      BY <2>3, <3>1 DEF Online
    <3>3. QED
      BY <1>1, <2>1, <3>2
  <2>6. QED
    BY <2>4, <2>5
<1>11. CASE SweepEnd \/ \E c \in Conns : Erase(c)
  <2>1. \A o \in Members : o \in Members' \/ ~active[o]
    <3>1. [Next]_vars => \A o \in Members : o \in Members' \/ ~active[o]
      BY RemovedStep
    <3>2. QED
      BY <3>1
  <2>2. Members' \subseteq Members /\ UNCHANGED <<proc, name, active>>
    <3>1. CASE \E c \in Conns : Erase(c)
      BY <3>1, MembersType, RemoveAtSet
         DEF Erase, Members, IInv, TypeInv, TableSound, Distinct
    <3>2. CASE SweepEnd
      BY <3>2, EmptySeq DEF SweepEnd, Members, ToSet
    <3>3. QED
      BY <1>11, <3>1, <3>2
  <2>3. Online' = {<<m, name'[m]>> : m \in {m \in Members' : active'[m]}}
    BY DEF Online
  <2>4. {m \in Members' : active'[m]} = {m \in Members : active[m]}
    BY <2>1, <2>2
  <2>5. Online' = Online
    BY <2>2, <2>3, <2>4 DEF Online
  <2>6. QED
    BY <1>1, <2>2, <2>5
<1>12. CASE proc = "up" /\ (Exit \/ Crash \/ TerminateAtLinks)
  <2>1. Online' = Online
    BY <1>12, OnlineFrame DEF Exit, Crash, TerminateAtLinks, EndOfProcess, Members
  <2>2. QED
    BY <1>2, <1>12, <2>1 DEF Exit, Crash, TerminateAtLinks, EndOfProcess
<1>13. ASSUME NEW c \in Conns, proc = "up", Depart(c) \/ ReadQuit(c) PROVE RosterMove
  BY <1>5, <1>13 DEF Depart, ReadQuit
<1>14. CASE proc = "up" /\ (SweepClient \/ KickEnd)
  BY <1>5, <1>6, <1>14 DEF SweepClient, KickEnd
<1>15. CASE UNCHANGED vars
  BY <1>6, <1>15 DEF vars
<1>16. CASE LinkWork
  BY <1>6, <1>16, LinkFrame
<1>17. CASE proc = "up" /\ (Environment \/ Server)
  BY <1>6, <1>8, <1>9, <1>10, <1>11, <1>12, <1>13, <1>14, <1>16, <1>17, ZenonT(40)
     DEF Environment, Server, Operator, AcceptorWork, HandlerWork, HandlerReads,
         ConsoleWork, LoopStep, ReadChat, ReadPm, ReadList,
         PeerLeaves, PeerStalls, PeerResumes, AcceptLoop, Accept, AcceptFails, Refuse,
         NoUsername, RejectName, AdoptBack, Lock, LoopTest, BroadcastSend, BroadcastEnd,
         LoopCheck, Disconnected, ReadLine, UserList, PmEnd, BroadcastCommand,
         KickCommand, StopCommand, ClearRunning, CloseListener, LinkWork
<1>18. CASE proc # "up" /\ Next
  BY <1>6, <1>18, EndedStep DEF IInv
<1>19. QED
  BY <1>15, <1>17, <1>18 DEF Next, Halted

\* The threads, sockets and objects of the server implement a roster: in whatever
\* order they run, a client comes online only under a name that nobody else holds,
\* and clients go offline one at a time.  A second active client with a name that
\* is taken would be a step the roster does not have.
THEOREM ImplementsRoster == Spec => RefinesRoster
<1>1. Init => RosterSpec!Init
  BY EmptySeq DEF Init, RosterSpec!Init, Online, Members, ToSet
<1>2. QED
  BY <1>1, RosterStep, IInvInit, IInvStep, PTL DEF Spec, RosterMove, RefinesRoster, RosterSpec!Spec
=============================================================================
