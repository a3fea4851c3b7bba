----------------------- MODULE ChatSessionTextProofs -----------------------
(***************************************************************************)
(* Proofs about what travels in ChatSession: what the server takes of what    *)
(* the user typed, and what the client prints of what it received, however    *)
(* the streams are cut and whenever the connection ends.                     *)
(***************************************************************************)
EXTENDS ChatSessionProofs, TextsProofs

Text == Seq(Chars)
AnyLine == Lines \cup {Quit}

LEMMA LinesAreText ==
  /\ AnyLine \subseteq Text
  /\ \A l \in AnyLine : l # <<>> /\ Without(l, NL) = l /\ Without(l \o <<NL>>, NL) = l
<1> SUFFICES ASSUME NEW l \in AnyLine
             PROVE  /\ l \in Text /\ l # <<>>
                    /\ Without(l, NL) = l /\ Without(l \o <<NL>>, NL) = l
  OBVIOUS
<1>1. l \in Seq(Chars \ {NL}) /\ l # <<>>  BY ClientAssumption DEF AnyLine
<1>2. l \in Text
  <2>1. Chars \ {NL} \subseteq Chars  OBVIOUS
  <2> QED  BY <1>1, <2>1, SeqMonotonic DEF Text
<1>3. Without(l, NL) = l  BY <1>1, WithoutNone
<1>4. NL \in Chars /\ l \o <<NL>> = Append(l, NL)
  <2>1. NL \in Chars  BY ClientAssumption
  <2> QED  BY <1>2, <2>1, AppendIsConcat DEF Text
<1>5. Without(Append(l, NL), NL) = Without(l, NL)  BY <1>2, <1>4, WithoutAppend DEF Text
<1> QED  BY <1>1, <1>2, <1>3, <1>4, <1>5

LEMMA PiecesType ==
  ASSUME NEW b \in Text
  PROVE  Pieces(b) \in Seq(Text)
<1>1. Split(b, NL) \in Seq(Text)  BY SplitType DEF Text
<1> QED  BY <1>1, WithoutType DEF Pieces

Said == {"w", "p", "f", "i", "e", "r", "g", "m", "k"}

LEMMA SaidType == Prompt \in Text /\ (\A c \in Said : Says(c) \in Text) /\ <<NL>> \in Text
<1>1. NL \in Chars /\ Said \subseteq Chars  BY ClientAssumption, SessionAssumption DEF Said
<1>2. <<"w", NL, "p">> \in Seq(Chars)  BY <1>1 DEF Said
<1>3. \A c \in Said : <<c, NL>> \in Seq(Chars)  BY <1>1
<1>4. <<NL>> \in Seq(Chars)  BY <1>1
<1> QED  BY <1>2, <1>3, <1>4 DEF Prompt, Says, Text

\* What the server may send.
LEMMA SendsText ==
  ASSUME NEW d \in Text
  PROVE  /\ d \o Prompt \in Text /\ d \o <<NL>> \in Text
         /\ \A c \in Said : d \o Says(c) \in Text
BY SaidType, ConcatProperties DEF Text

\* What \o does to texts.
LEMMA OnText ==
  /\ <<>> \in Text
  /\ \A a \in Text : a \o <<>> = a
  /\ \A a, b \in Text : /\ a \o b \in Text /\ IsPrefix(a, a \o b)
                        /\ Without(a \o b, NL) = Without(a, NL) \o Without(b, NL)
  /\ \A a, b, c \in Text : (a \o b) \o c = a \o (b \o c)
<1>1. \A a \in Text : a \o <<>> = a  BY ConcatEmptySeq DEF Text
<1>2. \A a, b \in Text : a \o b \in Text  BY ConcatProperties DEF Text
<1>3. \A a, b \in Text : IsPrefix(a, a \o b)  BY PrefixOfConcat DEF Text
<1>4. \A a, b \in Text : Without(a \o b, NL) = Without(a, NL) \o Without(b, NL)
  BY WithoutConcat DEF Text
<1>5. \A a, b, c \in Text : (a \o b) \o c = a \o (b \o c)  BY ConcatAssociative DEF Text
<1>6. <<>> \in Text  BY DEF Text
<1> HIDE DEF Text
<1> QED  BY <1>1, <1>2, <1>3, <1>4, <1>5, <1>6

-----------------------------------------------------------------------------
(* Types.                                                                   *)

\* TypeOK, but for what decides where the threads go.
TextOK ==
  /\ line \in AnyLine \cup {<<>>}
  /\ up \in Text /\ down \in Text
  /\ remote \in {"open", "closed", "reset"}
  /\ typed \in Seq(AnyLine) /\ Len(typed) <= MaxLines /\ paced \in BOOLEAN
  /\ received \in Text /\ shown \in Seq(Text)
  /\ hpc \in {"accept", "name", "register", "shared", "chat", "leaving", "left"}
  /\ taken \in Seq(Text) /\ told \in 0..MaxTold /\ held \in BOOLEAN

LEMMA InitTextOK == Init => TextOK
<1>1. Init => held \in BOOLEAN /\ paced \in BOOLEAN  BY Zenon DEF Init, ClientInit
<1>2. Init => /\ line = <<>> /\ up \in Text /\ down \in Text /\ remote = "open"
              /\ typed \in Seq(AnyLine) /\ Len(typed) <= MaxLines
              /\ received \in Text /\ shown \in Seq(Text)
              /\ hpc = "accept" /\ taken \in Seq(Text) /\ told \in 0..MaxTold
  BY ClientAssumption, SessionAssumption DEF Init, ClientInit, Text
<1> QED  BY <1>1, <1>2 DEF TextOK

\* The client's actions that neither type, send, receive nor close.
Silent ==
  \/ Connect \/ ConnectFails \/ Join \/ Destroy \/ InputTest \/ TypeLocal \/ EndOfInput
  \/ SendTest \/ SendFails \/ QuitDisconnect \/ ReceiveTest \/ ReceiveEnds
  \/ \E t \in Threads : ClearFlags(t) \/ CheckSocket(t) \/ ForgetSocket(t)

textVars == <<netVars, userVars, screenVars, taken, told>>

LEMMA SilentKeeps == Silent => UNCHANGED <<netVars, userVars, screenVars>>
  BY DEF Silent, Connect, ConnectFails, Join, Destroy, InputTest, TypeLocal, EndOfInput,
         SendTest, SendFails, QuitDisconnect, ReceiveTest, ReceiveEnds, ClearFlags,
         CheckSocket, ForgetSocket

\* The client's steps, and everybody's.
LEMMA ClientSteps ==
  ClientStep =>
    \/ Silent \/ Send
    \/ \E l \in AnyLine : Type(l)
    \/ \E t \in Threads : CloseSocket(t)
    \/ \E n \in 1..Len(down) : Receive(n)
BY DEF ClientStep, UserStep, MainStep, ReceiverStep, DisconnectStep, Silent, Threads, AnyLine

LEMMA CloseRemoteType ==
  ASSUME TextOK, NEW u, NEW c \in Text, CloseRemote(u, c)
  PROVE  /\ remote' \in {"closed", "reset"} /\ up' = <<>> /\ up' \in Text /\ down' \in Text
<1>1. <<>> \in Text /\ down \o c \in Text  BY DEF TextOK, Text
<1> QED  BY <1>1 DEF TextOK, CloseRemote, SendDown

LEMMA MessageType ==
  ASSUME TextOK, NEW n \in 1..Len(up)
  PROVE  /\ Message(n) \in Text /\ SubSeq(up, n + 1, Len(up)) \in Text
<1>1. SubSeq(up, 1, n) \in Text /\ SubSeq(up, n + 1, Len(up)) \in Text  BY DEF TextOK, Text
<1> QED  BY <1>1, WithoutType DEF Message, Text

LEMMA TextOKKept == IInv /\ TextOK /\ [Next]_vars => TextOK'
<1> SUFFICES ASSUME IInv, TextOK, [Next]_vars
             PROVE  TextOK'
  OBVIOUS
<1>1. CASE ClientStep /\ UNCHANGED handlerVars
  <2>1. CASE Silent
    <3>1. UNCHANGED <<netVars, userVars, screenVars, handlerVars>>  BY <1>1, <2>1, SilentKeeps
    <3> QED  BY <3>1 DEF TextOK, netVars, userVars, screenVars, handlerVars
  <2>2. CASE Send
    <3>1. line \in Text
      <4>1. <<>> \in Text  BY DEF Text
      <4> QED  BY <4>1, LinesAreText DEF TextOK
    <3>2. up \o line \in Text  BY <3>1 DEF TextOK, Text
    <3>3. up \o line \o <<NL>> \in Text  BY <3>2, SendsText
    <3> QED  BY <1>1, <2>2, <3>3 DEF Send, TextOK, screenVars, handlerVars
  <2>3. ASSUME NEW l \in AnyLine, Type(l)
        PROVE  TextOK'
    <3>1. Append(typed, l) \in Seq(AnyLine) /\ Len(Append(typed, l)) = Len(typed) + 1
      BY DEF TextOK
    <3>2. typed' \in Seq(AnyLine) /\ Len(typed') <= MaxLines
      BY <2>3, <3>1, ClientAssumption DEF Type, TextOK
    <3> QED  BY <1>1, <2>3, <3>2 DEF Type, TextOK, netVars, screenVars, handlerVars
  <2>4. ASSUME NEW t \in Threads, CloseSocket(t)
        PROVE  TextOK'
    <3>1. <<>> \in Text  BY DEF Text
    <3> QED  BY <1>1, <2>4, <3>1 DEF CloseSocket, TextOK, userVars, screenVars, handlerVars
  <2>5. ASSUME NEW n \in 1..Len(down), Receive(n)
        PROVE  TextOK'
    <3>1. SubSeq(down, 1, n) \in Text /\ SubSeq(down, n + 1, Len(down)) \in Text
      BY DEF TextOK, Text
    <3>2. received \o SubSeq(down, 1, n) \in Text  BY <3>1 DEF TextOK, Text
    <3>3. shown \o Pieces(SubSeq(down, 1, n)) \in Seq(Text)
      BY <3>1, PiecesType, ConcatProperties DEF TextOK
    <3> QED  BY <1>1, <2>5, <3>1, <3>2, <3>3 DEF Receive, TextOK, userVars, handlerVars
  <2> QED  BY <1>1, <2>1, <2>2, <2>3, <2>4, <2>5, ClientSteps
<1>2. ASSUME NEW c \in Said, Tells(c) \/ TellsNothing
      PROVE  down' \in Text /\ told' \in 0..MaxTold
  <2>1. down \o Says(c) \in Text  BY SendsText DEF TextOK
  <2>2. CASE Tells(c)
    <3>1. told + 1 \in 0..MaxTold  BY <2>2, SessionAssumption DEF Tells, TextOK
    <3> QED  BY <2>1, <2>2, <3>1 DEF Tells, SendDown, TextOK
  <2>3. CASE TellsNothing  BY <2>3 DEF TellsNothing, TextOK
  <2> QED  BY <1>2, <2>2, <2>3
<1>3. CASE Accept \/ Joins \/ Shares \/ Relay
  <2>1. down \o Prompt \in Text /\ down \o Says("i") \in Text
    BY SendsText DEF TextOK, Said
  <2>2. CASE Accept
    BY <2>1, <2>2 DEF Accept, SendDown, TextOK, userVars, screenVars
  <2>3. CASE Joins
    BY <2>1, <2>3 DEF Joins, SendDown, TextOK, userVars, screenVars
  <2>4. CASE Shares
    <3>1. down' \in Text /\ told' \in 0..MaxTold  BY <1>2, <2>4 DEF Shares, Said
    <3> QED  BY <2>4, <3>1 DEF Shares, TextOK, userVars, screenVars
  <2>5. CASE Relay
    <3>1. down' \in Text /\ told' \in 0..MaxTold  BY <1>2, <2>5 DEF Relay, Said
    <3> QED  BY <2>5, <3>1 DEF Relay, TextOK, userVars, screenVars
  <2> QED  BY <1>3, <2>2, <2>3, <2>4, <2>5
<1>4. CASE Refuse \/ NameTaken \/ Leave \/ Kick \/ ServerEnds
  <2>1. \E c \in Text : CloseRemote(up, c)
    <3>1. <<>> \in Text  BY DEF Text
    <3> QED  BY <1>4, <3>1, SaidType DEF Refuse, NameTaken, Leave, Kick, ServerEnds, Said
  <2>2. remote' \in {"closed", "reset"} /\ up' \in Text /\ down' \in Text
    BY <2>1, CloseRemoteType
  <2> QED
    BY <1>4, <2>2 DEF Refuse, NameTaken, Leave, Kick, ServerEnds, TextOK, userVars, screenVars
<1>5. CASE PeerGone \/ OthersLock \/ OthersUnlock
  BY <1>5 DEF PeerGone, OthersLock, OthersUnlock, TextOK, clientVars, netVars, userVars,
              screenVars
<1>6. ASSUME NEW n \in 1..Len(up), ReadsName(n) \/ Hears(n)
      PROVE  TextOK'
  <2>1. Message(n) \in Text /\ SubSeq(up, n + 1, Len(up)) \in Text  BY MessageType
  <2>2. <<Message(n)>> \in Seq(Text) /\ Append(taken, Message(n)) \in Seq(Text)
    BY <2>1 DEF TextOK
  <2>3. CASE ReadsName(n)
    BY <2>1, <2>2, <2>3 DEF ReadsName, Recv, TextOK, screenVars
  <2>4. CASE Hears(n)
    <3>1. down \o Says("g") \in Text  BY SendsText DEF TextOK, Said
    <3>2. down' \in Text /\ told' \in 0..MaxTold
      BY <1>2, <2>4, <3>1 DEF Hears, SendDown, TextOK, Said
    <3>3. hpc' \in {"leaving", "chat", "shared"}  BY <2>4 DEF Hears
    <3>4. up' \in Text /\ taken' \in Seq(Text) /\ paced' \in BOOLEAN
      BY <2>1, <2>2, <2>4 DEF Hears, Recv, TextOK
    <3> QED  BY <2>4, <3>2, <3>3, <3>4 DEF Hears, TextOK, screenVars
  <2> QED  BY <1>6, <2>3, <2>4
<1>7. CASE Over \/ UNCHANGED vars
  BY <1>7 DEF Over, vars, clientVars, handlerVars, TextOK, netVars, userVars, screenVars
<1> QED  BY <1>1, <1>3, <1>4, <1>5, <1>6, <1>7 DEF Next, HandlerStep, OthersStep

LEMMA TextInvariance == Spec => [](IInv /\ TextOK)
<1> QED  BY InitIInv, InitTextOK, NextKeeps, TextOKKept, PTL DEF Spec

\* Every variable of the session has its type in every state: in particular what the
\* program cuts out of the streams is text whatever the streams hold.
THEOREM SessionTyped == Spec => []TypeOK
<1>1. IInv /\ TextOK => TypeOK  BY DEF IInv, TextOK, TypeOK, Text, AnyLine
<1> QED  BY <1>1, TextInvariance, PTL

-----------------------------------------------------------------------------
(* What the client prints.                                                  *)

LEMMA PiecesKeepText ==
  ASSUME NEW b \in Text
  PROVE  FlattenSeq(Pieces(b)) = Without(b, NL)
<1>1. Split(b, NL) \in Seq(Text)  BY SplitType DEF Text
<1>2. FlattenSeq(Pieces(b)) = FlattenSeq(Split(b, NL))
  BY <1>1, FlattenPieces DEF Pieces, Text
<1> QED  BY <1>2, SplitFlattens DEF Text

\* One recv() more: the line feeds in it are where pieces of it end.
LEMMA ReceiveKeepsLines ==
  ASSUME TextOK, ShownKeepsLines, NEW b \in Text,
         received' = received \o b, shown' = shown \o Pieces(b)
  PROVE  ShownKeepsLines'
<1>1. received \in Text /\ shown \in Seq(Text) /\ Pieces(b) \in Seq(Text)
  BY PiecesType DEF TextOK
<1>2. FlattenSeq(shown') = FlattenSeq(shown) \o FlattenSeq(Pieces(b))
  BY <1>1, FlattenConcat DEF Text
<1>3. Without(received', NL) = Without(received, NL) \o Without(b, NL)
  BY <1>1, WithoutConcat DEF Text
<1>4. FlattenSeq(shown') = Without(received', NL)
  BY <1>2, <1>3, PiecesKeepText DEF ShownKeepsLines
<1>5. ASSUME NEW i \in DOMAIN received', received'[i] = NL
      PROVE  \E k \in 0..Len(shown') :
               Len(FlattenSeq(SubSeq(shown', 1, k))) = Len(Without(SubSeq(received', 1, i), NL))
  <2>1. /\ received' \in Text /\ i \in 1..(Len(received) + Len(b))
        /\ Len(shown') = Len(shown) + Len(Pieces(b))
        /\ Len(received) \in Nat /\ Len(b) \in Nat
        /\ Len(shown) \in Nat /\ Len(Pieces(b)) \in Nat
    BY <1>1, <1>5 DEF Text
  <2>2. CASE i <= Len(received)
    <3>1. i \in 0..Len(received) /\ i \in DOMAIN received /\ received[i] = NL
      BY <1>1, <1>5, <2>1, <2>2 DEF Text
    <3>2. SubSeq(received', 1, i) = SubSeq(received, 1, i)  BY <1>1, <3>1, TakeFirst DEF Text
    <3>3. PICK k \in 0..Len(shown) :
            Len(FlattenSeq(SubSeq(shown, 1, k))) = Len(Without(SubSeq(received, 1, i), NL))
      BY <3>1 DEF ShownKeepsLines, LineEnds, PieceEnds
    <3>4. SubSeq(shown', 1, k) = SubSeq(shown, 1, k)  BY <1>1, TakeFirst
    <3>5. k \in 0..Len(shown')  BY <2>1
    <3> QED  BY <3>2, <3>3, <3>4, <3>5
  <2>3. CASE i > Len(received)
    <3> DEFINE j == i - Len(received)
    <3>1. j \in 1..Len(b) /\ i = Len(received) + j /\ b[j] = NL
      BY <1>1, <1>5, <2>1, <2>3 DEF Text
    <3> HIDE DEF j
    <3>2. SubSeq(received', 1, i) = received \o SubSeq(b, 1, j)
      <4>1. j \in 0..Len(b)  BY <3>1
      <4>2. SubSeq(received \o b, 1, Len(received) + j) = received \o SubSeq(b, 1, j)
        BY <1>1, <4>1, TakeMore DEF Text
      <4> QED  BY <3>1, <4>2
    <3>3. SubSeq(b, 1, j) \in Text  BY <3>1, TwoParts DEF Text
    <3>4. Without(SubSeq(received', 1, i), NL) =
            Without(received, NL) \o Without(SubSeq(b, 1, j), NL)
      <4>1. \A u \in Text : Without(received \o u, NL) = Without(received, NL) \o Without(u, NL)
        BY <1>1, OnText
      <4> QED  BY <3>2, <3>3, <4>1
    <3>5. PICK k \in 0..Len(Pieces(b)) :
            FlattenSeq(SubSeq(Pieces(b), 1, k)) = Without(SubSeq(b, 1, j), NL)
      BY <3>1, PieceEndsAtSeparator DEF Pieces, Text
    <3>6. SubSeq(shown', 1, Len(shown) + k) = shown \o SubSeq(Pieces(b), 1, k)
      BY <1>1, TakeMore
    <3>7. SubSeq(Pieces(b), 1, k) \in Seq(Text)  BY <1>1, TwoParts
    <3>8. FlattenSeq(shown \o SubSeq(Pieces(b), 1, k)) =
            FlattenSeq(shown) \o FlattenSeq(SubSeq(Pieces(b), 1, k))
      BY <1>1, <3>7, FlattenConcat DEF Text
    <3>9. FlattenSeq(SubSeq(shown', 1, Len(shown) + k)) = Without(SubSeq(received', 1, i), NL)
      BY <3>4, <3>5, <3>6, <3>8 DEF ShownKeepsLines
    <3>10. Len(shown) + k \in 0..Len(shown')  BY <2>1
    <3> QED  BY <3>9, <3>10
  <2> QED  BY <2>1, <2>2, <2>3
<1>6. LineEnds' \subseteq PieceEnds'  BY <1>5 DEF LineEnds, PieceEnds
<1> QED  BY <1>4, <1>6 DEF ShownKeepsLines

LEMMA ScreenKept == TextOK /\ ShownKeepsLines /\ [Next]_vars => ShownKeepsLines'
<1> SUFFICES ASSUME TextOK, ShownKeepsLines, [Next]_vars
             PROVE  ShownKeepsLines'
  OBVIOUS
<1>1. CASE UNCHANGED screenVars
  BY <1>1 DEF screenVars, ShownKeepsLines, LineEnds, PieceEnds
<1>2. CASE \E n \in 1..Len(down) : Receive(n)
  <2>1. PICK n \in 1..Len(down) : Receive(n)  BY <1>2
  <2>2. SubSeq(down, 1, n) \in Text  BY TwoParts DEF TextOK, Text
  <2> QED  BY <2>1, <2>2, ReceiveKeepsLines DEF Receive
<1>3. UNCHANGED screenVars \/ \E n \in 1..Len(down) : Receive(n)
  <2>1. ClientStep => UNCHANGED screenVars \/ \E n \in 1..Len(down) : Receive(n)
    BY ClientSteps, SilentKeeps DEF Send, Type, CloseSocket
  <2>2. HandlerStep \/ OthersStep \/ Over => UNCHANGED screenVars
    BY DEF HandlerStep, OthersStep, Accept, Refuse, ReadsName, NameTaken, Joins, Hears, Shares,
           PeerGone, Leave, Relay, Kick, ServerEnds, OthersLock, OthersUnlock, Over, vars,
           clientVars
  <2> QED  BY <2>1, <2>2 DEF Next, vars, clientVars
<1> QED  BY <1>1, <1>2, <1>3

\* The client prints every character it received except line feeds, in order, and every
\* line of the server ends a piece that it prints, wherever recv() cuts the stream.
THEOREM LinesAreShown == Spec => []ShownKeepsLines
<1>1. Init => ShownKeepsLines
  <2> SUFFICES ASSUME Init
               PROVE  ShownKeepsLines
    OBVIOUS
  <2>1. received = <<>> /\ shown = <<>>  BY DEF Init, ClientInit
  <2>2. FlattenSeq(shown) = Without(received, NL)  BY <2>1, FlattenEmpty, WithoutEmpty
  <2>3. LineEnds = {}  BY <2>1 DEF LineEnds
  <2> QED  BY <2>2, <2>3 DEF ShownKeepsLines
<1> QED  BY <1>1, TextInvariance, ScreenKept, PTL DEF Spec

-----------------------------------------------------------------------------
(* The way up, from what the user typed to what the server takes.           *)

\* A line that the client sends now would reach the server.
Lossless == remote = "open" /\ open /\ (connected \/ pc[Main] = "sending")

\* The line that was typed and is not sent yet.
Unsent == IF pc[Main] \in {"send", "sending"} THEN <<line>> ELSE <<>>

\* Before the connection there is nothing, and before the username nothing was taken.
StartInv ==
  /\ pc[Receiver] = "none" =>
       /\ pc[Main] \in {"connect", "destroy"} \cup Closing /\ next[Main] \in {"none", "end"}
       /\ typed = <<>> /\ taken = <<>> /\ up = <<>> /\ hpc = "accept"
  /\ hpc \in {"accept", "name"} => taken = <<>>

LEMMA InitStartInv == Init => StartInv
  BY DEF Init, ClientInit, StartInv, Threads, Main, Receiver

\* What a step does to the lines on their way.  Nothing to them:
Steady ==
  /\ UNCHANGED <<up, typed, taken>> /\ (paced' => paced)
  /\ Lossless' => Lossless /\ Unsent' = Unsent

\* the connection comes to be;
Begins ==
  /\ up = <<>> /\ typed = <<>> /\ taken = <<>>
  /\ UNCHANGED <<up, typed, taken>> /\ Unsent' = <<>>

\* a line is typed;
Types(l) ==
  /\ typed' = Append(typed, l) /\ UNCHANGED <<up, taken, paced>>
  /\ Lossless' => Lossless /\ Unsent = <<>> /\ Unsent' = <<l>>

\* the line is sent;
Sends ==
  /\ Lossless /\ Unsent = <<line>> /\ Unsent' = <<>>
  /\ up' = up \o line \o <<NL>> /\ paced' = (paced /\ up = <<>>)
  /\ UNCHANGED <<typed, taken>>

\* what is on its way is lost, and so will be what follows;
Loses == up' = <<>> /\ ~Lossless' /\ UNCHANGED <<typed, taken, paced>>

\* or the server takes what one recv() returns.
Takes(n) ==
  /\ \/ taken' = Append(taken, Message(n))
     \/ Message(n) = <<>> /\ taken' = taken
  /\ up' = SubSeq(up, n + 1, Len(up)) /\ (Lossless' => Lossless /\ Unsent' = Unsent)
  /\ paced' = (paced /\ n = Len(up)) /\ typed' = typed

Moves ==
  \/ Steady \/ Begins \/ Sends \/ Loses
  \/ \E l \in AnyLine : Types(l)
  \/ \E n \in 1..Len(up) : Takes(n)

LEMMA SilentMoves ==
  ASSUME IInv, StartInv, Silent, UNCHANGED handlerVars
  PROVE  StartInv' /\ (Steady \/ Begins)
<1> USE DEF IInv, ControlOK, SocketInv, OrderInv, ReceiverOver, StartInv, Threads, Main,
            Receiver, MainLabels, ReceiverLabels, Closing, Disconnecting, Goto, socketVars,
            netVars, userVars, handlerVars
<1>1. CASE Connect
  <2>1. Begins  BY <1>1 DEF Connect, Begins, Unsent
  <2> QED  BY <1>1, <2>1 DEF Connect
<1> USE DEF Steady, Lossless, Unsent
<1>2. CASE ConnectFails    BY <1>2 DEF ConnectFails
<1>3. CASE Join            BY <1>3 DEF Join
<1>4. CASE Destroy         BY <1>4 DEF Destroy
<1>5. CASE InputTest       BY <1>5 DEF InputTest
<1>6. CASE TypeLocal       BY <1>6 DEF TypeLocal
<1>7. CASE EndOfInput      BY <1>7 DEF EndOfInput
<1>8. CASE SendTest        BY <1>8 DEF SendTest
<1>9. CASE SendFails       BY <1>9 DEF SendFails
<1>10. CASE QuitDisconnect BY <1>10 DEF QuitDisconnect
<1>11. CASE ReceiveTest    BY <1>11 DEF ReceiveTest
<1>12. CASE ReceiveEnds    BY <1>12 DEF ReceiveEnds, RecvFails
<1>13. ASSUME NEW t \in Threads, ClearFlags(t) \/ CheckSocket(t) \/ ForgetSocket(t)
       PROVE  StartInv' /\ Steady
  <2>1. CASE ClearFlags(t)    BY <2>1 DEF ClearFlags
  <2>2. CASE CheckSocket(t)   BY <2>2 DEF CheckSocket
  <2>3. CASE ForgetSocket(t)  BY <2>3 DEF ForgetSocket
  <2> QED  BY <1>13, <2>1, <2>2, <2>3
<1> QED  BY <1>1, <1>2, <1>3, <1>4, <1>5, <1>6, <1>7, <1>8, <1>9, <1>10, <1>11, <1>12,
            <1>13 DEF Silent

LEMMA ClientMoves ==
  ASSUME IInv, TextOK, StartInv, ClientStep, UNCHANGED handlerVars
  PROVE  StartInv' /\ Moves
<1> USE DEF IInv, ControlOK, SocketInv, OrderInv, ReceiverOver, StartInv, Threads, Main,
            Receiver, MainLabels, ReceiverLabels, Closing, Disconnecting, Goto, socketVars,
            netVars, userVars, handlerVars, Lossless, Unsent
<1>1. CASE Silent  BY <1>1, SilentMoves DEF Moves
<1>2. CASE Send
  <2>1. StartInv'  BY <1>2 DEF Send
  <2>2. CASE remote = "open"
    <3>1. Sends  BY <1>2, <2>2 DEF Send, Sends
    <3> QED  BY <2>1, <3>1 DEF Moves
  <2>3. CASE remote # "open"
    <3>1. Steady  BY <1>2, <2>3 DEF Send, Steady, TextOK
    <3> QED  BY <2>1, <3>1 DEF Moves
  <2> QED  BY <2>2, <2>3
<1>3. ASSUME NEW l \in AnyLine, Type(l)
      PROVE  StartInv' /\ Moves
  <2>1. StartInv' /\ Types(l)  BY <1>3 DEF Type, Types
  <2> QED  BY <2>1 DEF Moves
<1>4. ASSUME NEW t \in Threads, CloseSocket(t)
      PROVE  StartInv' /\ Moves
  <2>1. StartInv'  BY <1>4 DEF CloseSocket
  <2>2. Steady \/ Loses  BY <1>4 DEF CloseSocket, Steady, Loses
  <2> QED  BY <2>1, <2>2 DEF Moves
<1>5. ASSUME NEW n \in 1..Len(down), Receive(n)
      PROVE  StartInv' /\ Moves
  <2>1. StartInv' /\ Steady  BY <1>5 DEF Receive, Steady
  <2> QED  BY <2>1 DEF Moves
<1> QED  BY <1>1, <1>2, <1>3, <1>4, <1>5, ClientSteps

LEMMA HandlerMoves ==
  ASSUME TextOK, StartInv, HandlerStep \/ OthersStep
  PROVE  StartInv' /\ Moves
<1> USE DEF StartInv, Lossless, Unsent, socketVars, netVars, userVars, screenVars
<1>1. CASE \/ Accept \/ Joins \/ Shares \/ Relay \/ PeerGone
           \/ OthersLock \/ OthersUnlock
  <2>1. StartInv' /\ Steady
    BY <1>1 DEF Accept, Joins, Shares, Relay, InTable, PeerGone, OthersLock, OthersUnlock,
                Steady, clientVars
  <2> QED  BY <2>1 DEF Moves
<1>2. CASE Refuse \/ NameTaken \/ Leave \/ Kick \/ ServerEnds
  <2>1. remote' \in {"closed", "reset"} /\ up' = <<>>
    BY <1>2 DEF Refuse, NameTaken, Leave, Kick, ServerEnds, CloseRemote
  <2>2. StartInv' /\ Loses
    BY <1>2, <2>1 DEF Refuse, NameTaken, Leave, Kick, InTable, ServerEnds, Loses
  <2> QED  BY <2>2 DEF Moves
<1>3. ASSUME NEW n \in 1..Len(up), ReadsName(n)
      PROVE  StartInv' /\ Moves
  <2>1. StartInv' /\ taken = <<>>  BY <1>3 DEF ReadsName, Recv
  <2>2. <<Message(n)>> = Append(taken, Message(n))  BY <2>1
  <2>3. Takes(n)  BY <1>3, <2>2 DEF ReadsName, Recv, Takes
  <2> QED  BY <2>1, <2>3 DEF Moves
<1>4. ASSUME NEW n \in 1..Len(up), Hears(n)
      PROVE  StartInv' /\ Moves
  <2>1. StartInv'  BY <1>4 DEF Hears, Recv
  <2>2. Takes(n)  BY <1>4 DEF Hears, Recv, Takes
  <2> QED  BY <2>1, <2>2 DEF Moves
<1> QED  BY <1>1, <1>2, <1>3, <1>4 DEF HandlerStep, OthersStep

\* Every step is one of these.
LEMMA StepMoves ==
  ASSUME IInv, TextOK, StartInv, [Next]_vars
  PROVE  StartInv' /\ Moves
<1>1. CASE ClientStep /\ UNCHANGED handlerVars  BY <1>1, ClientMoves
<1>2. CASE HandlerStep \/ OthersStep  BY <1>2, HandlerMoves
<1>3. CASE Over \/ UNCHANGED vars
  <2>1. UNCHANGED vars  BY <1>3 DEF Over
  <2>2. StartInv' /\ Steady
    BY <2>1 DEF vars, clientVars, socketVars, netVars, userVars, handlerVars, StartInv,
                Steady, Lossless, Unsent
  <2> QED  BY <2>2 DEF Moves
<1> QED  BY <1>1, <1>2, <1>3 DEF Next

-----------------------------------------------------------------------------
(* What the server takes.                                                   *)

\* What it took, and will take of what is on its way.
Heard == FlattenSeq(taken) \o Without(up, NL)

\* That begins what was typed; as long as nothing was lost it is all that was sent.
HeardInv ==
  /\ IsPrefix(Heard, FlattenSeq(typed))
  /\ Lossless => Heard \o FlattenSeq(Unsent) = FlattenSeq(typed)

LEMMA TextsAssociate == \A a, b, c \in Text : (a \o b) \o c = a \o (b \o c)
BY Associates DEF Text

LEMMA HeardType ==
  ASSUME TextOK
  PROVE  /\ FlattenSeq(taken) \in Text /\ Without(up, NL) \in Text /\ Heard \in Text
         /\ typed \in Seq(Text) /\ FlattenSeq(typed) \in Text
<1>1. FlattenSeq(taken) \in Text /\ Without(up, NL) \in Text
  BY FlattenType, WithoutType DEF TextOK, Text
<1>2. typed \in Seq(Text)  BY LinesAreText, SeqMonotonic DEF TextOK
<1>3. FlattenSeq(typed) \in Text  BY <1>2, FlattenType DEF Text
<1> QED  BY <1>1, <1>2, <1>3, ConcatProperties DEF Heard, Text

LEMMA FlattenOne ==
  ASSUME NEW l \in Text
  PROVE  FlattenSeq(<<l>>) = l
<1>1. <<>> \in Seq(Text) /\ Append(<<>>, l) = <<l>> /\ <<>> \o l = l  BY DEF Text
<1>2. FlattenSeq(Append(<<>>, l)) = FlattenSeq(<<>>) \o l  BY <1>1, FlattenAppend DEF Text
<1> QED  BY <1>1, <1>2, FlattenEmpty

LEMMA TypingKeepsHeard ==
  ASSUME TextOK, HeardInv, NEW l \in AnyLine, Types(l)
  PROVE  HeardInv'
<1>1. l \in Text  BY LinesAreText
<1>2. Heard' = Heard  BY DEF Types, Heard
<1>3. FlattenSeq(typed') = FlattenSeq(typed) \o l
  BY <1>1, HeardType, FlattenAppend DEF Types, Text
<1>4. PICK w \in Text : FlattenSeq(typed) = Heard \o w
  BY HeardType, RestAfterPrefix DEF HeardInv, Text
<1>5. FlattenSeq(typed') = Heard \o (w \o l) /\ w \o l \in Text
  <2>1. Heard \in Text  BY HeardType
  <2>2. (Heard \o w) \o l = Heard \o (w \o l) /\ w \o l \in Text  BY <1>1, <2>1, OnText
  <2> QED  BY <1>3, <1>4, <2>2
<1>6. IsPrefix(Heard', FlattenSeq(typed'))
  BY <1>2, <1>5, HeardType, PrefixOfConcat DEF Text
<1>7. ASSUME Lossless'
      PROVE  Heard' \o FlattenSeq(Unsent)' = FlattenSeq(typed')
  <2>1. Lossless /\ Unsent = <<>> /\ Unsent' = <<l>>  BY <1>7 DEF Types
  <2>2. Heard \o <<>> = FlattenSeq(typed)  BY <2>1, FlattenEmpty DEF HeardInv
  <2>3. Heard = FlattenSeq(typed)  BY <2>2, HeardType, ConcatEmptySeq DEF Text
  <2>4. FlattenSeq(Unsent)' = l  BY <1>1, <2>1, FlattenOne
  <2> QED  BY <1>2, <1>3, <2>3, <2>4
<1> QED  BY <1>6, <1>7 DEF HeardInv

LEMMA SendingKeepsHeard ==
  ASSUME TextOK, HeardInv, Sends
  PROVE  HeardInv'
<1>1. line \in Text
  <2>1. <<>> \in Text  BY DEF Text
  <2> QED  BY <2>1, LinesAreText DEF TextOK
<1>2. Without(up', NL) = Without(up, NL) \o line
  <2>1. up \o line \in Text /\ <<NL>> \in Text  BY <1>1, SaidType DEF TextOK, Text
  <2>2. Without(up', NL) = Without(up \o line, NL) \o Without(<<NL>>, NL)
    BY <2>1, OnText DEF Sends
  <2>3. Without(up \o line, NL) = Without(up, NL) \o Without(line, NL)
    BY <1>1, OnText DEF TextOK
  <2>4. Without(line, NL) = line  BY LinesAreText, WithoutEmpty DEF TextOK
  <2>5. Without(<<NL>>, NL) = <<>>
    <3>1. <<>> \in Seq(Chars) /\ NL \in Chars /\ Append(<<>>, NL) = <<NL>>
      BY ClientAssumption
    <3>2. Without(Append(<<>>, NL), NL) = Without(<<>>, NL)  BY <3>1, WithoutAppend
    <3> QED  BY <3>1, <3>2, WithoutEmpty
  <2>6. Without(up, NL) \o line \in Text  BY <1>1, HeardType, ConcatProperties DEF Text
  <2> QED  BY <2>2, <2>3, <2>4, <2>5, <2>6, ConcatEmptySeq DEF Text
<1>3. Heard' = Heard \o line
  <2>1. Heard' = FlattenSeq(taken) \o (Without(up, NL) \o line)  BY <1>2 DEF Heard, Sends
  <2>2. FlattenSeq(taken) \in Text /\ Without(up, NL) \in Text  BY HeardType
  <2>3. (FlattenSeq(taken) \o Without(up, NL)) \o line
          = FlattenSeq(taken) \o (Without(up, NL) \o line)
    BY <1>1, <2>2, OnText
  <2> QED  BY <2>1, <2>3 DEF Heard
<1>4. Heard \o line = FlattenSeq(typed)  BY <1>1, FlattenOne DEF HeardInv, Sends
<1>5. Heard' = FlattenSeq(typed') /\ Heard' \in Text
  BY <1>3, <1>4, HeardType DEF Sends
<1>6. Heard' \o <<>> = Heard' /\ <<>> \in Text  BY <1>5, ConcatEmptySeq DEF Text
<1>7. IsPrefix(Heard', FlattenSeq(typed'))  BY <1>5, <1>6, PrefixOfConcat DEF Text
<1>8. FlattenSeq(Unsent)' = <<>>  BY FlattenEmpty DEF Sends
<1> QED  BY <1>5, <1>6, <1>7, <1>8 DEF HeardInv

LEMMA LosingKeepsHeard ==
  ASSUME TextOK, HeardInv, Loses
  PROVE  HeardInv'
<1>1. Heard' = FlattenSeq(taken)
  <2>1. Without(up', NL) = <<>>  BY WithoutEmpty DEF Loses
  <2>2. FlattenSeq(taken) \o <<>> = FlattenSeq(taken)  BY HeardType, OnText
  <2> QED  BY <2>1, <2>2 DEF Heard, Loses
<1>2. PICK w \in Text : FlattenSeq(typed) = Heard \o w
  BY HeardType, RestAfterPrefix DEF HeardInv, Text
<1>3. Heard \o w = FlattenSeq(taken) \o (Without(up, NL) \o w)
  BY HeardType, TextsAssociate DEF Heard
<1>4. Without(up, NL) \o w \in Text  BY HeardType, OnText
<1>5. IsPrefix(Heard', FlattenSeq(typed))  BY <1>1, <1>2, <1>3, <1>4, HeardType, OnText
<1> QED  BY <1>5 DEF HeardInv, Loses

\* Where recv() cuts does not matter.
LEMMA TakingKeepsHeard ==
  ASSUME TextOK, HeardInv, NEW n \in 1..Len(up), Takes(n)
  PROVE  HeardInv'
<1> DEFINE m == Message(n)
           rest == SubSeq(up, n + 1, Len(up))
           r == Without(rest, NL)
<1>1. m \in Text /\ rest \in Text /\ r \in Text  BY MessageType, WithoutType DEF Text
<1>2. Without(up, NL) = m \o r
  <2>1. n \in 0..Len(up) /\ up \in Text  BY DEF TextOK, Text
  <2>2. SubSeq(up, 1, n) \in Text /\ up = SubSeq(up, 1, n) \o rest  BY <2>1, TwoParts DEF Text
  <2>3. Without(SubSeq(up, 1, n) \o rest, NL) = Without(SubSeq(up, 1, n), NL) \o r
    BY <1>1, <2>2, OnText
  <2> QED  BY <2>2, <2>3 DEF Message
<1> HIDE DEF m, rest, r
<1>3. FlattenSeq(taken') = FlattenSeq(taken) \o m
  <2>1. CASE taken' = Append(taken, m)
    BY <1>1, <2>1, FlattenAppend DEF TextOK, Text
  <2>2. CASE m = <<>> /\ taken' = taken
    BY <2>2, HeardType, OnText
  <2> QED  BY <2>1, <2>2 DEF Takes, m
<1>4. Heard = FlattenSeq(taken') \o r /\ FlattenSeq(taken') \in Text
  <2>1. Heard = FlattenSeq(taken) \o (m \o r)  BY <1>2 DEF Heard
  <2>2. FlattenSeq(taken) \o (m \o r) = (FlattenSeq(taken) \o m) \o r
    <3>1. \A a \in Text : a \o (m \o r) = (a \o m) \o r
      BY <1>1, TextsAssociate
    <3> QED  BY <3>1, HeardType
  <2>3. FlattenSeq(taken) \o m \in Text  BY <1>1, HeardType, OnText
  <2> QED  BY <1>3, <2>1, <2>2, <2>3
<1>5. Heard' = Heard  BY <1>4 DEF Takes, Heard, r, rest
<1> QED  BY <1>5 DEF HeardInv, Takes

LEMMA NothingIsHeard ==
  ASSUME up = <<>>, typed = <<>>, taken = <<>>, Unsent = <<>>
  PROVE  HeardInv
<1>1. FlattenSeq(typed) = <<>> /\ FlattenSeq(Unsent) = <<>>  BY FlattenEmpty
<1>2. Heard = <<>>
  <2>1. <<>> \o <<>> = <<>>  BY OnText
  <2> QED  BY <2>1, FlattenEmpty, WithoutEmpty DEF Heard
<1>3. <<>> \o <<>> = <<>> /\ IsPrefix(<<>>, <<>>)  BY OnText
<1> QED  BY <1>1, <1>2, <1>3 DEF HeardInv

LEMMA HeardKept == TextOK /\ HeardInv /\ Moves => HeardInv'
<1> SUFFICES ASSUME TextOK, HeardInv, Moves
             PROVE  HeardInv'
  OBVIOUS
<1>1. CASE Steady
  <2>1. Heard' = Heard /\ typed' = typed  BY <1>1 DEF Steady, Heard
  <2> QED  BY <1>1, <2>1 DEF HeardInv, Steady
<1>2. CASE Begins
  <2>1. up' = <<>> /\ typed' = <<>> /\ taken' = <<>> /\ Unsent' = <<>>  BY <1>2 DEF Begins
  <2>2. FlattenSeq(typed') = <<>> /\ FlattenSeq(Unsent)' = <<>>  BY <2>1, FlattenEmpty
  <2>3. <<>> \o <<>> = <<>> /\ IsPrefix(<<>>, <<>>)  BY OnText
  <2>4. Heard' = <<>>  BY <2>1, <2>3, FlattenEmpty, WithoutEmpty DEF Heard
  <2> QED  BY <2>2, <2>3, <2>4 DEF HeardInv
<1> QED  BY <1>1, <1>2, TypingKeepsHeard, SendingKeepsHeard, LosingKeepsHeard,
            TakingKeepsHeard DEF Moves

LEMMA SessionInvariance == Spec => [](IInv /\ TextOK /\ StartInv /\ HeardInv)
<1>1. Init => HeardInv
  BY NothingIsHeard DEF Init, ClientInit, Unsent, Threads, Main
<1>2. IInv /\ TextOK /\ StartInv /\ HeardInv /\ [Next]_vars => StartInv' /\ HeardInv'
  BY StepMoves, HeardKept
<1> QED  BY <1>1, <1>2, InitIInv, InitTextOK, InitStartInv, NextKeeps, TextOKKept, PTL DEF Spec

\* Whatever recv() returns and whenever the connection ends, what the server took for
\* the username and messages, put together, begins what the user typed.
THEOREM HeardAsTyped == Spec => []HeardInOrder
<1>1. TextOK /\ HeardInv => HeardInOrder
  <2> SUFFICES ASSUME TextOK, HeardInv
               PROVE  HeardInOrder
    OBVIOUS
  <2>1. PICK w \in Text : FlattenSeq(typed) = Heard \o w
    BY HeardType, RestAfterPrefix DEF HeardInv, Text
  <2>2. Heard \o w = FlattenSeq(taken) \o (Without(up, NL) \o w)
    BY HeardType, TextsAssociate DEF Heard
  <2>3. Without(up, NL) \o w \in Text  BY HeardType, OnText
  <2> QED  BY <2>1, <2>2, <2>3, HeardType, OnText DEF HeardInOrder
<1> QED  BY <1>1, SessionInvariance, PTL

-----------------------------------------------------------------------------
(* One line, one message.                                                   *)

\* As long as the server had read everything whenever a line was sent, at most one line
\* is on its way, and what it took are the lines before it.
PaceInv ==
  paced =>
    \/ /\ up = <<>>
       /\ IsPrefix(taken, typed) /\ (Lossless => taken \o Unsent = typed)
    \/ \E l \in AnyLine :
         /\ up = l \o <<NL>>
         /\ IsPrefix(Append(taken, l), typed)
         /\ Lossless => Append(taken, l) \o Unsent = typed

\* What \o does to sequences of texts.
LEMMA OnTexts ==
  /\ <<>> \in Seq(Text)
  /\ \A a \in Seq(Text) : a \o <<>> = a /\ IsPrefix(a, a)
  /\ \A a \in Seq(Text), l \in Text :
       /\ Append(a, l) \in Seq(Text) /\ IsPrefix(a, Append(a, l)) /\ a \o <<l>> = Append(a, l)
  /\ \A a, b \in Seq(Text), l \in Text :
       IsPrefix(a, b) => IsPrefix(a, Append(b, l))
  /\ \A a, b \in Seq(Text), l \in Text :
       IsPrefix(Append(a, l), b) => IsPrefix(a, b)
BY DEF IsPrefix

LEMMA PaceKept == TextOK /\ PaceInv /\ Moves => PaceInv'
<1> SUFFICES ASSUME TextOK, PaceInv, Moves, paced'
             PROVE  \/ /\ up' = <<>>
                       /\ IsPrefix(taken', typed') /\ (Lossless' => taken' \o Unsent' = typed')
                    \/ \E l \in AnyLine :
                         /\ up' = l \o <<NL>>
                         /\ IsPrefix(Append(taken', l), typed')
                         /\ Lossless' => Append(taken', l) \o Unsent' = typed'
  BY DEF PaceInv
<1>0. taken \in Seq(Text) /\ typed \in Seq(Text) /\ AnyLine \subseteq Text
  BY HeardType, LinesAreText DEF TextOK
<1>1. CASE Steady  BY <1>1 DEF Steady, PaceInv
<1>2. CASE Begins
  <2>1. up' = <<>> /\ typed' = <<>> /\ taken' = <<>> /\ Unsent' = <<>>  BY <1>2 DEF Begins
  <2> QED  BY <2>1, OnTexts
<1>3. ASSUME NEW l \in AnyLine, Types(l)
      PROVE  \/ /\ up = <<>> /\ IsPrefix(taken, typed')
                /\ Lossless' => taken \o Unsent' = typed'
             \/ \E k \in AnyLine :
                  /\ up = k \o <<NL>> /\ IsPrefix(Append(taken, k), typed')
                  /\ Lossless' => Append(taken, k) \o Unsent' = typed'
  <2>1. typed' = Append(typed, l) /\ l \in Text /\ paced  BY <1>0, <1>3 DEF Types
  <2>2. Lossless' => Lossless /\ Unsent = <<>> /\ Unsent' = <<l>>  BY <1>3 DEF Types
  <2>3. CASE /\ up = <<>>
             /\ IsPrefix(taken, typed) /\ (Lossless => taken \o Unsent = typed)
    <3>1. IsPrefix(taken, typed')  BY <1>0, <2>1, <2>3, OnTexts
    <3>2. ASSUME Lossless'
          PROVE  taken \o Unsent' = typed'
      <4>1. taken = typed  BY <1>0, <2>2, <2>3, <3>2, OnTexts
      <4> QED  BY <1>0, <2>1, <2>2, <3>2, <4>1, OnTexts
    <3> QED  BY <2>3, <3>1, <3>2
  <2>4. ASSUME NEW k \in AnyLine, up = k \o <<NL>>, IsPrefix(Append(taken, k), typed),
               Lossless => Append(taken, k) \o Unsent = typed
        PROVE  /\ IsPrefix(Append(taken, k), typed')
               /\ Lossless' => Append(taken, k) \o Unsent' = typed'
    <3>1. Append(taken, k) \in Seq(Text)  BY <1>0, OnTexts
    <3>2. IsPrefix(Append(taken, k), typed')  BY <2>1, <2>4, <3>1, <1>0, OnTexts
    <3>3. Lossless' => Append(taken, k) \o Unsent' = typed'
      BY <2>1, <2>2, <2>4, <3>1, OnTexts
    <3> QED  BY <3>2, <3>3
  <2> QED  BY <2>1, <2>3, <2>4 DEF PaceInv
<1>4. CASE Sends
  <2>1. paced /\ up = <<>>  BY <1>4 DEF Sends
  <2>2. \A l \in AnyLine : l \o <<NL>> # <<>>
    <3>1. \A l \in Text : l \o <<NL>> # <<>>  BY DEF Text
    <3> QED  BY <1>0, <3>1
  <2>3. taken \o <<line>> = typed  BY <1>4, <2>1, <2>2 DEF PaceInv, Sends
  <2>4. line \in AnyLine
    <3>1. typed \in Seq(AnyLine)  BY DEF TextOK
    <3>2. Len(typed) \in 1..Len(typed) /\ typed[Len(typed)] = line  BY <1>0, <2>3
    <3> QED  BY <3>1, <3>2
  <2>5. up' = line \o <<NL>>
    <3>1. <<>> \o line = line  BY <1>0, <2>4 DEF Text
    <3> QED  BY <1>4, <2>1, <3>1 DEF Sends
  <2>6. Append(taken, line) = typed  BY <1>0, <2>3, <2>4, OnTexts
  <2>7. IsPrefix(typed, typed) /\ typed \o <<>> = typed  BY <1>0, OnTexts
  <2>8. IsPrefix(Append(taken', line), typed') /\ Append(taken', line) \o Unsent' = typed'
    BY <1>4, <2>6, <2>7 DEF Sends
  <2> QED  BY <2>4, <2>5, <2>8
<1>5. CASE Loses
  <2>1. IsPrefix(taken, typed)  BY <1>0, <1>5, OnTexts DEF PaceInv, Loses
  <2> QED  BY <1>5, <2>1 DEF Loses
<1>6. ASSUME NEW n \in 1..Len(up), Takes(n)
      PROVE  /\ up' = <<>>
             /\ IsPrefix(taken', typed') /\ (Lossless' => taken' \o Unsent' = typed')
  <2>1. paced /\ n = Len(up) /\ up # <<>> /\ typed' = typed /\ up \in Text
    <3>1. paced /\ n = Len(up) /\ typed' = typed  BY <1>6, Zenon DEF Takes
    <3>2. up \in Text  BY DEF TextOK
    <3>3. up # <<>>  BY <3>2 DEF Text
    <3> QED  BY <3>1, <3>2, <3>3
  <2>2. PICK l \in AnyLine : /\ up = l \o <<NL>> /\ IsPrefix(Append(taken, l), typed)
                             /\ Lossless => Append(taken, l) \o Unsent = typed
    BY <2>1 DEF PaceInv
  <2>3. Message(n) = l
    <3>1. SubSeq(up, 1, n) = up  BY <2>1, SubSeqFull DEF Text
    <3> QED  BY <2>2, <3>1, LinesAreText DEF Message
  <2>4. taken' = Append(taken, l)  BY <1>6, <2>3, LinesAreText DEF Takes
  <2>5. SubSeq(up, n + 1, Len(up)) = <<>>  BY <2>1, SubSeqEmpty DEF Text
  <2>6. up' = <<>> /\ (Lossless' => Lossless /\ Unsent' = Unsent)  BY <1>6, <2>5 DEF Takes
  <2> QED  BY <2>1, <2>2, <2>4, <2>6
<1> QED
  <2>1. CASE \E l \in AnyLine : Types(l)  BY <1>3, <2>1 DEF Types
  <2>2. CASE \E n \in 1..Len(up) : Takes(n)  BY <1>6, <2>2
  <2> QED  BY <1>1, <1>2, <1>4, <1>5, <2>1, <2>2 DEF Moves

\* When each line was read before the next was sent, every line the server took was one
\* message, and the first the username.
THEOREM PacedLinesTaken == Spec => []PacedLinesAreMessages
<1>1. Init => PaceInv
  BY OnTexts DEF Init, ClientInit, PaceInv, Unsent, Threads, Main
<1>2. IInv /\ TextOK /\ StartInv /\ PaceInv /\ [Next]_vars => PaceInv'
  BY StepMoves, PaceKept
<1>3. Spec => []PaceInv  BY <1>1, <1>2, SessionInvariance, PTL DEF Spec
<1>4. TextOK /\ PaceInv => PacedLinesAreMessages
  BY HeardType, LinesAreText, OnTexts DEF PaceInv, PacedLinesAreMessages, TextOK
<1> QED  BY <1>3, <1>4, SessionInvariance, PTL
=============================================================================
