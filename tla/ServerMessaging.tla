-------------------------- MODULE ServerMessaging --------------------------
(***************************************************************************)
(* A server that names itself in its messages as its configuration says, and  *)
(* a receiveLoop at the other end of its link: ServerConfiguration and        *)
(* InterServerProtocol joined by a stream of characters.  TCP may deliver the  *)
(* stream in parts of any length; receiveLoop takes each part for a message.  *)
(* What a connection is, and when it is open, is the subject of ServerLink.   *)
(***************************************************************************)
EXTENDS ServerConfiguration, InterServerProtocol

CONSTANTS
  Payloads,  \* what the operator sends; sendmsg sends no empty text
  Now        \* the time

ASSUME MessagingAssumption ==
  /\ Digits \cup {Bar} \subseteq Chars
  /\ Payloads \subseteq Seq(Chars) \ {<<>>}
  /\ Now \in Times

VARIABLES
  wire,      \* characters sent and not received
  sent, got, \* the messages sent, and the messages that were accepted
  framed     \* each recv() until now returned just one message

linkVars == <<wire, sent, got, framed>>
vars == <<configVars, linkVars>>

Init == ConfigInit /\ wire = <<>> /\ sent = <<>> /\ got = <<>> /\ framed = TRUE

\* sendServerMessage of server.cpp, as far as the other end of the link.
ForwardPublic(payload) ==
  [type |-> <<"2", "0", "0">>, server_id |-> config.server_id, target_server_id |-> <<>>,
   timestamp |-> Now, payload |-> payload]

SendServerMessage(payload) ==
  /\ Idle /\ acts < MaxActs
  /\ acts' = acts + 1
  /\ wire' = wire \o SerializeServerMessage(ForwardPublic(payload))
  /\ sent' = Append(sent, ForwardPublic(payload))
  /\ framed' = (framed /\ wire = <<>>)
  /\ UNCHANGED <<proc, config, known, file, unwritten, attempt, got>>

\* Mutant: what could not be parsed is used all the same.
ReceiveUnchecked(n) ==
  /\ wire' = SubSeq(wire, n + 1, Len(wire))
  /\ got' = Append(got, DeserializeServerMessage(SubSeq(wire, 1, n)))
  /\ framed' = (framed /\ n = Len(wire))
  /\ UNCHANGED <<configVars, sent>>

\* receiveLoop at the other end; what is rejected there only leaves a log line.
Receive(n) ==
  LET message == DeserializeServerMessage(SubSeq(wire, 1, n))
  IN /\ wire' = SubSeq(wire, n + 1, Len(wire))
     /\ got' = IF message = Rejected THEN got ELSE Append(got, message)
     /\ framed' = (framed /\ n = Len(wire))
     /\ UNCHANGED <<configVars, sent>>

\* The connection breaks; a server that starts again makes a new one.
LinkLost ==
  /\ proc = "down" /\ wire # <<>>
  /\ wire' = <<>> /\ framed' = FALSE
  /\ UNCHANGED <<configVars, sent, got>>

Next ==
  \/ ConfigStep /\ UNCHANGED linkVars
  \/ ProcessEnds /\ UNCHANGED linkVars
  \/ \E payload \in Payloads : SendServerMessage(payload)
  \/ \E n \in 1..Len(wire) : Receive(n)
  \/ LinkLost

Spec == Init /\ [][Next]_vars

-----------------------------------------------------------------------------
(* Correctness properties.                                                  *)

Text == Seq(Chars)
Message == [type : Text, server_id : Text, target_server_id : Text,
            timestamp : [seconds : Text, rest : Nat], payload : Text]

\* Every variable has its type; in particular the port is an int.
TypeOK ==
  /\ proc \in {"up", "down"}
  /\ config \in [ToSet(Keys) -> Text] /\ IsInteger(config["port"])
  /\ \A id \in DOMAIN known : known[id] \in Infos
  /\ file \in Seq([key : ToSet(Keys), text : Text])
  /\ unwritten \in Seq([key : ToSet(Keys), text : Text])
  /\ attempt \in [ToSet(Keys) -> Text] \cup {<<>>}
  /\ acts \in 0..MaxActs
  /\ wire \in Text /\ sent \in Seq(Message) /\ got \in Seq(Message)
  /\ framed \in BOOLEAN

\* A save that failed or was interrupted, wherever, leaves no file that the next start
\* would die of: loading it does not throw, unless the port was negative.
StartsAfterSave ==
  attempt # <<>> /\ attempt["port"] \in Numerals => ~Read(file, config).throws

\* Values that loading does not change: without blanks at the ends.
Storable(c) == \A k \in ToSet(Keys) : Trim(c[k]) = c[k]

Loading == LoadConfig \/ \E id \in RandomIds : Construct(id)

\* What a key of which a line was written in part may be read as.
Cuts(k, text) == {Parsed(Line(k, SubSeq(text, 1, n))) : n \in 1..Len(text)}

\* However far saveConfig got before it failed or the process died, loading gives
\* every key whose line was written the value that was being saved, and touches no
\* other: the new process has the default there, a running one what it had.  An
\* empty value counts as not written, as it looks like none.  Only the last line may
\* be cut short, and its value with it.  This needs values without blanks at their
\* ends, which loading takes away.
LoadRestores ==
  [][Loading /\ attempt # <<>> /\ Storable(attempt) =>
       \A i \in DOMAIN Keys :
         LET k == Keys[i]
             old == IF proc = "up" THEN {config[k]} ELSE {Default(id)[k] : id \in RandomIds}
         IN config'[k] \in
              IF i > Len(file) \/ attempt[k] = <<>> THEN old
              ELSE IF i < Len(file) \/ file[i].text = attempt[k] THEN {attempt[k]}
              ELSE old \cup Cuts(k, attempt[k])]_vars

NoBars(m) == Bar \notin ToSet(m.server_id) \cup ToSet(m.payload)

\* When each recv() returns one message, all are accepted and read as they were sent,
\* the time up to the second and the payload up to its first bar; only a bar in the
\* configured server_id would spoil them.
FramedIsFaithful ==
  framed /\ (\A i \in DOMAIN sent : Bar \notin ToSet(sent[i].server_id)) =>
    got = [i \in 1..(Len(sent) - IF wire = <<>> THEN 0 ELSE 1) |->
             [sent[i] EXCEPT !.timestamp = InSeconds(@), !.payload = Split(@, Bar)[1]]]

\* However the stream is cut and messages are glued, what is accepted names a server
\* that sent a message, although its other fields may be wrong; or it names none, when
\* the end of a server_id was read as the type.
SenderNeverForged ==
  (\A i \in DOMAIN sent : NoBars(sent[i])) =>
    \A j \in DOMAIN got :
      \E i \in DOMAIN sent :
        \/ got[j].server_id = sent[i].server_id
        \/ got[j].server_id = <<>> /\ ToSet(sent[i].server_id) \cap Digits # {}

\* A known server is described to others as it is, last_seen up to the second, unless a
\* text contains a bar.
InfoSurvives ==
  \A id \in DOMAIN known :
    Bar \notin UNION {ToSet(known[id].server_id), ToSet(known[id].server_name),
                     ToSet(known[id].host)} =>
      DeserializeServerInfo(SerializeServerInfo(known[id])) =
        [known[id] EXCEPT !.last_seen = InSeconds(@)]
=============================================================================
