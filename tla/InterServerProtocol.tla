------------------------- MODULE InterServerProtocol -------------------------
(***************************************************************************)
(* The texts that servers exchange: interserver_protocol.cpp.  Numbers are    *)
(* their digits; of a time only the whole seconds are written.               *)
(***************************************************************************)
EXTENDS Texts

Bar == "|"

\* A time_point of whole seconds.
FromSeconds(n) == [seconds |-> n, rest |-> 0]

\* A parser that throws.
Rejected == [type |-> <<>>]

Joined(fields) ==
  FlattenSeq([i \in 1..(2 * Len(fields) - 1) |->
                IF i % 2 = 1 THEN fields[(i + 1) \div 2] ELSE <<Bar>>])

\* Mutant: an empty field in the middle is skipped.
TokensNotEmpty(data) == Without(Split(data, Bar), <<>>)

\* std::getline yields no last field when nothing follows the last bar.
Tokens(data) ==
  LET fields == Split(data, Bar)
  IN IF Last(fields) = <<>> THEN Front(fields) ELSE fields

\* TYPE|SERVER_ID|TARGET_SERVER_ID|TIMESTAMP|PAYLOAD
SerializeServerMessage(m) ==
  Joined(<<m.type, m.server_id, m.target_server_id, m.timestamp.seconds, m.payload>>)

\* Mutant: nobody looks whether the timestamp is a number.
DeserializeAnyTime(data) ==
  LET t == Tokens(data)
  IN IF Len(t) < 5 \/ Number(t[1]) = <<>> THEN Rejected
     ELSE [type |-> Number(t[1]), server_id |-> t[2], target_server_id |-> t[3],
           timestamp |-> FromSeconds(t[4]), payload |-> t[5]]

\* What follows a fifth field is dropped.
DeserializeServerMessage(data) ==
  LET t == Tokens(data)
  IN IF Len(t) < 5 \/ Number(t[1]) = <<>> \/ Number(t[4]) = <<>> THEN Rejected
     ELSE [type |-> Number(t[1]), server_id |-> t[2], target_server_id |-> t[3],
           timestamp |-> FromSeconds(Number(t[4])), payload |-> t[5]]

\* ID|NAME|HOST|PORT|MAX_CLIENTS|CURRENT_CLIENTS|LAST_SEEN|CONNECTED
SerializeServerInfo(i) ==
  Joined(<<i.server_id, i.server_name, i.host, i.port, i.max_clients,
           i.current_clients, i.last_seen.seconds, IF i.is_connected THEN <<"1">> ELSE <<"0">>>>)

DeserializeServerInfo(data) ==
  LET t == Tokens(data)
      numbers == {4, 5, 6, 7}
  IN IF Len(t) < 8 \/ \E k \in numbers : Number(t[k]) = <<>> THEN Rejected
     ELSE [server_id |-> t[1], server_name |-> t[2], host |-> t[3],
           port |-> Number(t[4]), max_clients |-> Number(t[5]),
           current_clients |-> Number(t[6]), last_seen |-> FromSeconds(Number(t[7])),
           is_connected |-> t[8] = <<"1">>]
=============================================================================
