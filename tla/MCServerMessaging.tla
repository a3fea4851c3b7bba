------------------------- MODULE MCServerMessaging -------------------------
(* A small instance of ServerMessaging for TLC.                             *)
EXTENDS ServerMessaging

TheChars == Digits \cup {" ", "|", "-", "B", "C", "A", "S", "e", "f", "h", "n", "p", "t", "x"}

TheIds == {<<"S", "7">>}
TheNow == [seconds |-> <<"5">>, rest |-> 4]
ThePayloads == {<<"4">>, <<"7", "|">>}

TheSettings ==
  {<<"server_name", <<" ", "n">>>>, <<"port", <<"9">>>>, <<"port", <<"-", "9">>>>,
   <<"network_password", <<"x">>>>, <<"network_password", <<>>>>,
   <<"server_id", <<"6">>>>,
   <<"enable_user_sync", False>>}

\* Blanks and a bad number after a good line; a number with a rest, an id that is a
\* number, and a second line for it that has no effect.
TheFiles ==
  {<<Line("server_id", <<" ", "B", " ">>), Line("port", <<"x">>)>>,
   <<Line("port", <<" ", "9", "x">>), Line("server_id", <<"6">>), Line("server_id", <<>>)>>}

TheInfos ==
  {[server_id |-> <<"A">>, server_name |-> <<>>, host |-> <<"h">>, port |-> <<"8">>,
    max_clients |-> <<"5">>, current_clients |-> <<"0">>, last_seen |-> TheNow,
    is_connected |-> up] : up \in BOOLEAN}
=============================================================================
