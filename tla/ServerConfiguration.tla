------------------------ MODULE ServerConfiguration ------------------------
(***************************************************************************)
(* ConfigManager of config_manager.cpp, the file it loads and saves, and the  *)
(* starts and ends of the server process that owns it.                       *)
(*                                                                         *)
(* The configuration has one key here for each way a key is treated:         *)
(* server_id (a text, random unless the file has it), server_name (a text     *)
(* with a default; network_name is like it), port (a number; so are           *)
(* max_clients and interserver_port), network_password (a text, empty unless  *)
(* the file has it) and enable_user_sync (one of the four flags).             *)
(***************************************************************************)
EXTENDS Texts

CONSTANTS
  Chars,       \* the characters there are
  RandomIds,   \* what generateServerId may yield
  Settings,    \* the <<key, value>> pairs that setters are called with
  AdminFiles,  \* what may be written into the file by hand
  Infos,       \* servers that may become known
  MaxActs      \* bound: starts, calls of setters, edits of the file, known servers
               \* added, and messages sent (by ServerMessaging)

Keys == <<"server_id", "server_name", "port", "network_password", "enable_user_sync">>

True == <<"t", "e">>
False == <<"f">>

\* A key is a number or a flag, or else a text.
IsNumber(k) == k = "port"
IsFlag(k) == k = "enable_user_sync"

\* The setters and ServerInfo have numbers and flags where the file has texts.  Lines
\* without '=' and with other keys have no effect and are left out, and so are texts
\* with a line feed, which would become two lines.
ASSUME ConfigurationAssumption ==
  /\ {"C", "8", "0", "t", "e", "f"} \subseteq Chars /\ NL \notin Chars
  /\ RandomIds \subseteq Seq(Chars)
  /\ Settings \subseteq ToSet(Keys) \X Seq(Chars)
  /\ \A s \in Settings : /\ IsNumber(s[1]) => IsInteger(s[2])
                         /\ IsFlag(s[1]) => s[2] \in {True, False}
  /\ AdminFiles \subseteq Seq([key : ToSet(Keys), text : Seq(Chars)])
  /\ Infos \subseteq [server_id : Seq(Chars), server_name : Seq(Chars), host : Seq(Chars),
                     port : Numerals, max_clients : Numerals, current_clients : Numerals,
                     last_seen : Times, is_connected : BOOLEAN]
  /\ MaxActs \in Nat

VARIABLES
  proc,       \* the process is "up" or "down"
  config,     \* ConfigManager::config; what it was last when the process is down
  known,      \* config.known_servers, which is not saved
  file,       \* the lines of server_config.txt; none when there is no such file
  unwritten,  \* the lines that saveConfig has yet to write
  attempt,    \* the configuration of the last saveConfig, or <<>> when the file
              \* has been edited since
  acts        \* how many of the acts that MaxActs bounds there were

configVars == <<proc, config, known, file, unwritten, attempt, acts>>

\* ServerConfig() and generateDefaultConfig().
Default(id) ==
  [server_id |-> id, server_name |-> <<"C">>, port |-> <<"8", "0">>,
   network_password |-> <<>>, enable_user_sync |-> True]

ConfigInit ==
  /\ proc = "down" /\ config = Default(<<>>) /\ known = <<>>
  /\ file \in AdminFiles \cup {<<>>} /\ unwritten = <<>> /\ attempt = <<>>
  /\ acts = 0

\* A line is a key and what follows the '='.
Line(k, text) == [key |-> k, text |-> text]

Parsed(l) ==
  IF IsNumber(l.key) THEN Number(l.text)
  ELSE IF IsFlag(l.key) THEN IF Trim(l.text) = True THEN True ELSE False
  ELSE Trim(l.text)

\* Mutant: an empty value is converted like any other.
ReadEmpty(lines, c) ==
  LET bad == {i \in DOMAIN lines : IsNumber(lines[i].key) /\ Parsed(lines[i]) = <<>>}
      end == IF bad = {} THEN Len(lines) ELSE Nth(bad, 0) - 1
      has(k) == {i \in 1..end : lines[i].key = k}
  IN [throws |-> bad # {},
      config |-> [k \in ToSet(Keys) |->
                    IF has(k) = {} THEN c[k]
                    ELSE Parsed(lines[Nth(has(k), Cardinality(has(k)) - 1)])]]

\* loadConfig.  std::getline fails on an empty value, so that such a line has no
\* effect; std::stoi throws at the first bad number, what was read before it stays.
Read(lines, c) ==
  LET given == {i \in DOMAIN lines : lines[i].text # <<>>}
      bad == {i \in given : IsNumber(lines[i].key) /\ Parsed(lines[i]) = <<>>}
      end == IF bad = {} THEN Len(lines) ELSE Nth(bad, 0) - 1
      has(k) == {i \in given : i <= end /\ lines[i].key = k}
  IN [throws |-> bad # {},
      config |-> [k \in ToSet(Keys) |->
                    IF has(k) = {} THEN c[k]
                    ELSE Parsed(lines[Nth(has(k), Cardinality(has(k)) - 1)])]]

-----------------------------------------------------------------------------
\* The constructor, when the server starts.  If loading throws, main returns and
\* nothing has changed.
Construct(id) ==
  LET read == Read(file, Default(id))
  IN /\ proc = "down" /\ acts < MaxActs /\ ~read.throws
     /\ proc' = "up" /\ acts' = acts + 1
     /\ config' = read.config /\ known' = <<>>
     /\ UNCHANGED <<file, unwritten, attempt>>

\* The end of the server, or a crash, which may interrupt saveConfig.
ProcessEnds ==
  /\ proc = "up"
  /\ proc' = "down" /\ unwritten' = <<>>
  /\ UNCHANGED <<config, known, file, attempt, acts>>

Idle == proc = "up" /\ unwritten = <<>>

LoadConfig ==
  /\ Idle
  /\ config' = Read(file, config).config
  /\ UNCHANGED <<proc, known, file, unwritten, attempt, acts>>

Set(k, value) ==
  /\ Idle /\ acts < MaxActs
  /\ config' = [config EXCEPT ![k] = value] /\ acts' = acts + 1
  /\ UNCHANGED <<proc, known, file, unwritten, attempt>>

\* Mutant: the file is opened for appending.
SaveConfigAppends ==
  /\ Idle
  /\ unwritten' = [i \in DOMAIN Keys |-> Line(Keys[i], config[Keys[i]])]
  /\ attempt' = config
  /\ UNCHANGED <<proc, config, known, file, acts>>

\* Opening the file truncates it.
SaveConfig ==
  /\ Idle
  /\ file' = <<>> /\ unwritten' = [i \in DOMAIN Keys |-> Line(Keys[i], config[Keys[i]])]
  /\ attempt' = config
  /\ UNCHANGED <<proc, config, known, acts>>

WriteLine ==
  /\ unwritten # <<>>
  /\ file' = Append(file, Head(unwritten)) /\ unwritten' = Tail(unwritten)
  /\ UNCHANGED <<proc, config, known, attempt, acts>>

\* A write that fails may leave the beginning of its line, and the later ones fail
\* too; nobody looks at the stream's state.
WriteFails ==
  LET l == Head(unwritten)
  IN /\ unwritten # <<>>
     /\ file' \in {file} \cup {Append(file, Line(l.key, SubSeq(l.text, 1, n))) :
                                n \in 0..(Len(l.text) - 1)}
     /\ unwritten' = <<>>
     /\ UNCHANGED <<proc, config, known, attempt, acts>>

EditFile(lines) ==
  /\ unwritten = <<>> /\ acts < MaxActs
  /\ file' = lines /\ attempt' = <<>> /\ acts' = acts + 1
  /\ UNCHANGED <<proc, config, known, unwritten>>

AddKnownServer(info) ==
  /\ Idle /\ acts < MaxActs
  /\ known' = [id \in DOMAIN known \cup {info.server_id} |->
                 IF id = info.server_id THEN info ELSE known[id]]
  /\ acts' = acts + 1
  /\ UNCHANGED <<proc, config, file, unwritten, attempt>>

RemoveKnownServer(id) ==
  /\ Idle /\ id \in DOMAIN known
  /\ known' = [other \in DOMAIN known \ {id} |-> known[other]]
  /\ UNCHANGED <<proc, config, file, unwritten, attempt, acts>>

ConfigStep ==
  \/ \E id \in RandomIds : Construct(id)
  \/ LoadConfig \/ SaveConfig \/ WriteLine \/ WriteFails
  \/ \E s \in Settings : Set(s[1], s[2])
  \/ \E lines \in AdminFiles : EditFile(lines)
  \/ \E info \in Infos : AddKnownServer(info)
  \/ \E id \in DOMAIN known : RemoveKnownServer(id)
=============================================================================
