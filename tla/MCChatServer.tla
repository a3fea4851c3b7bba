---------------------------- MODULE MCChatServer ----------------------------
(***************************************************************************)
(* Small instances of ChatServer for TLC.  The configurations MC*.cfg give  *)
(* the constants their values.                                              *)
(***************************************************************************)
EXTENDS ChatServer, FiniteSets

\* Connections, handles and the names typed are interchangeable.  Only safety
\* runs use this.
Symmetry ==
  Permutations(Conns) \cup Permutations(Handles) \cup Permutations(Typed \ {Blank})

\* The reachable states in which every connection has joined without a name,
\* every handler is about to enter its main loop and the acceptor waits.  A handler
\* works on its own object or, when others registered before it read
\* clients.back(), on the object of one of those.
Joined ==
  /\ proc = "up" /\ running = TRUE /\ listening = TRUE
  /\ mutex = Unlocked /\ pos = 1 /\ hit = FALSE
  /\ clients \in SetToSeqs(Conns)
  /\ sock \in {s \in [Conns -> Handles] : IsInjective(s)}
  /\ name = [c \in Conns |-> UsernameOf(Blank, sock[c])]
  /\ active = [c \in Conns |-> TRUE]
  /\ freed = {}
  /\ fd = [h \in Handles |-> IF \E c \in Conns : sock[c] = h
                             THEN CHOOSE c \in Conns : sock[c] = h ELSE None]
  /\ peer = [c \in Conns |-> "live"]
  /\ said = 0
  /\ inbox = [c \in Conns |-> <<>>]
  /\ apc = "accept" /\ fresh = None
  /\ pc = [c \in Conns |-> "loop"]
  /\ ptr \in {p \in [Conns -> Conns] :
                \A i \in DOMAIN clients : \E j \in DOMAIN clients :
                  i <= j /\ p[clients[i]] = clients[j]}
  /\ line = [c \in Conns |-> NoLine]
  /\ cpc = "prompt" /\ target = Blank /\ issued = 0 /\ stops = 0

JoinedInit == Joined /\ link = "none"

\* Bound of the runs about message order: at most one peer leaves.
FewLeave == Cardinality({c \in Conns : peer[c] = "gone"}) <= 1

JoinedSpec == JoinedInit /\ [][Next]_vars

\* One representative of each class of symmetric initial states: a liveness run
\* must not use a symmetry set.
OneJoined ==
  /\ Joined
  /\ clients = SetToSeq(Conns)
  /\ sock = CHOOSE s \in [Conns -> Handles] : IsInjective(s)

OneJoinedInit == OneJoined /\ link = "none"

FairJoinedSpec == OneJoinedInit /\ [][Next]_vars /\ Fairness

\* The same with every handler on its own object, after a "connect".
LinkedInit == OneJoined /\ OwnClient /\ link = "silent"

FairLinkedSpec == LinkedInit /\ [][Next]_vars /\ Fairness
=============================================================================
