SPECIFICATION JoinedSpec
CONSTANTS
  Conns = {c1, c2, c3}
  Handles = {h1, h2, h3}
  Typed = {Blank}
  Blank = Blank
  None = None
  MaxClients = 3
  Sendable = {"chat"}
  MaxLines = 1
  Commands = {"broadcast"}
  MaxCommands = 1
  Stallers = {}
  Observed = {"chat", "server"}
INVARIANTS ConsistentOrder BroadcastReachesAll 
CHECK_DEADLOCK FALSE
SYMMETRY Symmetry
CONSTRAINT FewLeave
