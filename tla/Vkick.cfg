SPECIFICATION Spec
CONSTANTS
  Conns = {c1, c2, c3}
  Handles = {h1, h2}
  Typed = {Blank}
  Blank = Blank
  None = None
  MaxClients = 3
  Sendable = {}
  MaxLines = 0
  Commands = {"kick"}
  MaxCommands = 1
  Stallers = {}
  Observed = {}
INVARIANT ActiveIsConnected
CONSTRAINT OwnClient
CHECK_DEADLOCK FALSE
SYMMETRY Symmetry
